------------------------------- MODULE MCText -------------------------------
(***************************************************************************)
(* The texts: every sequence of up to n pieces of a few alphabets, each    *)
(* alphabet for one part of the grammar, and the same inside a frame.      *)
(***************************************************************************)
EXTENDS Renderer, TLC

\* The concatenations of up to n pieces.
RECURSIVE Words(_, _)
Words(pieces, n) ==
    IF n = 0 THEN {<<>>}
    ELSE LET shorter == Words(pieces, n - 1)
         IN  shorter \cup {w \o p : w \in shorter, p \in pieces}
Texts(pieces, n, before, after) == {before \o w \o after : w \in Words(pieces, n)}
Letters(S) == {<<c>> : c \in S}
Q == <<Quote>>
B == <<Quote, "b", Quote>>
Nothing == <<>>

(* -------------------------- for the lexer above all -------------------- *)
Strings == <<
    Texts(Letters({Quote, "a", Backslash, "n", Newline}), 5, Nothing, Nothing),
    Texts({<<Backslash, "u", "0", "0", "6", "1">>, <<Backslash, "u", "0", "0">>, <<Backslash, "u", "d", "8", "0", "0">>, <<"a">>, Q}, 3, Q, Q),
    Texts(Letters({Quote, "a", Newline}), 5, <<"a", "=", Quote, Quote, Quote>>, <<Quote, " ", "b">>)>>
Gaps == <<
    Texts({<<" ">>, <<Newline>>, <<"/", "/">>, <<"#">>, <<"a">>, <<"/">>, <<"+">>, <<"=">>}, 4, Nothing, Nothing),
    Texts(Letters({" ", "bom", "a", "nbsp"}), 4, Nothing, Nothing)>>
Substs == <<
    Texts(Letters({"a", ".", " ", Quote, "-", "1"}), 4, <<"$", "{">>, <<"}">>),
    Texts({<<"a">>, <<".">>, <<"[", "]">>, <<"nbsp">>, <<"?">>, <<"}">>}, 4, <<"$", "{">>, <<"}">>),
    Texts(Letters({"$", "{", "a", "}", Newline, "[", "+", ":"}), 4, Nothing, Nothing)>>

(* ------------------------- for the parser above all -------------------- *)
Structure == Letters({"a", "=", "1", "{", "}", "[", "]", ",", Newline})
Structures == <<
    Texts(Structure, 4, Nothing, Nothing),
    Texts(Structure, 4, <<"a", "=", "{", "b", "=">>, <<"}", ",", "c", "=", "2">>),
    Texts(Structure, 3, <<"{", "a", "=", "[">>, <<"]", "}">>)>>
Piece == {<<"a">>, <<".">>, <<" ">>, B, <<Quote, Quote>>}
KeysOf == <<
    Texts(Piece \cup {<<"+">>}, 4, Nothing, <<"=", "1">>),
    Texts(Piece, 5, Nothing, <<"{", "}">>),
    {p \o <<"=", "$", "{">> \o p \o <<"}">> : p \in Words(Piece, 4)}>>
Values == <<
    Texts({<<"a">>, <<" ">>, <<"1">>, B, <<"$", "{", "a", "}">>, <<":">>, <<"=">>, <<"true">>,
           <<"+", "=">>, <<"{", "b", "=", "1", "}">>, <<"[", "1", "]">>}, 3, <<"a", "=">>, Nothing)>>
Numbers == <<
    Texts(Letters({"1", ".", "e", "+", "-", "a"}), 4, <<"a", "=">>, Nothing),
    Texts(Letters({"1", ".", "e", "+", "-"}), 4, Nothing, <<"+", "=", "1">>)>>

Including(pre, post) == {<<"include">> \o pre \o B \o post}
Wellformed ==
    UNION {Including(p[1], p[2]) : p \in
        {<< <<" ">>, Nothing >>, << <<Newline, " ">>, Nothing >>, << <<" ", "file", "(">>, <<")">> >>,
         << <<" ", "file", " ", "(">>, <<" ", ")">> >>, << <<" ", "required", "(">>, <<")">> >>,
         << <<" ", "required", " ", "(", " ">>, <<")">> >>, << <<" ", "required", "(", "file", "(">>, <<")", ")">> >>,
         << <<" ", "required", " ", "(", "file", "(">>, <<")", ")">> >>,
         << <<" ", "required", "(", " ", "file", "(">>, <<")", ")">> >>,
         << <<" ", "file", "(", "a", "{", " ">>, <<")">> >>, << <<" ", "file", "(", Newline, "}">>, <<")">> >>,
         << <<" ", "package", "(">>, <<",">> \o B \o <<")">> >>,
         << <<" ", "package", " ", "(">>, <<",">> \o B \o <<")">> >>,
         << <<" ", "required", "(", "package", "(">>, <<",">> \o B \o <<")", ")">> >>,
         << <<" ", "required", " ", "(", "package", "(">>, <<",">> \o B \o <<")", ")">> >>}}
Illformed ==
    UNION {Including(p[1], p[2]) : p \in
        {<< <<".">>, Nothing >>, << <<" ", "file", "(">>, Nothing >>, << <<" ", "a">>, Nothing >>,
         << <<" ", "=">>, Nothing >>, << <<" ", "file", "(", ")">>, Nothing >>, << <<" ", "package">>, Nothing >>,
         << <<" ", "package", "(">>, <<")">> >>, << <<" ", "package", "(">>, <<",">> \o B >>,
         << <<" ", "package", "(">>, <<",", Quote, "/", "b", Quote, ")">> >>,
         << <<" ", "package", "(">>, <<",", Quote, ".", ".", "/", "b", Quote, ")">> >>,
         << <<" ", "package", "(">>, <<",", "b", ")">> >>, << <<" ">>, <<" ", "x">> >>}}
Includes == <<
    {b \o d \o a : d \in Wellformed \cup Illformed,
                   b \in {Nothing, <<"{">>, <<"a", "=", "1", Newline>>},
                   a \in {Nothing, <<"}">>, <<",", "c", "=", "1">>, <<" ", "c", "=", "1", "}">>, <<Newline, "c", "=", "1">>}},
    {<<Quote, "include", Quote, "=", "1">>, <<"a", ".", "include", "=", "1">>, <<"include", ".", "a", "=", "1">>}>>

(* ---------------------------- for the renderer ------------------------- *)
Named(k, v)  == Field(<<k>>, FALSE, v)
One(k, v)    == Object(<<Named(k, v)>>)
Spoken       == Words(Letters({"a", "1", "-", " ", ".", Quote, Backslash, "n", "/", "true", Newline}), 2)
                \cup Words(Letters({Quote, Newline, "\r"}), 3)
                \cup Letters({"yes", "null", "include", "\t", "nbsp", "b"})
                \cup {<<Newline>> \o ThreeQuotes, <<Newline>> \o ThreeQuotes \o <<"a">>, <<"a", Newline, Quote, "b">>}
Plain        == {Scalar("number", <<"1">>), Scalar("string", <<"a">>), Scalar("string", <<Newline>>),
                 Object(<<>>), Array(<<>>)}
Around(v)    == {One(<<"a">>, v), Array(<<v>>), Array(<<v, Scalar("number", <<"1">>)>>), Array(<<Object(<<>>), v>>),
                 Object(<<Named(<<"a">>, v), Named(<<"b">>, Array(<<>>))>>)}
RECURSIVE Data(_)
Data(n)      == IF n = 0 THEN Plain ELSE Plain \cup UNION {Around(v) : v \in Data(n - 1)}
DataTrees ==
    {One(<<"a">>, Scalar("string", s)) : s \in Spoken}
    \cup {One(s, Scalar("number", <<"-", "1">>)) : s \in Spoken}
    \cup {One(<<"a">>, Scalar(v[1], v[2])) : v \in {<< "null", <<"null">> >>, << "boolean", <<"true">> >>}}
    \cup {One(<<"a">>, v) : v \in Data(2)} \cup {Object(<<>>)}

All == Strings \o Gaps \o Substs \o Structures \o KeysOf \o Values \o Numbers \o Includes \o <<Emitted>>

Codes == <<"0", "0", "6", "1">> :> "a"
Huge  == {<<"1", "e", "1", "1">>}
=============================================================================
