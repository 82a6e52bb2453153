----------------------------- MODULE MCResolver -----------------------------
(***************************************************************************)
(* Instances of the resolver for TLC.  A family of fields is the alphabet  *)
(* of a document: TLC builds every document over each family of the run,   *)
(* up to a number of root fields.                                          *)
(***************************************************************************)
EXTENDS ResolverProperties, TLC

A  == <<"a">>
B  == <<"b">>
C  == <<"c">>
AX == <<"a", "x">>
AY == <<"a", "y">>
Lit(x)     == Scalar(<<x>>)
Opt(p)     == Ref(p, TRUE)
Req(p)     == Ref(p, FALSE)
With(s, x) == Cat(<<s, Lit(x)>>, {})
X(v)       == Record(<<Field(<<"x">>, v)>>)
Y(v)       == Record(<<Field(<<"y">>, v)>>)

NoFiles == [f \in {} |-> <<>>]
NoEnv   == [p \in {} |-> <<>>]
Numeric == <<"0", "1">>

\* Two keys that look back at themselves and at each other.
LookbackFields ==
    {Field(k, v) : k \in {A, B},
       v \in {Lit("1"), Opt(A), Opt(B), With(Opt(A), "2"), With(Opt(B), "3"),
              List(<<Opt(B), Lit("4")>>)}}
    \cup {PlusEq(A, Lit("5")), PlusEq(B, Opt(A))}

\* The same with required substitutions, so that most documents have an error.
RequiredFields ==
    {Field(k, v) : k \in {A, B},
       v \in {Lit("1"), Req(A), Req(B), With(Req(A), "2"), With(Req(B), "3"),
              List(<<Req(A), Lit("4")>>)}}

\* One object whose children look back, and the object reassigned around them.
NestedFields ==
    {Field(AX, v) : v \in {Lit("1"), With(Opt(AX), "2")}}
    \cup {Field(AY, v) : v \in {Lit("3"), With(Opt(AY), "6")}}
    \cup {Field(A, v) : v \in {Y(Lit("5")), X(With(Opt(AX), "7")), Opt(AX), Lit("4")}}

\* An object that is a chain of layers over itself.
ChainFields ==
    {Field(A, v) : v \in {Record(<<Field(<<"h">>, Lit("0")), Field(<<"x">>, Lit("1"))>>),
                          Opt(A), Lit("4"), Cat(<<Opt(A), Y(Lit("5"))>>, {}),
                          Cat(<<X(Lit("6")), Opt(A)>>, {}),
                          Record(<<Field(<<"h">>, Opt(A)), Field(<<"y">>, Lit("7"))>>)}}

\* Objects merged with objects that are still substitutions.
ObjectFields ==
    {Field(A, v) : v \in {X(Lit("1")), Opt(B), Lit("4"), Cat(<<Opt(B), Y(Lit("8"))>>, {})}}
    \cup {Field(B, v) : v \in {Record(<<Field(<<"x">>, Lit("6")), Field(<<"z">>, Lit("7"))>>),
                               X(Opt(C))}}
    \cup {Field(AX, Lit("2")), Field(AY, Opt(B)), Field(C, Opt(A)), Field(C, Req(B)),
          Field(C, Lit("9"))}

\* What the loader finds: a file that appends, one that resets and appends,
\* one with a .properties and a .conf candidate, one that includes another,
\* and one whose substitutions look outside it.
Files1 ==
    "twice"  :> <<Record(<<PlusEq(A, Lit("5")), PlusEq(A, Lit("6"))>>)>>
 @@ "reset"  :> <<Record(<<Field(A, List(<<Lit("7")>>)), PlusEq(A, Lit("8"))>>)>>
 @@ "probe"  :> <<Object([k \in {"a"} |-> Array(<<Lit("9")>>)]),
                  Record(<<PlusEq(A, Lit("5"))>>)>>
 @@ "nested" :> <<Record(<<PlusEq(A, Lit("0")), Include("twice")>>)>>
 @@ "outer"  :> <<Record(<<Field(C, Opt(<<"d">>))>>)>>

At(k, f) == Field(<<k>>, Record(<<f>>))

\* The key a and its includes, at the root.
IncludeFields ==
    {Field(A, List(<<Lit("1")>>)), PlusEq(A, Lit("2")), Field(B, Opt(A)), Field(A, Opt(B))}
    \cup {Include(f) : f \in DOMAIN Files1}

\* The same below the key m, next to values outside m.
MountFields ==
    {Field(<<"m", "a">>, List(<<Lit("1")>>)), PlusEq(<<"m", "a">>, Lit("2")),
     Field(<<"d">>, Lit("3")), Field(<<"m", "d">>, Lit("4")), Field(A, List(<<Lit("4")>>))}
    \cup {At("m", Include(f)) : f \in DOMAIN Files1}

\* Environment variables, by name and as lists, from the root and from files
\* mounted below m; the keys n and m.n of the configuration shadow them.
N == <<"n">>
EnvList(p, optional) == [Ref(p, optional) EXCEPT !.list = TRUE]
SomeEnv   == N :> <<"e">> @@ <<"m", "h">> :> <<"g">>
SomeLists == <<"l">> :> << <<"p">>, <<"q">> >>
EnvFiles ==
    "bare"  :> <<Record(<<Field(C, Req(N))>>)>>
 @@ "both"  :> <<Record(<<Field(C, With(Opt(<<"h">>), "8"))>>)>>
 @@ "lists" :> <<Record(<<Field(C, Cat(<<EnvList(<<"l">>, FALSE), List(<<Lit("9")>>)>>, {}))>>)>>
EnvFields ==
    {Field(N, Lit("1")), Field(N, Lit("2")), Field(<<"m", "n">>, Lit("3")),
     Field(<<"h">>, Lit("4")), Field(A, With(Req(N), "5")), Field(B, Opt(A)),
     Field(A, Cat(<<EnvList(<<"l">>, TRUE), EnvList(<<"o">>, TRUE)>>, {})),
     Field(B, EnvList(N, FALSE)), Field(<<"l">>, List(<<Lit("7")>>))}
    \cup {At("m", Include(f)) : f \in DOMAIN EnvFiles} \cup {Include("both")}

\* Required substitutions of keys that may be missing, alone, concatenated, in
\* arrays and in an object.
D  == <<"d">>
DX == <<"d", "x">>
DeferredFields ==
    {Field(A, v) : v \in {Lit("1"), Req(B), With(Req(B), "2"), List(<<Req(C), Lit("3")>>),
                          Cat(<<Req(C), List(<<Lit("4")>>)>>, {})}}
    \cup {Field(B, v) : v \in {Lit("5"), Req(C), With(Opt(B), "6")}}
    \cup {Field(D, X(Req(B))), Field(DX, Req(A)), Field(<<"d", "y">>, With(Req(DX), "7")),
          Field(C, Req(DX)), Field(C, Req(D)), Field(C, Lit("8"))}
-----------------------------------------------------------------------------
UpTo(n, fields)     == [fields |-> fields, max |-> n, modes |-> {FALSE}]
Deferred(n, fields) == [fields |-> fields, max |-> n, modes |-> {TRUE}]

LayerFamilies    == {UpTo(4, NestedFields), UpTo(4, ChainFields), UpTo(3, ObjectFields)}
DocumentFamilies == {UpTo(3, F) : F \in {LookbackFields, RequiredFields, IncludeFields,
                                         MountFields, EnvFields}}
DeferredFamilies == {Deferred(3, DeferredFields)}
AllFamilies      == DocumentFamilies \cup LayerFamilies \cup DeferredFamilies
MountedFiles     == Files1 @@ EnvFiles
-----------------------------------------------------------------------------
(***************************************************************************)
(* Statements that the documents, the comments and the tests of the        *)
(* repository make about the resolver and that the code does not keep for  *)
(* every document; README.md quotes them.  With each, a family of fields   *)
(* that holds a document the statement is not true of.                     *)
(***************************************************************************)
\* docs/spec-compliance.md:349 (S13.10): a required substitution that is
\* undefined is an error.
UndefinedIsError == phase = "done" => Expected # Bad("unresolved")

\* The leaves of the result a key should hold and those it holds.
RECURSIVE PathsOf(_)
PathsOf(v) ==
    IF v.t # "object" THEN {<<>>}
    ELSE {<<>>} \cup UNION {{<<k>> \o p : p \in PathsOf(v.map[k])} : k \in DOMAIN v.map}

\* docs/spec-compliance.md:144 (S7.3): when objects are merged, the fields that
\* are in only one of them are kept.
MergeKeepsFields ==
    phase = "done" /\ Expected.st = "some" => PathsOf(Expected.v) \subseteq PathsOf(Object(result))

\* docs/spec-compliance.md:405 (S13a.8): a cycle of substitutions is an error;
\* it is not followed until the stack overflows.
CyclesAreErrors == Cyclic => error # "overflow"

\* a = ${?c}; b = ${a}
UndefinedTargetFamilies ==
    {UpTo(3, {Field(A, Opt(C)), Field(B, Req(A)), Field(B, Lit("1"))})}

\* a = ${b}; a = ${b}; b = ${a}; b = ${a}
TwoStepFamilies == {UpTo(4, {Field(A, Req(B)), Field(B, Req(A)), Field(A, Lit("1"))})}

\* a = { x = 1 }; a = ${b}; a = { z = 3 }; b = { y = 2 }
BuriedFamilies ==
    {UpTo(4, {Field(A, X(Lit("1"))), Field(A, Req(B)), Field(B, Y(Lit("2"))),
              Field(A, Record(<<Field(<<"z">>, Lit("3"))>>))})}
=============================================================================
