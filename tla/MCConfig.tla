------------------------------ MODULE MCConfig ------------------------------
(***************************************************************************)
(* Instances of the life cycle of a Config for TLC: every chain of up to   *)
(* MaxCalls calls over a few small documents.                              *)
(***************************************************************************)
EXTENDS ConfigProperties, TLC

A  == <<"a">>
B  == <<"b">>
AX == <<"a", "x">>
Lit(x)     == Scalar(<<x>>)
Opt(p)     == Ref(p, TRUE)
Req(p)     == Ref(p, FALSE)
With(s, x) == Cat(<<s, Lit(x)>>, {})
X(v)       == Record(<<Field(<<"x">>, v)>>)
Y(v)       == Record(<<Field(<<"y">>, v)>>)

NoFiles == [f \in {} |-> <<>>]
NoEnv   == [p \in {} |-> <<>>]
Numeric == <<"0", "1">>

One(k, v) == <<Field(k, v)>>

\* Scalars, objects, look-backs and substitutions of one key, and what answers
\* the substitutions.
ChainDocuments ==
    {One(A, v) : v \in {Lit("1"), X(Lit("3")), Y(Req(B)), Req(B), Opt(B), With(Opt(A), "2")}}
    \cup {One(B, v) : v \in {Lit("4"), X(Lit("5"))}}
    \cup {<<Field(AX, Lit("6")), Field(B, Req(AX))>>}
ChainSources == {One(B, Lit("4")), <<Field(AX, Lit("6")), Field(B, Req(AX))>>}
=============================================================================
