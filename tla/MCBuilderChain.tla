--------------------------- MODULE MCBuilderChain ---------------------------
(***************************************************************************)
(* The structure builder implements PriorChain: while the root object is   *)
(* built from fields that hold no objects, and from files of such fields,  *)
(* its fields, priors and reset marks change as PriorChain says.           *)
(***************************************************************************)
EXTENDS DocumentBuilder, TLC

A == <<"a">>
B == <<"b">>
Tok(x)  == List(<<Scalar(<<x>>)>>)
Opt(p)  == Ref(p, TRUE)
Req(p)  == Ref(p, FALSE)

FlatFields ==
    {Field(A, v) : v \in {Tok("1"), Opt(A), Cat(<<Req(A), Tok("2")>>, {}),
                          Cat(<<Opt(B), Opt(A), Tok("1")>>, {})}}
    \cup {PlusEq(A, Scalar(<<"2">>)), Field(B, Opt(A)), Field(B, Cat(<<Opt(B), Tok("3")>>, {}))}
    \cup {Include(f) : f \in DOMAIN Files}

FlatFiles ==
    "twice"  :> <<Record(<<PlusEq(A, Scalar(<<"5">>)), PlusEq(A, Scalar(<<"6">>))>>)>>
 @@ "reset"  :> <<Record(<<Field(A, Tok("5")), PlusEq(A, Scalar(<<"6">>))>>)>>
 @@ "needs"  :> <<Record(<<Field(A, Cat(<<Req(A), Tok("5")>>, {}))>>)>>
 @@ "probe"  :> <<Object([k \in {"a"} |-> Array(<<Scalar(<<"6">>)>>)]),
                  Record(<<PlusEq(A, Scalar(<<"5">>))>>)>>
 @@ "nested" :> <<Record(<<PlusEq(A, Scalar(<<"6">>)), Include("twice"), Field(B, Opt(B))>>)>>

FlatFamilies == {[fields |-> FlatFields, max |-> 3]}

BuilderSpec == BuildInit /\ [][\E f \in Fields : AddField(f)]_<<doc, tree>>

(* ------------------------- the refinement mapping ---------------------- *)
Keys     == {"a", "b"}
Literals == {"1", "2", "3", "5", "6"}
Gone     == [atoms |-> {}, self |-> {"none"}]     \* not in Chain!Value

\* The substitutions and the scalars of a value.
RECURSIVE Leaves(_)
Leaves(v) ==
    CASE v.t = "concat" -> UNION {Leaves(v.nodes[i]) : i \in DOMAIN v.nodes}
      [] v.t = "items"  -> UNION {Leaves(v.items[i]) : i \in DOMAIN v.items}
      [] v.t = "array"  -> UNION {Leaves(v.arr[i]) : i \in DOMAIN v.arr}
      [] OTHER          -> {v}

Kind(s) == IF s.absent THEN "absent" ELSE IF s.optional THEN "optional" ELSE "required"

\* The value as PriorChain sees it, from the key k.
Reduced(v, k) ==
    LET refs == {l \in Leaves(v) : l.t = "subst"}
        own  == {s \in refs : s.segs = <<k>>}
    IN  [atoms |-> {s.segs[1] : s \in refs \ own} \cup {l.raw[1] : l \in Leaves(v) \ refs},
         self  |-> {Kind(s) : s \in own}]

ReducedMap(map) == [k \in Keys |-> IF k \in DOMAIN map THEN Reduced(map[k], k) ELSE Gone]

ReducedFile(f) ==
    LET o == LoadInclude(f)
    IN  [fields |-> ReducedMap(o.fields), priors |-> ReducedMap(o.prior), resets |-> o.reset]

Chain == INSTANCE PriorChain WITH
    Key     <- Keys,
    Atom    <- Keys \cup Literals,
    NoValue <- Gone,
    Source  <- {ReducedFile(f) : f \in DOMAIN Files},
    fields  <- ReducedMap(tree.fields),
    priors  <- ReducedMap(tree.prior),
    resets  <- tree.reset

\* What PriorChain does when the builder applies the field f.
Step(f) ==
    LET g == IF f.append THEN DesugaredAppend(f, <<>>) ELSE f
    IN  IF f.key = <<>> THEN Chain!Merge(ReducedFile(f.value.file))
        ELSE Chain!Assign(Head(g.key), Reduced(ToResolverValue(g.value, g.key), Head(g.key)))

\* Every assignment and every include of the builder changes the fields, the
\* priors and the reset marks as PriorChain says, and the objects of the
\* included files are what PriorChain assumes of its sources.
ImplementsPriorChain ==
    /\ \A f \in DOMAIN Files : ReducedFile(f) \in Chain!File /\ Chain!Sound(ReducedFile(f))
    /\ Chain!Spec
    /\ [][Step(Last(doc'))]_<<doc, tree>>
=============================================================================
