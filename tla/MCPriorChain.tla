---------------------------- MODULE MCPriorChain ----------------------------
(***************************************************************************)
(* PriorChain with two keys and two atoms.  The sources are the objects  *)
(* that two assignments to one key can build.                              *)
(***************************************************************************)
EXTENDS PriorChain, TLC

Val(atoms, self) == [atoms |-> atoms, self |-> self]
Only(k, v) == [j \in Key |-> IF j = k THEN v ELSE NoValue]
Obj(k, v, p, r) == [fields |-> Only(k, v), priors |-> Only(k, p), resets |-> r]

Sources ==
    UNION {{Obj(k, Val({"x"}, {"optional"}), NoValue, {}),
            Obj(k, Val({"x"}, {"required"}), NoValue, {}),
            Obj(k, Val({"x"}, {"optional"}), Val({"y"}, {"absent"}), {}),
            Obj(k, Val({"x"}, {}), Val({"y"}, {"absent"}), {k}),
            Obj(k, Val({"x"}, {"optional"}), Val({"y"}, {}), {k}),
            Obj(k, Val({"y"}, {}), NoValue, {})} : k \in Key}
=============================================================================
