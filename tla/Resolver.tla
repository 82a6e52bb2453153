------------------------------ MODULE Resolver ------------------------------
(***************************************************************************)
(* The two phases of the resolver run one after the other (resolve in      *)
(* src/resolver/mod.rs): a document is built field by field, and then the  *)
(* loop of resolve_res_obj resolves the fields of its root object in their *)
(* order, sharing one cache.                                               *)
(***************************************************************************)
EXTENDS DocumentBuilder, SubstitutionResolver

ASSUME OptionAssumption == \A F \in Families : F.modes \subseteq BOOLEAN

VARIABLES
    phase,      \* "build", "resolve", "done" or "failed"
    allow,      \* the option allow_unresolved: placeholders instead of errors
    visited,    \* how many root fields have been resolved
    result,     \* the field map of the resolved root object
    cache,      \* the substitution cache
    error       \* the kind of the error, once failed

vars == <<doc, tree, phase, allow, visited, result, cache, error>>

Init ==
    /\ BuildInit
    /\ phase = "build"
    /\ allow = FALSE
    /\ visited = 0
    /\ result = EmptyMap
    /\ cache = EmptyMap
    /\ error = "none"

Write(f) ==
    /\ phase = "build"
    /\ AddField(f)
    /\ UNCHANGED <<phase, allow, visited, result, cache, error>>

\* build_tree returns and resolve_tree starts, with the option of the caller.
EndBuild ==
    /\ phase = "build"
    /\ phase' = "resolve"
    /\ allow' \in UNION {F.modes : F \in FamiliesOf(doc)}
    /\ UNCHANGED <<doc, tree, visited, result, cache, error>>

NextKey == tree.keys[visited + 1]
Answer  == ResolveField(tree, NextKey, NewCtx(tree, allow), cache)

\* One turn of the loop over the root fields; an undefined field is left out.
ResolveNext ==
    /\ phase = "resolve"
    /\ visited < Len(tree.keys)
    /\ \E r \in {Answer} :
           /\ r.st # "err"
           /\ cache'  = r.cache
           /\ result' = IF r.st = "some" THEN Insert(result, NextKey, r.v) ELSE result
    /\ visited' = visited + 1
    /\ UNCHANGED <<doc, tree, phase, allow, error>>

\* The first error ends the resolution.
ResolveFails ==
    /\ phase = "resolve"
    /\ visited < Len(tree.keys)
    /\ \E r \in {Answer} : r.st = "err" /\ error' = r.v.t
    /\ phase' = "failed"
    /\ UNCHANGED <<doc, tree, allow, visited, result, cache>>

Finish ==
    /\ phase = "resolve"
    /\ visited = Len(tree.keys)
    /\ phase' = "done"
    /\ UNCHANGED <<doc, tree, allow, visited, result, cache, error>>

Next ==
    \/ \E f \in Fields : Write(f)
    \/ EndBuild
    \/ ResolveNext
    \/ ResolveFails
    \/ Finish

Spec == Init /\ [][Next]_vars
=============================================================================
