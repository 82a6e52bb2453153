----------------------------- MODULE FoldSelfRef -----------------------------
(***************************************************************************)
(* src/resolver/fold_self_ref.rs: how a value that is about to be saved as *)
(* the prior of a key loses the substitutions that refer to that key.      *)
(* key is always the full path of the field, from the root of the file     *)
(* being built.                                                            *)
(***************************************************************************)
EXTENDS ResolverValues

\* prefix_self_ref_remainder # None: ${foo.a} seen from the stack of foo.
IsBelow(s, key) == Len(key) < Len(s.segs) /\ IsPrefix(key, s.segs)
Remainder(s, key) == SubSeq(s.segs, Len(key) + 1, Len(s.segs))

(* ------------------- navigate_resolver_value (NavResult) ---------------- *)
RECURSIVE NavigateResolved(_, _)
NavigateResolved(hv, path) ==
    IF path = <<>> THEN hv
    ELSE IF hv.t = "object" /\ Head(path) \in DOMAIN hv.map
         THEN NavigateResolved(hv.map[Head(path)], Tail(path))
         ELSE None

Unnavigable == [t |-> "unnavigable"]

RECURSIVE Navigate(_, _)
Navigate(v, path) ==
    CASE path = <<>>                  -> v
      [] path # <<>> /\ v.t \in {"subst", "concat"} -> Unnavigable
      [] path # <<>> /\ IsObj(v)      ->
             IF Head(path) \in DOMAIN v.fields
             THEN Navigate(v.fields[Head(path)], Tail(path)) ELSE None
      [] path # <<>> /\ IsResolved(v) -> NavigateResolved(v, path)
      [] OTHER                        -> None

(* ------------------------------ detection ------------------------------ *)
\* contains_self_ref_inner.  Below references count in the value stack only,
\* not in the interior of an object.
RECURSIVE ContainsSelfRefIn(_, _, _)
ContainsSelfRefIn(v, key, below) ==
    CASE v.t = "subst"  -> /\ ~v.absent
                           /\ v.segs = key \/ (below /\ IsBelow(v, key))
      [] v.t = "concat" -> \E i \in DOMAIN v.nodes :
                               ContainsSelfRefIn(v.nodes[i], key, below)
      [] v.t = "items"  -> \E i \in DOMAIN v.items :
                               ContainsSelfRefIn(v.items[i], key, below)
      [] v.t = "obj"    -> \E k \in DOMAIN v.fields :
                               ContainsSelfRefIn(v.fields[k], key, FALSE)
      [] OTHER          -> FALSE

ContainsSelfRef(v, key) == ContainsSelfRefIn(v, key, TRUE)

\* contains_subst_by_path: the resolve-time criterion, exact paths only.
RECURSIVE ContainsSubstByPath(_, _)
ContainsSubstByPath(v, path) ==
    CASE v.t = "subst"  -> ~v.absent /\ v.segs = path
      [] v.t = "concat" -> \E i \in DOMAIN v.nodes :
                               ContainsSubstByPath(v.nodes[i], path)
      [] v.t = "items"  -> \E i \in DOMAIN v.items :
                               ContainsSubstByPath(v.items[i], path)
      [] v.t = "obj"    -> \E k \in DOMAIN v.fields :
                               ContainsSubstByPath(v.fields[k], path)
      [] OTHER          -> FALSE

(* ------------------------------- folding ------------------------------- *)
\* fold_prefix_self_ref
FoldBelow(s, key, replacement) ==
    LET nav == Navigate(replacement, Remainder(s, key))
    IN  CASE nav = Unnavigable -> s
          [] nav = None        -> [s EXCEPT !.absent = TRUE]
          [] OTHER             -> nav

\* fold_self_ref_inner.  An exact reference is replaced even when it is
\* already marked absent; the priors of an object are kept as they are.
RECURSIVE FoldIn(_, _, _, _)

FoldIn(v, key, replacement, below) ==
    CASE v.t = "subst" /\ v.segs = key            -> replacement
      [] v.t = "subst" /\ below /\ IsBelow(v, key) -> FoldBelow(v, key, replacement)
      [] v.t = "concat" -> [v EXCEPT !.nodes =
             MapNodes(@, LAMBDA n : FoldIn(n, key, replacement, below))]
      [] v.t = "items"  -> [v EXCEPT !.items =
             MapNodes(@, LAMBDA n : FoldIn(n, key, replacement, below))]
      [] v.t = "obj"    ->
             MapFields(v, LAMBDA k, f : FoldIn(f, key, replacement, FALSE))
      [] OTHER          -> v

\* fold_self_ref
Fold(v, key, replacement) == FoldIn(v, key, replacement, TRUE)

\* fold_known_absent_self_ref: reopens the absent bottom of an included chain.
RECURSIVE FoldKnownAbsent(_, _, _)
FoldKnownAbsent(v, key, replacement) ==
    CASE v.t = "subst" /\ v.absent /\ v.segs = key -> replacement
      [] v.t = "concat" -> [v EXCEPT !.nodes =
             MapNodes(@, LAMBDA n : FoldKnownAbsent(n, key, replacement))]
      [] v.t = "items"  -> [v EXCEPT !.items =
             MapNodes(@, LAMBDA n : FoldKnownAbsent(n, key, replacement))]
      [] v.t = "obj"    ->
             MapFields(v, LAMBDA k, f : FoldKnownAbsent(f, key, replacement))
      [] OTHER          -> v

\* fold_optional_self_ref_absent_inner.  One required self-reference anywhere
\* makes the whole result None (the ? operator of the source).
RECURSIVE FoldAbsentIn(_, _, _)
FoldAbsentIn(v, key, below) ==
    CASE v.t = "subst" /\ (v.segs = key \/ (below /\ IsBelow(v, key))) ->
             IF v.optional THEN [v EXCEPT !.absent = TRUE] ELSE None
      [] v.t = "concat" ->
             LET nodes == MapNodes(v.nodes, LAMBDA n : FoldAbsentIn(n, key, below))
             IN  IF None \in ToSet(nodes) THEN None ELSE [v EXCEPT !.nodes = nodes]
      [] v.t = "items"  ->
             LET items == MapNodes(v.items, LAMBDA n : FoldAbsentIn(n, key, below))
             IN  IF None \in ToSet(items) THEN None ELSE [v EXCEPT !.items = items]
      [] v.t = "obj"    ->
             LET o == MapFields(v, LAMBDA k, f : FoldAbsentIn(f, key, FALSE))
             IN  IF \E k \in DOMAIN o.fields : o.fields[k] = None THEN None ELSE o
      [] OTHER          -> v

FoldAbsent(v, key) == FoldAbsentIn(v, key, TRUE)

\* merge_prior_layers
RECURSIVE MergePriorLayers(_, _)
MergePriorLayers(base, top) ==
    LET put(o, k) ==
            LET b == Lookup(o.fields, k)
                v == top.fields[k]
            IN  PutField(o, k, IF IsObj(b) /\ IsObj(v) THEN MergePriorLayers(b, v)
                               ELSE v)
        merged == FoldLeft(put, base, top.keys)
    IN  [merged EXCEPT
            !.prior = [k \in DOMAIN @ \cup DOMAIN top.prior |->
                          IF k \in DOMAIN top.prior THEN top.prior[k] ELSE @[k]],
            !.reset = @ \cup top.reset]

\* A variant: the value is saved as it is.
SaveUnfolded(v, key, old) == v

\* fold_or_skip_prior: the value saved as the prior of key, None to skip.
FoldOrSkipPrior(v, key, old) ==
    LET standalone(nav) ==
            IF nav = None /\ v.optional THEN old
            ELSE IF IsObj(nav) /\ IsObj(old) THEN MergePriorLayers(old, nav)
            ELSE Fold(v, key, old)
    IN  IF ~ContainsSelfRef(v, key) THEN v
        ELSE IF old = None THEN FoldAbsent(v, key)
        ELSE IF v.t = "subst" /\ IsBelow(v, key)
        THEN standalone(Navigate(old, Remainder(v, key)))
        ELSE Fold(v, key, old)

\* fold_nested_self_refs: folds the fields of an object against the priors
\* the object itself records for them.
RECURSIVE FoldNested(_, _)
FoldNested(v, prefix) ==
    LET refold(k, f) ==
            LET path   == Append(prefix, k)
                folded == FoldNested(f, path)
            IN  IF ContainsSelfRef(folded, path) /\ k \in DOMAIN v.prior
                THEN Fold(folded, path, FoldNested(v.prior[k], path))
                ELSE folded
    IN  IF IsObj(v) THEN MapFields(v, refold) ELSE v
=============================================================================
