------------------------ MODULE SubstitutionResolver ------------------------
(***************************************************************************)
(* Phase 2 of the resolver (src/resolver/substitution_resolver.rs): every  *)
(* operator is one method of the struct SubstitutionResolver.  What the    *)
(* methods mutate is threaded explicitly:                                  *)
(*   - the cache is an argument and a component of every answer;           *)
(*   - ctx holds what a call restores before it returns: the path of the   *)
(*     field being resolved (rfp), the keys being resolved (resolving),    *)
(*     the fields whose prior is being resolved through a reference below  *)
(*     them (below), the depth of the call stack, and allow_unresolved.    *)
(* An answer has st "some" (a value), "none" (undefined) or "err"; v is    *)
(* the value or the kind of the error.                                     *)
(***************************************************************************)
EXTENDS ObjectMerge

CONSTANTS
    Env,             \* path -> text: the environment, by dotted name
    EnvLists,        \* path -> texts of NAME_0, NAME_1, ... up to the first gap
    UseSystemEnvironment,
    NumericKeys,     \* the keys parse_eligible_key accepts, in their order
    MaxDepth         \* call depth taken to be a stack overflow

ASSUME ResolverAssumption ==
    UseSystemEnvironment \in BOOLEAN /\ MaxDepth \in Nat

Some(v, cache)    == [st |-> "some", v |-> v,    cache |-> cache]
Missing(cache)    == [st |-> "none", v |-> None, cache |-> cache]
Fail(kind, cache) == [st |-> "err",  v |-> [t |-> kind], cache |-> cache]

IsObject(r) == r.st = "some" /\ r.v.t = "object"

\* The ? operator of the source: an error ends what the answer is needed for.
Then(r, F(_)) == IF r.st = "err" THEN r ELSE F(r)

\* Delayed merge: a value over the answer for its prior, when both are objects.
MergeOver(own, prior) ==
    Some(IF IsObject(own) /\ IsObject(prior)
         THEN DeepMergeHocon(prior.v.map, own.v.map) ELSE own.v, prior.cache)

NewCtx(root, allow) ==
    [root |-> root, allow |-> allow, rfp |-> <<>>, resolving |-> {}, below |-> {}, depth |-> 0]

CacheKey(s) == <<s.segs, s.list>>
Memo(key, r) == IF r.st = "some" THEN [r EXCEPT !.cache = Insert(@, key, r.v)] ELSE r

\* The path a placeholder is left with; the brackets of a list are part of it.
HolePath(s) == IF s.list THEN Append(s.segs, "[]") ELSE s.segs

\* The end of a lookup that found nothing.
Undefined(s, ctx, cache) ==
    CASE s.optional                       -> Missing(cache)
      [] ~s.optional /\ ctx.allow   -> Some(Hole(HolePath(s), FALSE), cache)
      [] ~s.optional /\ ~ctx.allow  -> Fail("unresolved", cache)

\* The key is added to the ones being resolved, while its value is looked up.
EnterUnmarked(ctx, key) == ctx          \* a variant
Enter(ctx, key) == [ctx EXCEPT !.resolving = @ \cup {key}]

\* cache.remove of a field's key before the field is resolved: what an earlier
\* field has seen of it may be a preview.
ForgetNothing(cache, path) == cache     \* a variant
Forget(cache, path) == Without(cache, <<path, FALSE>>)

\* cache.insert of the field's key, and cache_descendants below it.
CacheNothing(cache, path, v) == cache   \* a variant
RECURSIVE CacheTree(_, _, _)
CacheTree(cache, path, v) ==
    LET kids == IF v.t = "object" THEN SetToSeq(DOMAIN v.map) ELSE <<>>
    IN  FoldLeft(LAMBDA c, k : CacheTree(c, Append(path, k), v.map[k]),
                 Insert(cache, <<path, FALSE>>, v), kids)

\* numeric_object_to_array (src/numeric_array.rs) on a field map.
NumericArray(map) ==
    LET eligible == SelectSeq(NumericKeys, LAMBDA k : k \in DOMAIN map)
    IN  [i \in DOMAIN eligible |-> map[eligible[i]]]

\* join_pair
JoinPair(l, r) ==
    LET convertible(v) == v.t = "object" /\ NumericArray(v.map) # <<>>
        elements(v)    == IF v.t = "array" THEN v.arr ELSE NumericArray(v.map)
        listlike(v)    == v.t = "array" \/ convertible(v)
    IN  CASE l.t = "object" /\ r.t = "object" -> DeepMergeHocon(l.map, r.map)
          [] "array" \in {l.t, r.t} /\ listlike(l) /\ listlike(r) ->
                 Array(elements(l) \o elements(r))
          [] l.t = "scalar" /\ r.t = "scalar" -> Scalar(l.raw \o r.raw)
          [] OTHER -> None

\* The join of the operands of a concatenation that are not undefined; ops is
\* a sequence of [v |-> value, sep |-> whether it is a separator].
Join(ops, cache) ==
    LET structured == \E i \in DOMAIN ops : ops[i].v.t \in {"object", "array"}
        used   == IF structured /\ Len(ops) > 1
                  THEN SelectSeq(ops, LAMBDA o : ~o.sep) ELSE ops
        values == MapNodes(used, LAMBDA o : o.v)
        joined == FoldLeft(LAMBDA l, r : IF l = None THEN None ELSE JoinPair(l, r),
                           Head(values), Tail(values))
    IN  CASE values = <<>>     -> Missing(cache)
          [] Len(values) = 1   -> Some(values[1], cache)
          [] Len(values) > 1 /\ \E i \in DOMAIN values : values[i].t = "hole" ->
                 Some(Hole(<<>>, FALSE), cache)
          [] OTHER -> IF joined = None THEN Fail("type", cache) ELSE Some(joined, cache)

RECURSIVE ResolveVal(_, _, _, _), ResolveField(_, _, _, _)

\* The elements of an array, the operands of a concatenation or the fields of
\* an object, in order: Resolve answers for one, and Add puts its value with
\* the others.  An undefined one is dropped; the first error ends it.
ResolveEach(none, keys, cache, Resolve(_, _), Add(_, _, _)) ==
    LET add(acc, k, r) ==
            IF r.st = "none" THEN [acc EXCEPT !.cache = r.cache]
            ELSE Some(Add(acc.v, k, r.v), r.cache)
        step(before, k) ==
            Then(before, LAMBDA acc :
                Then(Resolve(k, acc.cache), LAMBDA r : add(acc, k, r)))
    IN  FoldLeft(step, Some(none, cache), keys)

ResolveItems(nodes, seps, scope, ctx, cache) ==
    ResolveEach(<<>>, [i \in DOMAIN nodes |-> i], cache,
                LAMBDA i, c : ResolveVal(nodes[i], scope, ctx, c),
                LAMBDA vs, i, v : Append(vs, [v |-> v, sep |-> i \in seps]))

\* resolve_concat
ResolveConcat(c, scope, ctx, cache) ==
    Then(ResolveItems(c.nodes, c.seps, scope, ctx, cache), LAMBDA r : Join(r.v, r.cache))

ResolveArray(items, scope, ctx, cache) ==
    Then(ResolveItems(items, {}, scope, ctx, cache),
         LAMBDA r : Some(Array(MapNodes(r.v, LAMBDA o : o.v)), r.cache))

\* resolve_res_obj
ResolveResObj(obj, ctx, cache) ==
    Then(ResolveEach(EmptyMap, obj.keys, cache,
                     LAMBDA k, c : ResolveField(obj, k, ctx, c), Insert),
         LAMBDA r : [r EXCEPT !.v = Object(@)])

\* The body of the loop of resolve_res_obj: the value of one field, merged
\* over its prior when both are objects, or its prior when it is undefined;
\* the cache entry of the field is dropped first and written last.
ResolveField(obj, k, ctx, cache) ==
    LET path  == Append(ctx.rfp, k)
        inner == [ctx EXCEPT !.rfp = path]
        prior(own) == IF k \in DOMAIN obj.prior /\ (own.st = "none" \/ IsObject(own))
                      THEN ResolveVal(obj.prior[k], obj, inner, own.cache)
                      ELSE Missing(own.cache)
        over(own, below) == IF own.st = "none" THEN below ELSE MergeOver(own, below)
        write(r) == IF r.st = "none" THEN r ELSE [r EXCEPT !.cache = CacheTree(@, path, r.v)]
    IN  Then(Then(ResolveVal(obj.fields[k], obj, inner, Forget(cache, path)),
                  LAMBDA own : Then(prior(own), LAMBDA below : over(own, below))), write)

(* --------------------------- substitutions ----------------------------- *)
\* The branch for a target inside the field being resolved: its saved prior,
\* navigated to the target, unless that prior is already being resolved.
ResolveBelow(s, scope, ctx, cache) ==
    LET usable == ctx.rfp \notin ctx.below /\ Last(ctx.rfp) \in DOMAIN scope.prior
        nav(r) == IF r.st = "none" THEN None ELSE NavigateResolved(r.v, Remainder(s, ctx.rfp))
        found(r, v) == IF v = None THEN Undefined(s, ctx, r.cache) ELSE Some(v, r.cache)
    IN  IF usable
        THEN Then(ResolveVal(scope.prior[Last(ctx.rfp)], scope,
                             [ctx EXCEPT !.below = @ \cup {ctx.rfp}], cache),
                  LAMBDA r : found(r, nav(r)))
        ELSE Undefined(s, ctx, cache)

\* The prior recorded for the first segment of s, in the scope or at the root.
PriorRoot(s, scope, ctx) ==
    LET local == Lookup(scope.prior, Head(s.segs))
    IN  IF local # None THEN local ELSE Lookup(ctx.root.prior, Head(s.segs))

\* What that prior holds at the path of s.
PriorAt(s, prior) ==
    CASE Len(s.segs) = 1                                -> prior
      [] Len(s.segs) > 1 /\ prior # None /\ IsObj(prior) -> LookupPath(prior, Tail(s.segs))
      [] OTHER                                          -> None

\* The branch for a key that is already being resolved.
ResolveCycle(s, scope, ctx, cache) ==
    LET prior == PriorRoot(s, scope, ctx)
        at    == PriorAt(s, prior)
        skip  == at # None /\ ContainsSubstByPath(at, s.segs)
    IN  IF prior # None /\ ~skip
        THEN ResolveVal(IF at = None THEN prior ELSE at, scope,
                        [ctx EXCEPT !.resolving = @ \ {CacheKey(s)}], cache)
        ELSE IF s.optional THEN Missing(cache) ELSE Fail("circular", cache)

\* The branch of resolve_subst_inner for a reference of a field to itself or
\* to an object around it: the leaf's own prior, or the one of the root field.
ResolveSelfRef(s, scope, ctx, cache) ==
    LET leaf      == IF Len(s.segs) > 1 THEN Lookup(scope.prior, Last(s.segs)) ELSE None
        rooted    == PriorAt(s, PriorRoot(s, scope, ctx))
        usable(p) == p # None /\ ~ContainsSubstByPath(p, s.segs)
        prior     == IF usable(leaf) THEN leaf ELSE rooted
    IN  IF usable(prior)
        THEN Memo(CacheKey(s), ResolveVal(prior, scope, ctx, cache))
        ELSE IF s.optional THEN Missing(cache) ELSE Fail("no prior", cache)

\* A value found at path, merged over the prior of the root field when path
\* is a single segment and both are objects.
ResolveAt(s, path, found, scope, ctx, cache) ==
    LET prior(own) == IF IsObject(own) /\ Len(path) = 1 /\ Head(path) \in DOMAIN ctx.root.prior
                      THEN ResolveVal(ctx.root.prior[Head(path)], scope, ctx, own.cache)
                      ELSE Missing(own.cache)
        merged(own) == IF own.st = "none" THEN own
                       ELSE Then(prior(own), LAMBDA below : MergeOver(own, below))
    IN  Memo(CacheKey(s), Then(ResolveVal(found, scope, ctx, cache), merged))

\* resolve_subst_inner, when the tree has nothing at the path: the path the
\* included file wrote, then the environment.
ResolveElsewhere(s, scope, ctx, cache) ==
    LET original == SubSeq(s.segs, s.plen + 1, Len(s.segs))
        moved    == s.plen > 0 /\ Len(s.segs) > s.plen
        names    == <<s.segs>> \o (IF moved THEN <<original>> ELSE <<>>)
        found    == IF moved THEN LookupPath(ctx.root, original) ELSE None
        scalars  == SelectSeq(names, LAMBDA n : n \in DOMAIN Env)
        lists    == SelectSeq(names, LAMBDA n : n \in DOMAIN EnvLists)
        asList   == s.list /\ UseSystemEnvironment
    IN  CASE found # None -> ResolveAt(s, original, found, scope, ctx, cache)
          [] found = None /\ asList /\ lists # <<>> ->
                 Memo(CacheKey(s), Some(Array(MapNodes(EnvLists[lists[1]],
                                                       LAMBDA x : Scalar(x))), cache))
          [] found = None /\ asList /\ lists = <<>> ->
                 IF s.optional THEN Missing(cache) ELSE Fail("unresolved", cache)
          [] found = None /\ ~asList /\ UseSystemEnvironment /\ scalars # <<>> ->
                 Memo(CacheKey(s), Some(Scalar(Env[scalars[1]]), cache))
          [] OTHER -> Undefined(s, ctx, cache)

\* resolve_subst_inner, with the key added to the ones being resolved.
ResolveLookup(s, scope, ctx, cache) ==
    LET found == LookupPath(ctx.root, s.segs)
        self  == IsPrefix(s.segs, ctx.rfp) /\ ContainsSubstByPath(found, s.segs)
    IN  CASE found = None            -> ResolveElsewhere(s, scope, ctx, cache)
          [] found # None /\ self    -> ResolveSelfRef(s, scope, ctx, cache)
          [] found # None /\ ~self   -> ResolveAt(s, s.segs, found, scope, ctx, cache)

\* resolve_subst
ResolveSubst(s, scope, ctx, cache) ==
    LET key == CacheKey(s)
    IN  IF s.absent THEN Undefined(s, ctx, cache)
        ELSE IF ctx.rfp # <<>> /\ IsBelow(s, ctx.rfp) THEN ResolveBelow(s, scope, ctx, cache)
        ELSE IF key \in DOMAIN cache THEN Some(cache[key], cache)
        ELSE IF key \in ctx.resolving THEN ResolveCycle(s, scope, ctx, cache)
        ELSE ResolveLookup(s, scope, Enter(ctx, key), cache)

\* resolve_val
ResolveVal(v, scope, outer, cache) ==
    LET ctx == [outer EXCEPT !.depth = @ + 1]
    IN  IF ctx.depth > MaxDepth THEN Fail("overflow", cache)
        ELSE CASE v.t = "subst"  -> ResolveSubst(v, scope, ctx, cache)
               [] v.t = "concat" -> ResolveConcat(v, scope, ctx, cache)
               [] v.t = "obj"    -> ResolveResObj(v, ctx, cache)
               [] v.t = "items"  -> ResolveArray(v.items, scope, ctx, cache)
               [] OTHER          -> Some(v, cache)
=============================================================================
