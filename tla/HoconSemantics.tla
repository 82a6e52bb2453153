--------------------------- MODULE HoconSemantics ---------------------------
(***************************************************************************)
(* What a HOCON document means, without the machinery of the resolver: no  *)
(* saved priors, no cache, no reset marks, no set of keys being resolved.  *)
(*                                                                         *)
(* A document is flattened into layers: the assignments to leaf paths in   *)
(* the order of the text, with every include inlined below its mount path. *)
(* The value of a path is read off the layers from the last one backwards. *)
(* A substitution in a layer whose target is the layer's own path, an      *)
(* object around it or a path below it looks back: it sees the layers      *)
(* before the object (or value) of that target began.  Any other           *)
(* substitution sees all the layers.  This is the reading of the HOCON     *)
(* specification that docs/spec-compliance.md lists as items S13 to S14c.  *)
(***************************************************************************)
EXTENDS SubstitutionResolver

LOCAL INSTANCE FiniteSetsExt

(* ------------------------------- layers -------------------------------- *)
\* The substitutions of a value, mounted below prefix by an include; plen
\* remembers how much of the path the mount added.
RECURSIVE Mount(_, _)
Mount(ast, prefix) ==
    CASE ast.t = "ref"  -> [ast EXCEPT !.segs = prefix \o @] @@ [plen |-> Len(prefix)]
      [] ast.t = "list" -> [ast EXCEPT !.items = MapNodes(@, LAMBDA n : Mount(n, prefix))]
      [] ast.t = "cat"  -> [ast EXCEPT !.nodes = MapNodes(@, LAMBDA n : Mount(n, prefix))]
      [] OTHER          -> ast

Marker == [t |-> "marker"]

\* base[d]: how many layers come before the value at the first d segments of
\* the path began.
Layer(path, base, val) == [path |-> path, base |-> base, val |-> val]

\* ctx: the path of the object that holds the field, the base of each of its
\* segments and the mount prefix of the file the field is in.
RECURSIVE Flatten(_, _, _, _)
FlattenField(layers, f, ctx, files) ==
    LET path == ctx.path \o f.key
        base == ctx.base \o [i \in DOMAIN f.key |-> Len(layers)]
        self == [t |-> "ref", segs |-> path, optional |-> TRUE, list |-> FALSE]
        val  == IF f.append
                THEN [t |-> "cat", seps |-> {},
                      nodes |-> <<self, [t |-> "list",
                                         items |-> <<Mount(f.value, ctx.mount)>>]>>]
                ELSE Mount(f.value, ctx.mount)
        load(acc, c) ==
            IF c.t = "object"
            THEN acc \o [i \in 1 .. Cardinality(DOMAIN c.map) |->
                     LET k == SetToSeq(DOMAIN c.map)[i]
                     IN  Layer(Append(ctx.path, k), Append(ctx.base, Len(acc)), c.map[k])]
            ELSE Flatten(acc, c.members, [ctx EXCEPT !.mount = ctx.path], files)
    IN  CASE f.key = <<>> -> FoldLeft(load, layers, files[f.value.file])
          [] f.key # <<>> /\ ~f.append /\ f.value.t = "record" ->
                 Flatten(Append(layers, Layer(path, base, Marker)), f.value.members,
                         [path |-> path, base |-> base, mount |-> ctx.mount], files)
          [] OTHER -> Append(layers, Layer(path, base, val))

Flatten(layers, fields, ctx, files) ==
    FoldLeft(LAMBDA acc, f : FlattenField(acc, f, ctx, files), layers, fields)

Layers(doc, files) ==
    Flatten(<<>>, doc, [path |-> <<>>, base |-> <<>>, mount |-> <<>>], files)

(* ------------------------------- values -------------------------------- *)
Yes(v)  == Some(v, EmptyMap)
No      == Missing(EmptyMap)
Bad(e)  == Fail(e, EmptyMap)
Maybe(v) == IF v = None THEN No ELSE Yes(v)

\* A layer over what lies below it: an undefined one is transparent, objects
\* merge, anything else hides what is below.
Over(top, below) ==
    CASE top.st = "err" \/ (top.st = "some" /\ ~IsObject(top)) -> top
      [] top.st = "none"                                       -> below
      [] OTHER -> CASE below.st = "err"  -> below
                    [] IsObject(below)   -> Yes(DeepMergeHocon(below.v.map, top.v.map))
                    [] OTHER             -> top

RECURSIVE ValueAt(_, _, _, _), Eval(_, _, _, _)

\* The value that layer m, an assignment to p or to an object around p, and the
\* layers before it give to p.
Downwards(L, p, m, busy) ==
    LET path == L[m].path
        part(top) == IF top.st # "some" THEN top
                     ELSE Maybe(NavigateResolved(top.v, SubSeq(p, Len(path) + 1, Len(p))))
        seen(top) == IF top.st = "some" /\ ~IsObject(top) /\ path # p THEN No
                     ELSE Over(part(top), ValueAt(L, p, m - 1, busy))
    IN  seen(Eval(L, L[m], L[m].val, busy))

\* A value with the children that later layers assign.
WithKids(under, kid) ==
    LET old == IF IsObject(under) THEN under.v.map ELSE EmptyMap
        new == {c \in DOMAIN kid : kid[c].st = "some"}
        bad == {c \in DOMAIN kid : kid[c].st = "err"}
    IN  IF bad # {} THEN kid[CHOOSE c \in bad : TRUE]
        ELSE Yes(Object([c \in new \cup (DOMAIN old \ DOMAIN kid) |->
                             IF c \in new THEN kid[c].v ELSE old[c]]))

\* The value of path p in the first n layers.  asked holds the questions that
\* are being answered: meeting one again is a cycle.
ValueAt(L, p, n, asked) ==
    LET busy   == asked \cup {<<p, n>>}
        hits   == {i \in 1 .. n : IsPrefix(L[i].path, p) /\ L[i].val # Marker}
        inside == {i \in (IF hits = {} THEN 0 ELSE Max(hits)) + 1 .. n : IsPrefix(p, L[i].path)}
        kids   == {L[i].path[Len(p) + 1] : i \in {j \in inside : Len(L[j].path) > Len(p)}}
        over(under) ==
            IF inside = {} \/ under.st = "err" THEN under
            ELSE WithKids(under, [c \in kids |-> ValueAt(L, Append(p, c), n, busy)])
    IN  IF <<p, n>> \in asked THEN Bad("circular")
        ELSE over(IF hits = {} THEN No ELSE Downwards(L, p, Max(hits), busy))

\* A substitution in layer a.
EvalRef(L, a, s, busy) ==
    LET back  == CASE IsPrefix(s.segs, a.path) -> a.base[Len(s.segs)]
                   [] IsPrefix(a.path, s.segs) -> a.base[Len(a.path)]
                   [] OTHER                    -> Len(L)
        plen  == IF "plen" \in DOMAIN s THEN s.plen ELSE 0
        short == SubSeq(s.segs, plen + 1, Len(s.segs))
        final == ~IsPrefix(s.segs, a.path) /\ ~IsPrefix(a.path, s.segs)
        named(map) == SelectSeq(<<s.segs, short>>, LAMBDA x : x \in DOMAIN map)
        texts == IF UseSystemEnvironment /\ final
                 THEN IF s.list THEN named(EnvLists) ELSE named(Env) ELSE <<>>
        retried(r) == IF r.st = "none" /\ final /\ plen > 0
                      THEN ValueAt(L, short, Len(L), busy) ELSE r
        ended(r) ==
            CASE r.st # "none" -> r
              [] r.st = "none" /\ texts # <<>> /\ s.list ->
                     Yes(Array(MapNodes(EnvLists[texts[1]], LAMBDA x : Scalar(x))))
              [] r.st = "none" /\ texts # <<>> /\ ~s.list -> Yes(Scalar(Env[texts[1]]))
              [] OTHER -> IF s.optional THEN No ELSE Bad("unresolved")
    IN  ended(retried(ValueAt(L, s.segs, back, busy)))

EvalEach(L, a, asts, seps, busy) ==
    ResolveEach(<<>>, [i \in DOMAIN asts |-> i], EmptyMap,
                LAMBDA i, c : Eval(L, a, asts[i], busy),
                LAMBDA vs, i, v : Append(vs, [v |-> v, sep |-> i \in seps]))

\* An object literal inside a concatenation or an array; vals are the values of
\* its members.
RecordOf(members, vals) ==
    LET bad   == {i \in DOMAIN vals : vals[i].st = "err"}
        good  == {i \in DOMAIN vals : vals[i].st = "some"}
        at(k) == Max({i \in good : members[i].key[1] = k})
    IN  IF bad # {} THEN vals[Min(bad)]
        ELSE Yes(Object([k \in {members[i].key[1] : i \in good} |-> vals[at(k)].v]))

Eval(L, a, ast, busy) ==
    CASE ast.t = "ref"    -> EvalRef(L, a, ast, busy)
      [] ast.t = "cat"    -> Then(EvalEach(L, a, ast.nodes, ast.seps, busy),
                                  LAMBDA r : Join(r.v, EmptyMap))
      [] ast.t = "list"   -> Then(EvalEach(L, a, ast.items, {}, busy),
                                  LAMBDA r : Yes(Array(MapNodes(r.v, LAMBDA o : o.v))))
      [] ast.t = "record" ->
             RecordOf(ast.members, MapNodes(ast.members, LAMBDA f : Eval(L, a, f.value, busy)))
      [] OTHER            -> Yes(ast)

\* The meaning of a path in a whole document, and of the whole document.
Meaning(doc, files, p) ==
    LET L == Layers(doc, files) IN ValueAt(L, p, Len(L), {})

DocMeaning(doc, files) ==
    LET r == Meaning(doc, files, <<>>)
    IN  IF r.st = "none" THEN Yes(Object(EmptyMap)) ELSE r

\* No layer of the document is an undefined optional substitution.
IsDefinite(doc, files) ==
    LET L == Layers(doc, files)
    IN  \A i \in DOMAIN L : L[i].val = Marker \/ Eval(L, L[i], L[i].val, {}).st # "none"
=============================================================================
