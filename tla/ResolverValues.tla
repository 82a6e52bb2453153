--------------------------- MODULE ResolverValues ---------------------------
(***************************************************************************)
(* The two value trees of the resolver (src/resolver/types.rs and          *)
(* src/value.rs) and the operations on them that src/resolver/utils.rs     *)
(* defines.                                                                *)
(*                                                                         *)
(* A HoconValue is a record whose field t is "scalar", "array", "object"   *)
(* or "hole" (HoconValue::Placeholder).  A ResolverValue is a HoconValue   *)
(* (ResolverValue::Resolved) or a record whose t is "subst", "concat",     *)
(* "obj" or "items" (UnresolvedArray).                                     *)
(*                                                                         *)
(* Abstractions.  The text of a scalar is a sequence of opaque tokens, so  *)
(* string concatenation is \o.  A path is the sequence of its segments:    *)
(* string_segments_to_key quotes every segment that is not plain, which    *)
(* makes the dotted string and the sequence interchangeable as keys.       *)
(* Source positions are left out.  The fields of a ResObj keep their       *)
(* insertion order (keys), because the resolver visits them in it; the     *)
(* order inside a finished object is not observed.                         *)
(***************************************************************************)
EXTENDS Sequences, Naturals, FiniteSets, SequencesExt

(* ------------------------------ HoconValue ----------------------------- *)
Scalar(raw)      == [t |-> "scalar", raw |-> raw]
Array(items)     == [t |-> "array", arr |-> items]
Object(map)      == [t |-> "object", map |-> map]
Hole(path, optional) == [t |-> "hole", path |-> path, optional |-> optional]

(* ---------------------------- ResolverValue ---------------------------- *)
Subst(segs, optional, list) ==
    [t |-> "subst", segs |-> segs, optional |-> optional,
     absent |-> FALSE, list |-> list, plen |-> 0]
Concat(nodes, seps)   == [t |-> "concat", nodes |-> nodes, seps |-> seps]
UnresolvedArray(items) == [t |-> "items", items |-> items]
EmptyMap == [k \in {} |-> k]
NewObj   == [t |-> "obj", keys |-> <<>>, fields |-> EmptyMap,
             prior |-> EmptyMap, reset |-> {}]

\* Option::None, where the code returns an Option<ResolverValue>.
None == [t |-> "none"]

IsResolved(v) == v.t \in {"scalar", "array", "object", "hole"}
IsObj(v)      == v.t = "obj"

(* ------------------------------- IndexMap ------------------------------ *)
Lookup(map, k)   == IF k \in DOMAIN map THEN map[k] ELSE None
Insert(map, k, v) == [j \in DOMAIN map \cup {k} |-> IF j = k THEN v ELSE map[j]]
Without(map, k)   == [j \in DOMAIN map \ {k} |-> map[j]]

\* A variant: every insert adds a position.
PutFieldAgain(o, k, v) ==
    [o EXCEPT !.keys = Append(@, k), !.fields = Insert(@, k, v)]

\* IndexMap::insert keeps the position of a key that is already there.
PutField(o, k, v) ==
    [o EXCEPT !.keys = IF k \in DOMAIN o.fields THEN @ ELSE Append(@, k),
              !.fields = Insert(@, k, v)]
PutPrior(o, k, v) == [o EXCEPT !.prior = Insert(@, k, v)]

MapFields(o, F(_, _)) ==
    [o EXCEPT !.fields = [k \in DOMAIN @ |-> F(k, @[k])]]
MapNodes(s, F(_)) == [i \in DOMAIN s |-> F(s[i])]

(* ------------------------------ operations ----------------------------- *)
\* contains_placeholders_in_hocon_map
RECURSIVE HasHole(_)
HasHole(v) ==
    CASE v.t = "hole"   -> TRUE
      [] v.t = "array"  -> \E i \in DOMAIN v.arr : HasHole(v.arr[i])
      [] v.t = "object" -> \E k \in DOMAIN v.map : HasHole(v.map[k])
      [] OTHER          -> FALSE

\* lookup_path: follows only ResObj nodes, never a resolved object.
RECURSIVE LookupPath(_, _)
LookupPath(root, segs) ==
    LET val == IF segs = <<>> THEN None ELSE Lookup(root.fields, Head(segs))
    IN  IF val = None \/ Len(segs) = 1 THEN val
        ELSE IF IsObj(val) THEN LookupPath(val, Tail(segs)) ELSE None

\* deep_merge_hocon_objects, on the field maps of two objects.
RECURSIVE DeepMergeHocon(_, _)
DeepMergeHocon(base, overlay) ==
    Object([k \in DOMAIN base \cup DOMAIN overlay |->
        IF k \notin DOMAIN overlay THEN base[k]
        ELSE IF k \in DOMAIN base /\ base[k].t = "object" /\ overlay[k].t = "object"
             THEN DeepMergeHocon(base[k].map, overlay[k].map)
             ELSE overlay[k]])

\* as_res_obj: the object-like values, as a ResObj; None for the others.
AsResObj(v) ==
    CASE v.t = "obj"    -> v
      [] v.t = "object" -> [NewObj EXCEPT !.keys = SetToSeq(DOMAIN v.map),
                                          !.fields = v.map]
      [] OTHER          -> None

\* relativize_subst_paths / relativize_res_obj: what an include mounted below
\* a prefix does to every substitution of the included tree, priors included
\* (but never to the priors' or fields' keys).
RECURSIVE Relativize(_, _)
Relativize(v, prefix) ==
    CASE v.t = "subst"  -> [v EXCEPT !.segs = prefix \o @,
                                     !.plen = @ + Len(prefix)]
      [] v.t = "concat" -> [v EXCEPT !.nodes =
                                MapNodes(@, LAMBDA n : Relativize(n, prefix))]
      [] v.t = "items"  -> [v EXCEPT !.items =
                                MapNodes(@, LAMBDA n : Relativize(n, prefix))]
      [] v.t = "obj"    -> [v EXCEPT
              !.fields = [k \in DOMAIN @ |-> Relativize(@[k], prefix)],
              !.prior  = [k \in DOMAIN @ |-> Relativize(@[k], prefix)]]
      [] OTHER          -> v
=============================================================================
