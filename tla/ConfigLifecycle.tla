--------------------------- MODULE ConfigLifecycle ---------------------------
(***************************************************************************)
(* A Config and the calls that make another one of it (src/config.rs and   *)
(* the second half of src/resolver/mod.rs): it is parsed, with or without  *)
(* resolving, gets a fallback or becomes one, and is resolved, alone or    *)
(* with a source of values.  A Config holds the same configuration twice:  *)
(* the root that callers read and, as long as it is needed, the tree the   *)
(* next merge or resolution starts from.                                   *)
(*                                                                         *)
(* doc is what the configuration stands for: the document one would write  *)
(* instead of the calls.  A fallback is text before the document it is a   *)
(* fallback of; resolving replaces the document by its values.  Two calls  *)
(* drop a part of it, which lossy remembers: a fallback keeps one of the   *)
(* priors two layers give it, and a sub-configuration has no tree.         *)
(***************************************************************************)
EXTENDS StructureBuilder, HoconSemantics

CONSTANTS
    Documents,  \* the documents that are parsed, sequences of fields
    Sources,    \* the ones among them that are sources of values
    MaxCalls    \* how many calls follow the parse

VARIABLES
    doc,        \* the document the configuration stands for
    config,     \* the configuration
    calls,      \* how many calls have been made
    lossy       \* whether a call has dropped a part of the document

vars == <<doc, config, calls, lossy>>

ASSUME CallsAssumption == MaxCalls \in Nat /\ Sources \subseteq Documents

Config(root, resolved, tree) == [root |-> root, resolved |-> resolved, tree |-> tree]

(* ----------------------------- conversions ----------------------------- *)
\* resolver_value_to_hocon
RECURSIVE ToHocon(_)
ToHocon(v) ==
    CASE v.t = "subst"  -> Hole(v.segs, v.optional)
      [] v.t = "concat" -> Hole(<<>>, FALSE)
      [] v.t = "obj"    -> Object([k \in DOMAIN v.fields |-> ToHocon(v.fields[k])])
      [] v.t = "items"  -> Array(MapNodes(v.items, LAMBDA n : ToHocon(n)))
      [] OTHER          -> v

\* hocon_value_to_resolver.  What a concatenation left behind stays as it is.
RECURSIVE ToResolver(_)
ToResolver(hv) ==
    CASE hv.t = "hole" /\ hv.path # <<>> -> Subst(hv.path, hv.optional, FALSE)
      [] hv.t = "array"  -> UnresolvedArray(MapNodes(hv.arr, LAMBDA n : ToResolver(n)))
      [] hv.t = "object" -> [NewObj EXCEPT
              !.keys = SetToSeq(DOMAIN hv.map),
              !.fields = [k \in DOMAIN hv.map |-> ToResolver(hv.map[k])]]
      [] OTHER           -> hv

\* res_obj_has_priors
RECURSIVE HasPriors(_)
HasPriors(o) ==
    \/ DOMAIN o.prior # {}
    \/ \E k \in DOMAIN o.fields : IsObj(o.fields[k]) /\ HasPriors(o.fields[k])

(* --------------------------- merge_unresolved -------------------------- *)
NoBarrier(receiver, k) == FALSE         \* a variant
\* A value that is not an object has won over what the receiver had at k.
HasBarrier(receiver, k) == k \in DOMAIN receiver.prior /\ ~IsObj(receiver.prior[k])

\* save_fallback_prior
SaveFallbackPrior(o, k, displaced) ==
    IF k \in DOMAIN o.prior THEN o
    ELSE SaveOld(o, k, FoldOrSkipPrior(displaced, <<k>>, None))

\* shift_remove, then insert: the key becomes the last one.
MoveField(o, k, v) ==
    [o EXCEPT !.keys = Append(SelectSeq(@, LAMBDA j : j # k), k), !.fields[k] = v]

CarryPrior(o, receiver, k) ==
    IF k \in DOMAIN receiver.prior THEN PutPrior(o, k, receiver.prior[k]) ELSE o

RECURSIVE MergeUnresolved(_, _)

\* One field of the receiver; o is the fallback with the fields before it.
MergeReceiver(o, receiver, k) ==
    LET new  == receiver.fields[k]
        old  == Lookup(o.fields, k)
        deep == old # None /\ IsObj(old) /\ IsObj(new) /\ ~HasBarrier(receiver, k)
    IN  CarryPrior(CASE old = None            -> PutField(o, k, new)
                     [] old # None /\ deep    -> MoveField(o, k, MergeUnresolved(new, old))
                     [] old # None /\ ~deep   -> SaveFallbackPrior(PutField(o, k, new), k, old),
                   receiver, k)

MergeUnresolved(receiver, fallback) ==
    FoldLeft(LAMBDA o, k : MergeReceiver(o, receiver, k), fallback, receiver.keys)

(* -------------------------------- Config ------------------------------- *)
Complete(root) == ~HasHole(Object(root))

\* Config::new_from_res_obj
FromTree(tree) ==
    LET make(root) == Config(root, Complete(root),
                             IF Complete(root) /\ ~HasPriors(tree) THEN None ELSE tree)
    IN  make(ToHocon(tree).map)

\* Config::is_resolved
IsResolvedConfig(c) == c.resolved \/ Complete(c.root)

TreeOf(c) == IF c.tree # None THEN c.tree ELSE ToResolver(Object(c.root))

WithFallback(receiver, fallback) ==
    FromTree(MergeUnresolved(TreeOf(receiver), TreeOf(fallback)))

ResolveTree(tree, allow) == ResolveResObj(tree, NewCtx(tree, allow), EmptyMap)

\* The result of a resolution keeps the tree it came from while it is partial.
FinishedWithoutTree(root, tree, allow) ==                  \* a variant
    Config(root, Complete(root), None)
Finished(root, tree, allow) ==
    Config(root, Complete(root), IF Complete(root) \/ ~allow THEN None ELSE tree)
Settled(c) == Config(c.root, TRUE, None)

\* Config::resolve
Resolve(c, allow) ==
    IF IsResolvedConfig(c) THEN Yes(Settled(c))
    ELSE Then(ResolveTree(TreeOf(c), allow),
              LAMBDA r : Yes(Finished(r.v.map, TreeOf(c), allow)))

\* filter_hocon_object_by_receiver
ShallowFilter(map, shape) == [k \in DOMAIN map \cap DOMAIN shape |-> map[k]]   \* a variant
RECURSIVE Filter(_, _)
Filter(map, shape) ==
    [k \in DOMAIN map \cap DOMAIN shape |->
        IF map[k].t = "object" /\ shape[k].t = "object"
        THEN Object(Filter(map[k].map, shape[k].map)) ELSE map[k]]

\* Config::resolve_with
SourceTree(c, source) == MergeUnresolved(TreeOf(c), ToResolver(Object(source.root)))
ResolveWith(c, source, allow) ==
    IF ~IsResolvedConfig(source) THEN Bad("not resolved")
    ELSE IF IsResolvedConfig(c) THEN Yes(Settled(c))
    ELSE Then(ResolveTree(SourceTree(c, source), allow),
              LAMBDA r : Yes(Finished(Filter(r.v.map, c.root), SourceTree(c, source), allow)))

(* -------------------------------- calls -------------------------------- *)
\* The document that consists of the values of a configuration.
RECURSIVE Literal(_)
Literal(root) ==
    LET keys == SetToSeq(DOMAIN root)
        value(v) == CASE v.t = "object"                 -> Record(Literal(v.map))
                      [] v.t = "hole" /\ v.path # <<>> -> Ref(v.path, v.optional)
                      [] OTHER                          -> v
    IN  [i \in DOMAIN keys |-> Field(<<keys[i]>>, value(root[keys[i]]))]

\* parse_string_with_options, deferred and fused.
Deferred(d) == [doc |-> d, config |-> FromTree(Build(d, <<>>))]
Fused(d) ==
    {[doc |-> Literal(r.v.map), config |-> Config(r.v.map, TRUE, None)] :
        r \in {x \in {ResolveTree(Build(d, <<>>), FALSE)} : x.st = "some"}}
Operands == UNION {{Deferred(d)} \cup Fused(d) : d \in Documents}

Init ==
    /\ calls = 0 /\ lossy = FALSE
    /\ \E x \in Operands : doc = x.doc /\ config = x.config

Call == calls < MaxCalls /\ calls' = calls + 1

\* The configuration gets the fallback x.
AddFallback(x) ==
    /\ Call
    /\ config' = WithFallback(config, x.config)
    /\ doc' = x.doc \o doc
    /\ lossy' = (lossy \/ HasPriors(TreeOf(x.config)))

\* The configuration becomes the fallback of x.
BecomeFallback(x) ==
    /\ Call
    /\ config' = WithFallback(x.config, config)
    /\ doc' = doc \o x.doc
    /\ lossy' = (lossy \/ HasPriors(TreeOf(config)))

\* An error leaves the caller with the configuration it had.
ResolveNow(allow) ==
    /\ Call /\ UNCHANGED lossy
    /\ \E r \in {Resolve(config, allow)} :
           /\ r.st = "some"
           /\ config' = r.v
           /\ doc' = IF Complete(r.v.root) THEN Literal(r.v.root) ELSE doc

ResolveFrom(x, allow) ==
    /\ Call /\ UNCHANGED lossy
    /\ \E r \in {ResolveWith(config, x.config, allow)} :
           /\ r.st = "some"
           /\ config' = r.v
           /\ doc' = IF Complete(r.v.root) THEN Literal(r.v.root)
                     ELSE Literal(x.config.root) \o doc

\* Config::get_config, of a root key.
Descend(k) ==
    /\ Call
    /\ config.root[k].t = "object"
    /\ lossy' = (lossy \/ HasHole(config.root[k]))
    /\ config' = Config(config.root[k].map, TRUE, None)
    /\ doc' = Literal(config.root[k].map)

Next ==
    \/ \E x \in Operands : AddFallback(x) \/ BecomeFallback(x)
    \/ \E allow \in BOOLEAN : ResolveNow(allow)
    \/ \E d \in Sources, allow \in BOOLEAN : \E x \in Fused(d) : ResolveFrom(x, allow)
    \/ \E k \in DOMAIN config.root : Descend(k)

Spec == Init /\ [][Next]_vars
=============================================================================
