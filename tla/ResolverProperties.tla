------------------------- MODULE ResolverProperties -------------------------
(***************************************************************************)
(* What the resolver owes its callers, stated over the state machine of    *)
(* Resolver.tla.  Most of it compares the machine with HoconSemantics.tla, *)
(* which knows nothing of saved priors or of the cache.                    *)
(***************************************************************************)
EXTENDS Resolver, HoconSemantics

Phases == {"build", "resolve", "done", "failed"}
Errors == {"none", "unresolved", "circular", "no prior", "type", "overflow"}

\* The type invariant: the tree of a prefix of a document, a resolution that
\* has visited a prefix of its keys, and a result that holds visited keys only.
TypeOK ==
    /\ \E F \in Families : doc \in Seq(F.fields) /\ Len(doc) <= F.max
    /\ tree.t = "obj" /\ ToSet(tree.keys) = DOMAIN tree.fields
    /\ Len(tree.keys) = Cardinality(DOMAIN tree.fields)
    /\ DOMAIN tree.prior \subseteq DOMAIN tree.fields
    /\ phase \in Phases /\ error \in Errors
    /\ (error = "none") = (phase # "failed")
    /\ visited \in 0 .. Len(tree.keys)
    /\ DOMAIN result \subseteq {tree.keys[i] : i \in 1 .. visited}

Expected == DocMeaning(doc, Files)

Definite == IsDefinite(doc, Files)
Cyclic   == Expected = Bad("circular")

\* A field keeps one prior.  A substitution that is a layer of an object is
\* lost from it when the key is assigned twice more, and hides what is below
\* it when it is not the last layer; only a look-back folds the prior first.
Pending(f)   == Len(f.key) = 1 /\ f.value.t \in {"ref", "cat"}
LooksBack(f) == Pending(f) /\ ContainsSubstByPath(ToResolverValue(f.value, f.key), f.key)
HasObject(fs) == \E i \in DOMAIN fs : Len(fs[i].key) > 1 \/ fs[i].value.t = "record"
NoBuriedLayer ==
    \A c \in DOMAIN tree.fields :
        LET fs == SelectSeq(doc, LAMBDA f : f.key # <<>> /\ Head(f.key) = c)
        IN  HasObject(fs) => \A i \in 1 .. Len(fs) - 1 :
                Pending(fs[i]) => /\ i = 1 \/ LooksBack(fs[i])
                                  /\ i + 1 = Len(fs) \/ LooksBack(fs[i + 1])

\* A resolution that ends gives the document its meaning, and fails only when
\* the document has none.  With allow_unresolved, what would have failed for a
\* substitution without a target leaves a hole instead, and nothing else
\* changes.  Documents the reference calls circular (the code breaks some cycles
\* by looking back), documents with an undefined layer and objects with a buried
\* layer are left out.
Faithful ==
    Definite /\ ~Cyclic /\ NoBuriedLayer =>
        /\ phase = "done" =>
               IF HasHole(Object(result)) THEN allow /\ Expected = Bad("unresolved")
               ELSE Expected = Yes(Object(result))
        /\ phase = "failed" => Expected.st = "err" /\ ~(allow /\ error = "unresolved")

\* An object and the objects below it, each with its path.
RECURSIVE ObjectsBelow(_, _)
ObjectsBelow(o, path) ==
    {<<o, path>>} \cup UNION {ObjectsBelow(o.fields[k], Append(path, k)) :
                                 k \in {c \in DOMAIN o.fields : IsObj(o.fields[c])}}

\* No prior saved for a field holds a live substitution of that field's own
\* path, at any depth of the tree: the invariant fold_self_ref.rs:20-23 and
\* utils.rs:128 rely on to end the descent into a prior.
PriorsSelfRefFree ==
    \A x \in ObjectsBelow(tree, <<>>) : \A k \in DOMAIN x[1].prior :
        ~ContainsSubstByPath(x[1].prior[k], Append(x[2], k))

\* The recursion of the resolver ends on every document.
Terminates == error # "overflow"

\* The cache never answers a path with two values: what one field has seen of
\* another is what the other is in the end.
CacheStable ==
    [][~Cyclic => \A k \in DOMAIN cache \cap DOMAIN cache' : cache'[k] = cache[k]]_vars

\* The order of resolution does not matter: a root field resolved first, with
\* an empty cache, has the value it has in the result.  An undefined layer is
\* transparent in the field itself and hides what is below it from a reader
\* that comes first, so documents with one are left out.
Alone(k) == ResolveField(tree, k, NewCtx(tree, allow), EmptyMap)
OrderIndependent ==
    phase = "done" /\ Definite /\ ~Cyclic =>
        \A k \in DOMAIN tree.fields :
            IF k \in DOMAIN result THEN Alone(k).st = "some" /\ Alone(k).v = result[k]
            ELSE Alone(k).st = "none"
=============================================================================
