-------------------------- MODULE ConfigProperties --------------------------
(***************************************************************************)
(* What a chain of calls on a Config owes its callers.                     *)
(***************************************************************************)
EXTENDS ConfigLifecycle

\* What a caller gets who resolves the configuration now, and what the document
\* it stands for is worth.
Outcome  == Resolve(config, FALSE)
Expected == DocMeaning(doc, Files)

\* The type invariant.  A configuration that does not count as resolved has a
\* tree to resolve, and every key that can be read from the root is in it.
TypeOK ==
    /\ \A i \in DOMAIN doc : doc[i].key # <<>>
    /\ calls \in 0 .. MaxCalls /\ lossy \in BOOLEAN
    /\ config.resolved \in BOOLEAN
    /\ config.resolved \/ config.tree # None
    /\ config.tree # None => /\ DOMAIN config.root \subseteq DOMAIN config.tree.fields
                             /\ ToSet(config.tree.keys) = DOMAIN config.tree.fields

\* A substitution at the root is the last of at most two assignments to its
\* key: priors are or_inserted, and below a second one the first is lost.
Pending(f) == Len(f.key) = 1 /\ f.value.t \in {"ref", "cat"}
Straight ==
    \A c \in {Head(f.key) : f \in ToSet(doc)} :
        LET fs == SelectSeq(doc, LAMBDA f : Head(f.key) = c)
        IN  \A i \in DOMAIN fs : Pending(fs[i]) => i = Len(fs) /\ i <= 2

\* However a configuration was put together from deferred and fused parses,
\* fallbacks and partial resolutions, resolving it gives the document that the
\* calls stand for its meaning, and fails only when the document has none.
ChainFaithful ==
    ~lossy /\ Straight /\ IsDefinite(doc, Files) /\ Expected # Bad("circular") =>
        IF Outcome.st = "some" THEN Expected = Yes(Object(Outcome.v.root))
        ELSE Expected.st = "err"

\* An object kept to the keys that the shape has.
RECURSIVE Shaped(_, _)
Shaped(v, shape) ==
    \/ v.t # "object" \/ shape.t # "object"
    \/ \A k \in DOMAIN v.map : k \in DOMAIN shape.map /\ Shaped(v.map[k], shape.map[k])

\* Values agree wherever the first one has any.
RECURSIVE Agrees(_, _)
Agrees(v, w) ==
    IF v.t # "object" \/ w.t # "object" THEN v = w
    ELSE \A k \in DOMAIN v.map : k \in DOMAIN w.map /\ Agrees(v.map[k], w.map[k])

\* A source only answers substitutions: resolve_with fails when resolving the
\* configuration with the source as its fallback would, otherwise it agrees
\* with it, and has no key the configuration does not have.
SourceOnlyAnswers ==
    ~lossy => \A d \in Sources : \A x \in Fused(d) :
        \A r \in {ResolveWith(config, x.config, FALSE)},
           f \in {Resolve(WithFallback(config, x.config), FALSE)} :
            /\ (r.st = "some") = (f.st = "some")
            /\ r.st = "some" =>
                   /\ Shaped(Object(r.v.root), Object(config.root))
                   /\ Agrees(Object(r.v.root), Object(f.v.root))
=============================================================================
