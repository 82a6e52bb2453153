----------------------------- MODULE ObjectMerge -----------------------------
(***************************************************************************)
(* deep_merge_res_obj_into (src/resolver/utils.rs): the merge of an object *)
(* into the object that is being built, used for a repeated object key     *)
(* and for the fields an include brings in.                                *)
(***************************************************************************)
EXTENDS FoldSelfRef

\* The value a collision leaves as the prior of k, when src wins and did not
\* reset k: dst's value made free of self-references, spliced under src's own
\* chain when src has one.
UnchainedPrior(dst, src, k, key) ==     \* a variant: src's own chain is lost
    FoldOrSkipPrior(dst.fields[k], key, Lookup(dst.prior, k))
ChainedPrior(dst, src, k, key) ==
    LET spliced(below) ==
            IF below = None THEN Lookup(dst.prior, k)
            ELSE IF k \in DOMAIN src.prior
            THEN FoldKnownAbsent(src.prior[k], key, below)
            ELSE below
    IN  spliced(FoldOrSkipPrior(dst.fields[k], key, Lookup(dst.prior, k)))

SetPrior(o, k, prior) ==
    [o EXCEPT !.prior = IF prior = None THEN Without(@, k) ELSE Insert(@, k, prior)]

\* The prior an object leaves when another is merged into it.
SaveObject(dst, k, key, saved) ==
    IF saved = None THEN dst ELSE PutPrior(dst, k, FoldNested(saved, key))

RECURSIVE DeepMergeInto(_, _, _)

\* One field of src (the body of the first loop).
MergeField(dst, src, k, key) ==
    LET old == Lookup(dst.fields, k)
        new == src.fields[k]
    IN  CASE old = None -> PutField(dst, k, new)
          [] old # None /\ AsResObj(old) # None /\ AsResObj(new) # None ->
                 PutField(SaveObject(dst, k, key,
                                     FoldOrSkipPrior(old, key, Lookup(dst.prior, k))),
                          k, DeepMergeInto(AsResObj(old), AsResObj(new), key))
          [] OTHER ->
                 PutField(SetPrior(dst, k, IF k \in src.reset THEN None
                                           ELSE ChainedPrior(dst, src, k, key)),
                          k, new)

DeepMergeInto(dst, src, prefix) ==
    [FoldLeft(LAMBDA o, k : MergeField(o, src, k, Append(prefix, k)), dst, src.keys) EXCEPT
        !.prior = [k \in DOMAIN @ \cup DOMAIN src.prior |->
                      IF k \in DOMAIN @ THEN @[k] ELSE src.prior[k]],
        !.reset = @ \cup src.reset]
=============================================================================
