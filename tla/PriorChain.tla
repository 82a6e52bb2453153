----------------------------- MODULE PriorChain -----------------------------
(***************************************************************************)
(* The bookkeeping of one ResObj: the fields, the ONE prior kept per key   *)
(* and the reset marks, as assignments (structure_builder.rs) and included *)
(* objects (deep_merge_res_obj_into in utils.rs) change them.  The values  *)
(* are reduced to what the bookkeeping looks at: their atoms and how they  *)
(* refer to their own key.  The keys hold no objects here; the full value  *)
(* trees are in StructureBuilder.tla, which implements this module.        *)
(***************************************************************************)
EXTENDS Naturals

CONSTANTS Key, Atom,
    Source,     \* the objects of the files that may be included
    NoValue     \* Option::None

VARIABLES fields, priors, resets

vars == <<fields, priors, resets>>

(* ------------------------------- values -------------------------------- *)
\* self: the kinds of the references of the value to its own key.
Value    == [atoms : SUBSET Atom, self : SUBSET {"optional", "required", "absent"}]
NewValue == [atoms : SUBSET Atom, self : SUBSET {"optional", "required"}]

ASSUME NoValueAssumption == NoValue \notin Value

\* contains_self_ref: a live reference to the key.
Live(v) == "optional" \in v.self \/ "required" \in v.self

\* fold_self_ref: every reference to the key becomes the value old.
Fold(v, old) == [atoms |-> v.atoms \cup old.atoms, self |-> old.self]

\* fold_optional_self_ref_absent
FoldAbsent(v) ==
    IF "required" \in v.self THEN NoValue ELSE [atoms |-> v.atoms, self |-> {"absent"}]

\* fold_known_absent_self_ref: only the absent references become below.
FoldKnownAbsent(v, below) ==
    IF "absent" \in v.self
    THEN [atoms |-> v.atoms \cup below.atoms,
          self  |-> (v.self \ {"absent"}) \cup below.self]
    ELSE v

\* fold_or_skip_prior
SaveUnfolded(v, old) == v               \* a variant
FoldOrSkip(v, old) ==
    IF ~Live(v) THEN v
    ELSE IF old = NoValue THEN FoldAbsent(v) ELSE Fold(v, old)

(* ------------------------------- actions ------------------------------- *)
Init ==
    /\ fields = [k \in Key |-> NoValue]
    /\ priors = [k \in Key |-> NoValue]
    /\ resets = {}

\* What the value of k, which is about to be overwritten, leaves as a prior.
Saved(k) == FoldOrSkip(fields[k], priors[k])

\* The normal assignment of apply_field; k += v assigns a value that has v
\* and an optional reference to k.
AssignFolded(k, v) ==                   \* a variant: the value itself is folded
    /\ fields' = [fields EXCEPT ![k] = FoldOrSkip(v, fields[k])]
    /\ UNCHANGED <<priors, resets>>
AssignMarked(k, v) ==                   \* a variant: every assignment is a reset
    /\ fields' = [fields EXCEPT ![k] = v]
    /\ priors' = IF fields[k] = NoValue \/ Saved(k) = NoValue
                 THEN priors ELSE [priors EXCEPT ![k] = Saved(k)]
    /\ resets' = resets \cup {k}
Assign(k, v) ==
    /\ fields' = [fields EXCEPT ![k] = v]
    /\ priors' = IF fields[k] = NoValue \/ Saved(k) = NoValue
                 THEN priors ELSE [priors EXCEPT ![k] = Saved(k)]
    /\ resets' = IF Live(v) THEN resets ELSE resets \cup {k}

\* The prior of k when a field of s that does not reset k replaces its value:
\* what is saved becomes the absent bottom of the chain s brings.
Unspliced(k, s) == Saved(k)             \* a variant: the chain of s is lost
Spliced(k, s) ==
    IF Saved(k) = NoValue
    THEN IF priors[k] = NoValue THEN s.priors[k] ELSE priors[k]
    ELSE IF s.priors[k] = NoValue THEN Saved(k)
         ELSE FoldKnownAbsent(s.priors[k], Saved(k))

\* The prior of k after the merge of the object s.
MergedPrior(k, s) ==
    IF s.fields[k] = NoValue THEN priors[k]
    ELSE IF fields[k] = NoValue \/ k \in s.resets THEN s.priors[k]
    ELSE Spliced(k, s)

\* deep_merge_res_obj_into
Merge(s) ==
    /\ fields' = [k \in Key |-> IF s.fields[k] = NoValue THEN fields[k] ELSE s.fields[k]]
    /\ priors' = [k \in Key |-> MergedPrior(k, s)]
    /\ resets' = resets \cup s.resets

Next ==
    \/ \E k \in Key, v \in NewValue : Assign(k, v)
    \/ \E s \in Source : Merge(s)

Spec == Init /\ [][Next]_vars

(* ------------------------------ properties ----------------------------- *)
File == [fields : [Key -> NewValue \cup {NoValue}],
         priors : [Key -> Value \cup {NoValue}], resets : SUBSET Key]

Current == [fields |-> fields, priors |-> priors, resets |-> resets]

\* Type correctness: in particular no field value is ever known to be absent.
TypeOK == Current \in File

\* A key with a prior or a reset mark has a value.
Anchored(f) ==
    \A k \in Key : f.priors[k] # NoValue \/ k \in f.resets => f.fields[k] # NoValue

\* Every saved prior is free of live references to its key.
SelfRefFree(f) == \A k \in Key : f.priors[k] # NoValue => ~Live(f.priors[k])

\* What a key that was reset looks back to is complete: it never reaches out
\* of the file that reset it.
ResetsClosed(f) ==
    \A k \in f.resets : f.fields[k] # NoValue /\ Live(f.fields[k]) =>
                            f.priors[k] # NoValue /\ "absent" \notin f.priors[k].self

Sound(f) == Anchored(f) /\ SelfRefFree(f) /\ ResetsClosed(f)

\* The object of a file is built by the same assignments and merges.
ASSUME SourceAssumption == Source \subseteq File /\ \A s \in Source : Sound(s)

\* fold_self_ref.rs:20-23: by induction every saved prior is self-ref-free.
PriorsSelfRefFree == SelfRefFree(Current)

\* utils.rs:159: where an included file has reset a key, discarding what the
\* including file held loses nothing the value of the key looks back to.
ResetsComplete == ResetsClosed(Current)

(* ----------------------------- refinement ------------------------------ *)
Atoms(v)     == IF v = NoValue THEN {} ELSE v.atoms
IsLive(v)    == v # NoValue /\ Live(v)
Required(v)  == v # NoValue /\ "required" \in v.self

\* The value of k with its self-references looked up in the one prior.
Expand(f, k) == Atoms(f.fields[k]) \cup (IF IsLive(f.fields[k]) THEN Atoms(f.priors[k]) ELSE {})
Keys(f)      == {k \in Key : f.fields[k] # NoValue}
Hanging(f)   == {k \in Key : Required(f.fields[k]) /\ f.priors[k] = NoValue}
Open(f)      == {k \in Key : /\ IsLive(f.fields[k])
                             /\ f.priors[k] = NoValue \/ "absent" \in f.priors[k].self}

View(s) == [keys |-> Keys(s), atoms |-> [k \in Key |-> Expand(s, k)],
            open |-> Open(s), dangling |-> Hanging(s)]

History == INSTANCE ValueHistory WITH
    Brings   <- {View(s) : s \in Source},
    defined  <- Keys(Current),
    chain    <- [k \in Key |-> Expand(Current, k)],
    dangling <- Hanging(Current)

\* One prior per key is enough to keep the whole history of the key: every
\* assignment and every merge does to the history what it should.
KeepsHistory ==
    /\ History!Spec
    /\ [][/\ \A k \in Key, v \in NewValue :
                Assign(k, v) => History!Assign(k, v.atoms, v.self)
          /\ \A s \in Source : Merge(s) => History!Include(View(s))]_vars
=============================================================================
