-------------------------- MODULE PriorChain_proofs --------------------------
(***************************************************************************)
(* Proofs about PriorChain, for every set of keys, of atoms and of sound   *)
(* sources.  The inductive invariant is TypeOK together with Sound: the    *)
(* self-reference freedom of the priors alone is not inductive, because a  *)
(* merge installs the prior of the source next to a field of its own.      *)
(***************************************************************************)
EXTENDS PriorChain, TLAPS

IInv == TypeOK /\ Sound(Current)

\* A prior that is saved is a value without live references, which holds all
\* the atoms its key stood for; nothing is saved only for a value that rests
\* on a required reference with no prior below it.
LEMMA SavedPrior ==
    ASSUME NEW v \in NewValue, NEW old \in Value \cup {NoValue},
           old # NoValue => ~Live(old)
    PROVE  /\ FoldOrSkip(v, old) \in Value \cup {NoValue}
           /\ FoldOrSkip(v, old) = NoValue <=> "required" \in v.self /\ old = NoValue
           /\ FoldOrSkip(v, old) # NoValue => ~Live(FoldOrSkip(v, old))
           /\ FoldOrSkip(v, old) # NoValue =>
                  FoldOrSkip(v, old).atoms =
                      v.atoms \cup (IF Live(v) THEN Atoms(old) ELSE {})
           /\ Live(v) /\ old # NoValue => FoldOrSkip(v, old).self = old.self
           /\ ~Live(v) => FoldOrSkip(v, old).self = {}
<1>1. v \in Value /\ v # NoValue
  BY NoValueAssumption DEF Value, NewValue
<1>2. CASE ~Live(v)
  <2>1. v.self = {}
    BY <1>2 DEF Live, NewValue
  <2>2. QED
    BY <1>1, <1>2, <2>1 DEF FoldOrSkip, Live
<1>3. CASE Live(v) /\ old = NoValue /\ "required" \in v.self
  BY <1>3 DEF FoldOrSkip, FoldAbsent
<1>4. CASE Live(v) /\ old = NoValue /\ "required" \notin v.self
  <2>1. FoldOrSkip(v, old) = [atoms |-> v.atoms, self |-> {"absent"}]
    BY <1>4 DEF FoldOrSkip, FoldAbsent
  <2>2. [atoms |-> v.atoms, self |-> {"absent"}] \in Value
    BY DEF Value, NewValue
  <2>3. QED
    BY <1>4, <2>1, <2>2, NoValueAssumption DEF Live, Atoms
<1>5. CASE Live(v) /\ old # NoValue
  <2>1. FoldOrSkip(v, old) = [atoms |-> v.atoms \cup old.atoms, self |-> old.self]
    BY <1>5 DEF FoldOrSkip, Fold
  <2>2. [atoms |-> v.atoms \cup old.atoms, self |-> old.self] \in Value
    BY <1>1, <1>5 DEF Value
  <2>3. QED
    BY <1>5, <2>1, <2>2, NoValueAssumption DEF Live, Atoms
<1>6. QED
  BY <1>2, <1>3, <1>4, <1>5

-----------------------------------------------------------------------------
LEMMA InitInvariant == Init => IInv
  BY DEF Init, IInv, TypeOK, Current, File, Sound, Anchored, SelfRefFree, ResetsClosed

\* The saved prior of a key in a sound state.
LEMMA SavedInState ==
    ASSUME IInv, NEW k \in Key, fields[k] # NoValue
    PROVE  /\ fields[k] \in NewValue
           /\ Saved(k) \in Value \cup {NoValue}
           /\ Saved(k) = NoValue <=> "required" \in fields[k].self /\ priors[k] = NoValue
           /\ Saved(k) # NoValue => ~Live(Saved(k)) /\ Saved(k).atoms = Expand(Current, k)
           /\ k \in resets => Saved(k) # NoValue /\ "absent" \notin Saved(k).self
<1>1. /\ fields[k] \in NewValue
      /\ priors[k] \in Value \cup {NoValue}
      /\ priors[k] # NoValue => ~Live(priors[k])
  BY DEF IInv, TypeOK, Current, File, Sound, SelfRefFree
<1>2. /\ Saved(k) \in Value \cup {NoValue}
      /\ Saved(k) = NoValue <=> "required" \in fields[k].self /\ priors[k] = NoValue
      /\ Saved(k) # NoValue => ~Live(Saved(k))
      /\ Saved(k) # NoValue =>
             Saved(k).atoms = fields[k].atoms \cup (IF Live(fields[k]) THEN Atoms(priors[k]) ELSE {})
      /\ Live(fields[k]) /\ priors[k] # NoValue => Saved(k).self = priors[k].self
      /\ ~Live(fields[k]) => Saved(k).self = {}
  BY <1>1, SavedPrior DEF Saved
<1>3. Expand(Current, k) = fields[k].atoms \cup (IF Live(fields[k]) THEN Atoms(priors[k]) ELSE {})
  BY DEF Expand, Current, Atoms, IsLive
<1>4. ASSUME k \in resets
      PROVE  Saved(k) # NoValue /\ "absent" \notin Saved(k).self
  <2>1. Live(fields[k]) => priors[k] # NoValue /\ "absent" \notin priors[k].self
    BY <1>4 DEF IInv, Sound, ResetsClosed, Current
  <2>2. CASE Live(fields[k])
    BY <1>2, <2>1, <2>2
  <2>3. CASE ~Live(fields[k])
    BY <1>2, <2>3 DEF Live
  <2>4. QED
    BY <2>2, <2>3
<1>5. QED
  BY <1>1, <1>2, <1>3, <1>4

\* An assignment keeps the invariant.
LEMMA AssignInvariant ==
    ASSUME IInv, NEW k \in Key, NEW v \in NewValue, Assign(k, v)
    PROVE  IInv'
<1>1. v \in Value /\ v # NoValue
  BY NoValueAssumption DEF Value, NewValue
<1>2. /\ fields \in [Key -> NewValue \cup {NoValue}]
      /\ priors \in [Key -> Value \cup {NoValue}]
      /\ resets \in SUBSET Key
  BY DEF IInv, TypeOK, Current, File
<1>3. /\ fields' = [fields EXCEPT ![k] = v]
      /\ resets' = IF Live(v) THEN resets ELSE resets \cup {k}
      /\ priors' = IF fields[k] = NoValue \/ Saved(k) = NoValue
                   THEN priors ELSE [priors EXCEPT ![k] = Saved(k)]
  BY DEF Assign
<1>4. fields[k] # NoValue => Saved(k) \in Value \cup {NoValue}
  BY SavedInState
<1>5. TypeOK'
  BY <1>2, <1>3, <1>4 DEF TypeOK, Current, File
<1>6. Anchored(Current)'
  BY <1>1, <1>2, <1>3 DEF IInv, Sound, Anchored, Current
<1>7. SelfRefFree(Current)'
  <2>1. fields[k] # NoValue /\ Saved(k) # NoValue => ~Live(Saved(k))
    BY SavedInState
  <2>2. QED
    BY <1>2, <1>3, <2>1 DEF IInv, Sound, SelfRefFree, Current
<1>8. ResetsClosed(Current)'
  <2>1. SUFFICES ASSUME NEW j \in resets', fields'[j] # NoValue, Live(fields'[j])
                 PROVE  priors'[j] # NoValue /\ "absent" \notin priors'[j].self
    BY DEF ResetsClosed, Current
  <2>2. CASE j # k
    BY <1>2, <1>3, <2>1, <2>2 DEF IInv, Sound, ResetsClosed, Current
  <2>3. CASE j = k
    <3>1. Live(v) /\ k \in resets
      BY <1>2, <1>3, <2>1, <2>3
    <3>2. fields[k] # NoValue
      BY <3>1 DEF IInv, Sound, Anchored, Current
    <3>3. Saved(k) # NoValue /\ "absent" \notin Saved(k).self
      BY <3>1, <3>2, SavedInState
    <3>4. QED
      BY <1>2, <1>3, <2>3, <3>2, <3>3
  <2>4. QED
    BY <2>2, <2>3
<1>9. QED
  BY <1>5, <1>6, <1>7, <1>8 DEF IInv, Sound

\* The prior of one key after a merge: sound, and NoValue only when neither
\* the object nor the source has anything below the key.
LEMMA MergedPriorFacts ==
    ASSUME IInv, NEW s \in Source, NEW k \in Key, s.fields[k] # NoValue
    PROVE  /\ MergedPrior(k, s) \in Value \cup {NoValue}
           /\ MergedPrior(k, s) # NoValue => ~Live(MergedPrior(k, s))
           /\ k \in s.resets => MergedPrior(k, s) = s.priors[k]
           /\ k \in resets /\ k \notin s.resets =>
                  MergedPrior(k, s) # NoValue /\ "absent" \notin MergedPrior(k, s).self
           /\ fields[k] = NoValue => MergedPrior(k, s) = s.priors[k]
           /\ fields[k] # NoValue /\ k \notin s.resets =>
                  IF Saved(k) = NoValue
                  THEN priors[k] = NoValue /\ MergedPrior(k, s) = s.priors[k]
                  ELSE /\ MergedPrior(k, s) # NoValue
                       /\ Atoms(MergedPrior(k, s)) =
                            Atoms(s.priors[k]) \cup
                            (IF s.priors[k] = NoValue \/ "absent" \in s.priors[k].self
                             THEN Saved(k).atoms ELSE {})
<1>1. /\ s.priors[k] \in Value \cup {NoValue}
      /\ s.priors[k] # NoValue => ~Live(s.priors[k])
  BY SourceAssumption DEF File, Sound, SelfRefFree
<1>2. k \in resets => fields[k] # NoValue
  BY DEF IInv, Sound, Anchored, Current
<1>3. CASE fields[k] = NoValue \/ k \in s.resets
  <2>1. MergedPrior(k, s) = s.priors[k]
    BY <1>3 DEF MergedPrior
  <2>2. QED
    BY <1>1, <1>2, <1>3, <2>1
<1>4. CASE fields[k] # NoValue /\ k \notin s.resets /\ Saved(k) = NoValue
  <2>1. priors[k] = NoValue /\ k \notin resets
    BY <1>4, SavedInState
  <2>2. MergedPrior(k, s) = s.priors[k]
    BY <1>4, <2>1 DEF MergedPrior, Spliced
  <2>3. QED
    BY <1>1, <1>4, <2>1, <2>2
<1>5. CASE fields[k] # NoValue /\ k \notin s.resets /\ Saved(k) # NoValue
  <2>1. /\ Saved(k) \in Value
        /\ ~Live(Saved(k))
        /\ k \in resets => "absent" \notin Saved(k).self
    BY <1>5, SavedInState
  <2>2. MergedPrior(k, s) = IF s.priors[k] = NoValue THEN Saved(k)
                            ELSE FoldKnownAbsent(s.priors[k], Saved(k))
    BY <1>5 DEF MergedPrior, Spliced
  <2>3. CASE s.priors[k] = NoValue
    BY <1>5, <2>1, <2>2, <2>3 DEF Atoms
  <2>4. CASE s.priors[k] # NoValue /\ "absent" \in s.priors[k].self
    <3>1. MergedPrior(k, s) =
              [atoms |-> s.priors[k].atoms \cup Saved(k).atoms,
               self  |-> (s.priors[k].self \ {"absent"}) \cup Saved(k).self]
      BY <2>2, <2>4 DEF FoldKnownAbsent
    <3>2. MergedPrior(k, s) \in Value /\ MergedPrior(k, s) # NoValue
      BY <1>1, <2>1, <2>4, <3>1, NoValueAssumption DEF Value
    <3>3. QED
      BY <1>1, <1>5, <2>1, <2>4, <3>1, <3>2 DEF Live, Atoms
  <2>5. CASE s.priors[k] # NoValue /\ "absent" \notin s.priors[k].self
    <3>1. MergedPrior(k, s) = s.priors[k]
      BY <2>2, <2>5 DEF FoldKnownAbsent
    <3>2. QED
      BY <1>1, <1>5, <2>5, <3>1 DEF Atoms
  <2>6. QED
    BY <2>3, <2>4, <2>5
<1>6. QED
  BY <1>3, <1>4, <1>5

\* The merge of an included object keeps the invariant.
LEMMA MergeInvariant ==
    ASSUME IInv, NEW s \in Source, Merge(s)
    PROVE  IInv'
<1>1. s \in File /\ Anchored(s) /\ SelfRefFree(s) /\ ResetsClosed(s)
  BY SourceAssumption DEF Sound
<1>2. /\ fields \in [Key -> NewValue \cup {NoValue}]
      /\ priors \in [Key -> Value \cup {NoValue}]
      /\ resets \in SUBSET Key
      /\ s.fields \in [Key -> NewValue \cup {NoValue}]
      /\ s.resets \in SUBSET Key
  BY <1>1 DEF IInv, TypeOK, Current, File
<1>3. /\ fields' = [k \in Key |-> IF s.fields[k] = NoValue THEN fields[k] ELSE s.fields[k]]
      /\ priors' = [k \in Key |-> MergedPrior(k, s)]
      /\ resets' = resets \cup s.resets
  BY DEF Merge
<1>4. \A k \in Key : s.fields[k] = NoValue =>
                         MergedPrior(k, s) = priors[k] /\ k \notin s.resets
  BY <1>1 DEF MergedPrior, Anchored
<1>5. ASSUME NEW k \in Key
      PROVE  MergedPrior(k, s) \in Value \cup {NoValue}
  <2>1. CASE s.fields[k] = NoValue
    BY <1>2, <1>4, <2>1
  <2>2. CASE s.fields[k] # NoValue
    BY <2>2, MergedPriorFacts
  <2>3. QED
    BY <2>1, <2>2
<1>6. TypeOK'
  BY <1>2, <1>3, <1>5 DEF TypeOK, Current, File
<1>7. Anchored(Current)'
  BY <1>2, <1>3, <1>4 DEF IInv, Sound, Anchored, Current
<1>8. SelfRefFree(Current)'
  <2>1. SUFFICES ASSUME NEW k \in Key, priors'[k] # NoValue
                 PROVE  ~Live(priors'[k])
    BY DEF SelfRefFree, Current
  <2>2. CASE s.fields[k] = NoValue
    BY <1>3, <1>4, <2>1, <2>2 DEF IInv, Sound, SelfRefFree, Current
  <2>3. CASE s.fields[k] # NoValue
    BY <1>3, <2>1, <2>3, MergedPriorFacts
  <2>4. QED
    BY <2>2, <2>3
<1>9. ResetsClosed(Current)'
  <2>1. SUFFICES ASSUME NEW k \in resets', fields'[k] # NoValue, Live(fields'[k])
                 PROVE  priors'[k] # NoValue /\ "absent" \notin priors'[k].self
    BY DEF ResetsClosed, Current
  <2>2. k \in Key
    BY <1>2, <1>3, <2>1
  <2>3. CASE s.fields[k] = NoValue
    BY <1>2, <1>3, <1>4, <2>1, <2>2, <2>3 DEF IInv, Sound, ResetsClosed, Current
  <2>4. CASE s.fields[k] # NoValue /\ k \in s.resets
    <3>1. priors'[k] = s.priors[k]
      BY <1>3, <2>2, <2>4, MergedPriorFacts
    <3>2. QED
      BY <1>1, <1>3, <2>1, <2>2, <2>4, <3>1 DEF ResetsClosed
  <2>5. CASE s.fields[k] # NoValue /\ k \notin s.resets
    BY <1>3, <2>1, <2>2, <2>5, MergedPriorFacts
  <2>6. QED
    BY <2>3, <2>4, <2>5
<1>10. QED
  BY <1>6, <1>7, <1>8, <1>9 DEF IInv, Sound

\* The inductive invariant.  It also says that the object of any file is a
\* sound source of the merge, which is what SourceAssumption assumes.
THEOREM Invariant == Spec => []IInv
<1>1. IInv /\ [Next]_vars => IInv'
  <2>1. SUFFICES ASSUME IInv, [Next]_vars PROVE IInv'
    OBVIOUS
  <2>2. ASSUME NEW k \in Key, NEW v \in NewValue, Assign(k, v) PROVE IInv'
    BY <2>1, <2>2, AssignInvariant
  <2>3. ASSUME NEW s \in Source, Merge(s) PROVE IInv'
    BY <2>1, <2>3, MergeInvariant
  <2>4. CASE UNCHANGED vars
    BY <2>1, <2>4 DEF vars, IInv, TypeOK, Current, Sound, Anchored, SelfRefFree, ResetsClosed
  <2>5. QED
    BY <2>1, <2>2, <2>3, <2>4 DEF Next
<1>2. QED
  BY InitInvariant, <1>1, PTL DEF Spec

\* The state keeps its types: in particular no field, as opposed to a prior,
\* ever holds a reference that is known to be absent.
THEOREM TypeCorrect == Spec => []TypeOK
<1>1. IInv => TypeOK
  BY DEF IInv
<1>2. QED
  BY <1>1, Invariant, PTL

\* fold_self_ref.rs:20-23: every saved prior is free of references to its key,
\* for every sequence of assignments and includes.
THEOREM PriorsAreSelfRefFree == Spec => []PriorsSelfRefFree
<1>1. IInv => PriorsSelfRefFree
  BY DEF IInv, Sound, PriorsSelfRefFree
<1>2. QED
  BY <1>1, Invariant, PTL

\* utils.rs:159: a key that was reset has a complete chain of its own, so
\* that a merge may drop what the including object held.
THEOREM ResetsAreClosed == Spec => []ResetsComplete
<1>1. IInv => ResetsComplete
  BY DEF IInv, Sound, ResetsComplete
<1>2. QED
  BY <1>1, Invariant, PTL

(* ----------------------------- refinement ------------------------------ *)
LEMMA InitRefines == Init => History!Init
  BY DEF Init, History!Init, Keys, Current, Expand, Atoms, IsLive, Hanging, Required

\* An assignment extends the history of the key, although it keeps one prior:
\* the saved prior holds all the atoms the key stood for.
LEMMA AssignRefines ==
    ASSUME IInv, NEW k \in Key, NEW v \in NewValue, Assign(k, v)
    PROVE  History!Assign(k, v.atoms, v.self)
<1>1. /\ v # NoValue
      /\ Live(v) <=> v.self # {}
  BY NoValueAssumption DEF Value, NewValue, Live
<1>2. /\ fields \in [Key -> NewValue \cup {NoValue}]
      /\ priors \in [Key -> Value \cup {NoValue}]
  BY DEF IInv, TypeOK, Current, File
<1>3. /\ fields' = [fields EXCEPT ![k] = v]
      /\ priors' = IF fields[k] = NoValue \/ Saved(k) = NoValue
                   THEN priors ELSE [priors EXCEPT ![k] = Saved(k)]
  BY DEF Assign
<1>4. fields'[k] = v /\ \A j \in Key : j # k => fields'[j] = fields[j] /\ priors'[j] = priors[j]
  BY <1>2, <1>3
<1>5. /\ fields[k] = NoValue => priors[k] = NoValue /\ priors'[k] = NoValue
      /\ fields[k] # NoValue =>
             IF Required(fields[k]) /\ priors[k] = NoValue
             THEN priors'[k] = NoValue
             ELSE priors'[k] # NoValue /\ priors'[k].atoms = Expand(Current, k)
  <2>1. CASE fields[k] = NoValue
    BY <1>3, <2>1 DEF IInv, Sound, Anchored, Current
  <2>2. CASE fields[k] # NoValue
    <3>1. /\ Saved(k) = NoValue <=> Required(fields[k]) /\ priors[k] = NoValue
          /\ Saved(k) # NoValue => Saved(k).atoms = Expand(Current, k)
      BY <2>2, SavedInState DEF Required
    <3>2. QED
      BY <1>2, <1>3, <2>2, <3>1
  <2>3. QED
    BY <2>1, <2>2
<1>6. Keys(Current)' = Keys(Current) \cup {k}
  BY <1>1, <1>4 DEF Keys, Current
<1>7. \A j \in Key : j # k => Expand(Current, j)' = Expand(Current, j)
  BY <1>4 DEF Expand, Current
<1>8. Expand(Current, k)' =
          v.atoms \cup (IF v.self = {} THEN {}
                        ELSE IF k \in Hanging(Current) THEN {} ELSE Expand(Current, k))
  <2>1. Expand(Current, k)' = v.atoms \cup (IF v.self = {} THEN {} ELSE Atoms(priors'[k]))
    BY <1>1, <1>4 DEF Expand, Current, IsLive, Atoms
  <2>2. Atoms(priors'[k]) = IF k \in Hanging(Current) THEN {} ELSE Expand(Current, k)
    <3>1. CASE fields[k] = NoValue
      BY <1>5, <3>1 DEF Atoms, Hanging, Required, Expand, Current, IsLive
    <3>2. CASE fields[k] # NoValue
      BY <1>5, <3>2 DEF Atoms, Hanging, Current
    <3>3. QED
      BY <3>1, <3>2
  <2>3. QED
    BY <2>1, <2>2
<1>9. Hanging(Current)' =
          IF "required" \in v.self /\ (k \notin Keys(Current) \/ k \in Hanging(Current))
          THEN Hanging(Current) \cup {k} ELSE Hanging(Current) \ {k}
  BY <1>1, <1>4, <1>5 DEF Hanging, Keys, Current, Required
<1>10. [j \in Key |-> Expand(Current, j)]' =
          [[j \in Key |-> Expand(Current, j)] EXCEPT ![k] =
               v.atoms \cup (IF v.self = {} THEN {}
                             ELSE IF k \in Hanging(Current) THEN {} ELSE Expand(Current, k))]
  BY <1>7, <1>8
<1>11. QED
  BY <1>6, <1>9, <1>10 DEF History!Assign, History!Below, History!Dangles

\* The merge of an included object is the inclusion of its whole history.
LEMMA MergeRefines ==
    ASSUME IInv, NEW s \in Source, Merge(s)
    PROVE  History!Include(View(s))
<1>1. s \in File /\ Anchored(s) /\ SelfRefFree(s) /\ ResetsClosed(s)
  BY SourceAssumption DEF Sound
<1>2. \A k \in Key : /\ fields'[k] = IF s.fields[k] = NoValue THEN fields[k] ELSE s.fields[k]
                     /\ priors'[k] = MergedPrior(k, s)
  BY DEF Merge
<1>3. \A k \in Key : s.fields[k] = NoValue => priors'[k] = priors[k] /\ k \notin s.resets
  BY <1>1, <1>2 DEF MergedPrior, Anchored
<1>4. Keys(Current)' = Keys(Current) \cup Keys(s)
  BY <1>2 DEF Keys, Current
<1>5. ASSUME NEW k \in Key
      PROVE  Expand(Current, k)' =
                 IF k \notin Keys(s) THEN Expand(Current, k)
                 ELSE Expand(s, k) \cup
                      (IF k \notin Open(s) \/ k \in Hanging(Current) THEN {}
                       ELSE Expand(Current, k))
  <2>1. CASE s.fields[k] = NoValue
    BY <1>2, <1>3, <2>1 DEF Expand, Current, Keys
  <2>2. CASE s.fields[k] # NoValue /\ ~Live(s.fields[k])
    BY <1>2, <2>2 DEF Expand, Current, Keys, Open, IsLive
  <2>3. CASE s.fields[k] # NoValue /\ Live(s.fields[k])
    <3>1. /\ k \in Keys(s)
          /\ k \in Open(s) <=> s.priors[k] = NoValue \/ "absent" \in s.priors[k].self
          /\ Expand(s, k) = s.fields[k].atoms \cup Atoms(s.priors[k])
          /\ Expand(Current, k)' = s.fields[k].atoms \cup Atoms(MergedPrior(k, s))
      BY <1>2, <2>3 DEF Keys, Open, IsLive, Expand, Current, Atoms
    <3>2. CASE k \in s.resets
      <4>1. k \notin Open(s) /\ MergedPrior(k, s) = s.priors[k]
        BY <1>1, <2>3, <3>1, <3>2, MergedPriorFacts DEF ResetsClosed
      <4>2. QED
        BY <3>1, <4>1
    <3>3. CASE k \notin s.resets /\ fields[k] = NoValue
      <4>1. MergedPrior(k, s) = s.priors[k]
        BY <2>3, <3>3, MergedPriorFacts
      <4>2. Expand(Current, k) = {}
        BY <3>3 DEF Expand, Current, Atoms, IsLive
      <4>3. QED
        BY <3>1, <4>1, <4>2
    <3>4. CASE k \notin s.resets /\ fields[k] # NoValue /\ Saved(k) = NoValue
      <4>1. MergedPrior(k, s) = s.priors[k]
        BY <2>3, <3>4, MergedPriorFacts
      <4>2. k \in Hanging(Current)
        BY <3>4, SavedInState DEF Hanging, Required, Current
      <4>3. QED
        BY <3>1, <4>1, <4>2
    <3>5. CASE k \notin s.resets /\ fields[k] # NoValue /\ Saved(k) # NoValue
      <4>1. Atoms(MergedPrior(k, s)) =
                Atoms(s.priors[k]) \cup
                (IF s.priors[k] = NoValue \/ "absent" \in s.priors[k].self
                 THEN Saved(k).atoms ELSE {})
        BY <2>3, <3>5, MergedPriorFacts
      <4>2. k \notin Hanging(Current) /\ Saved(k).atoms = Expand(Current, k)
        BY <3>5, SavedInState DEF Hanging, Required, Current
      <4>3. QED
        BY <3>1, <4>1, <4>2
    <3>6. QED
      BY <3>2, <3>3, <3>4, <3>5
  <2>4. QED
    BY <2>1, <2>2, <2>3
<1>6. ASSUME NEW k \in Key
      PROVE  k \in Hanging(Current)' <=>
                 IF k \in Keys(s)
                 THEN k \in Hanging(s) /\ (k \notin Keys(Current) \/ k \in Hanging(Current))
                 ELSE k \in Hanging(Current)
  <2>1. CASE s.fields[k] = NoValue
    BY <1>2, <1>3, <2>1 DEF Hanging, Keys, Current
  <2>2. CASE s.fields[k] # NoValue /\ ~Required(s.fields[k])
    BY <1>2, <2>2 DEF Hanging, Keys, Current
  <2>3. CASE s.fields[k] # NoValue /\ Required(s.fields[k])
    <3>1. /\ k \in Keys(s)
          /\ k \in Hanging(s) <=> s.priors[k] = NoValue
          /\ k \in Hanging(Current)' <=> MergedPrior(k, s) = NoValue
          /\ k \in Keys(Current) <=> fields[k] # NoValue
      BY <1>2, <2>3 DEF Keys, Hanging, Current
    <3>2. CASE k \in s.resets
      <4>1. s.priors[k] # NoValue /\ MergedPrior(k, s) = s.priors[k]
        BY <1>1, <2>3, <3>2, MergedPriorFacts DEF ResetsClosed, Live, Required
      <4>2. QED
        BY <3>1, <4>1
    <3>3. CASE k \notin s.resets /\ fields[k] = NoValue
      BY <2>3, <3>1, <3>3, MergedPriorFacts
    <3>4. CASE k \notin s.resets /\ fields[k] # NoValue
      <4>1. Saved(k) = NoValue <=> k \in Hanging(Current)
        BY <3>4, SavedInState DEF Hanging, Required, Current
      <4>2. QED
        BY <2>3, <3>1, <3>4, <4>1, MergedPriorFacts
    <3>5. QED
      BY <3>2, <3>3, <3>4
  <2>4. QED
    BY <2>1, <2>2, <2>3
<1>7. /\ View(s).keys = Keys(s)
      /\ View(s).atoms = [k \in Key |-> Expand(s, k)]
      /\ View(s).open = Open(s)
      /\ View(s).dangling = Hanging(s)
  BY DEF View
<1>8. [k \in Key |-> Expand(Current, k)]' =
          [k \in Key |-> IF k \notin View(s).keys THEN [j \in Key |-> Expand(Current, j)][k]
                         ELSE View(s).atoms[k] \cup
                              (IF k \in View(s).open
                               THEN IF k \in Hanging(Current) THEN {}
                                    ELSE [j \in Key |-> Expand(Current, j)][k]
                               ELSE {})]
  BY <1>5, <1>7
<1>9. Hanging(Current)' =
          {k \in Key : IF k \in View(s).keys
                       THEN /\ k \in View(s).dangling
                            /\ k \notin Keys(Current) \/ k \in Hanging(Current)
                       ELSE k \in Hanging(Current)}
  <2>1. Hanging(Current)' \subseteq Key
    BY DEF Hanging
  <2>2. QED
    BY <1>6, <1>7, <2>1
<1>10. QED
  BY <1>4, <1>7, <1>8, <1>9 DEF History!Include, History!Below, History!Dangles

\* One prior per key, made free of self-references and spliced under the chain
\* of an included file, keeps what the whole history of the key promises.
THEOREM PriorChainImplementsHistory == Spec => KeepsHistory
<1>1. IInv /\ [Next]_vars => [History!Next]_History!hvars
  <2>1. SUFFICES ASSUME IInv, [Next]_vars PROVE [History!Next]_History!hvars
    OBVIOUS
  <2>2. ASSUME NEW k \in Key, NEW v \in NewValue, Assign(k, v) PROVE History!Next
    <3>1. v.atoms \in SUBSET Atom /\ v.self \in SUBSET {"optional", "required"}
      BY DEF NewValue
    <3>2. QED
      BY <2>1, <2>2, <3>1, AssignRefines DEF History!Next
  <2>3. ASSUME NEW s \in Source, Merge(s) PROVE History!Next
    BY <2>1, <2>3, MergeRefines DEF History!Next
  <2>4. CASE UNCHANGED vars
    BY <2>4 DEF vars, History!hvars, Keys, Expand, Hanging, Current
  <2>5. QED
    BY <2>1, <2>2, <2>3, <2>4 DEF Next
<1>2. IInv /\ [Next]_vars =>
          [/\ \A k \in Key, v \in NewValue :
                 Assign(k, v) => History!Assign(k, v.atoms, v.self)
           /\ \A s \in Source : Merge(s) => History!Include(View(s))]_vars
  BY AssignRefines, MergeRefines
<1>3. QED
  BY InitRefines, Invariant, <1>1, <1>2, PTL DEF Spec, KeepsHistory, History!Spec
=============================================================================
