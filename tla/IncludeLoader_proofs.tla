------------------------ MODULE IncludeLoader_proofs ------------------------
(***************************************************************************)
(* Proofs about IncludeLoader, for every set of files and packages, every  *)
(* content of them and every way somebody else changes them meanwhile: no  *)
(* source is on the stack twice under one name, the recursion of the       *)
(* loader is bounded by the number of names, and a load that nobody        *)
(* disturbs gives what LoaderProperties expects of it.                     *)
(*                                                                         *)
(* For the last, the expansion of the reference, which watches for circles *)
(* by name, is compared with one that nobody watches and that only a depth *)
(* limits.  What that one says at last is what the frames of the stack     *)
(* stand for, and the two agree where the property speaks.                 *)
(***************************************************************************)
EXTENDS LoaderProperties, FiniteSetTheorems, WellFoundedInduction, TLAPS

Injective(s) == \A i, j \in 1 .. Len(s) : s[i] = s[j] => i = j

\* A frame at the height n: its chain has no name twice and grows with the
\* stack, one document and at most one probe for every name.
Sound(f, n) ==
    /\ {"t", "chain"} \subseteq DOMAIN f
    /\ f.t \in {"doc", "probe"}
    /\ f.chain \in Seq(Key)
    /\ Injective(f.chain)
    /\ n <= 2 * Len(f.chain) + (IF f.t = "doc" THEN 1 ELSE 2)

IInv ==
    /\ \E S : stack \in Seq(S)
    /\ stack # <<>>
    /\ stack[1].t = "doc"
    /\ \A n \in 1 .. Len(stack) : Sound(stack[n], n)

\* A chain grows by a name that is not on it.
LEMMA Grows ==
    ASSUME NEW s \in Seq(Key), Injective(s), NEW k \in Key, ~IsOn(s, k)
    PROVE  Append(s, k) \in Seq(Key) /\ Injective(Append(s, k)) /\ Len(Append(s, k)) = Len(s) + 1
  BY DEF Injective, IsOn

\* Changing the top frame, pushing a frame and returning to the caller.
LEMMA ChangeKeeps ==
    ASSUME IInv, NEW f, Sound(f, Len(stack)), f.t = Top.t, Change(f)
    PROVE  IInv'
<1>1. PICK S : stack \in Seq(S)
  BY DEF IInv
<1>2. stack' \in Seq(S \cup {f}) /\ Len(stack') = Len(stack) /\ stack'[Len(stack)] = f
  BY <1>1 DEF IInv, Change
<1>3. \A n \in 1 .. Len(stack) - 1 : stack'[n] = stack[n]
  BY <1>1 DEF Change
<1>4. QED
  BY <1>1, <1>2, <1>3 DEF IInv, Top

LEMMA PushKeeps ==
    ASSUME IInv, NEW f, Sound(f, Len(stack) + 1), Push(f)
    PROVE  IInv'
<1>1. PICK S : stack \in Seq(S)
  BY DEF IInv
<1>2. /\ stack' \in Seq(S \cup {f})
      /\ Len(stack') = Len(stack) + 1
      /\ stack'[Len(stack) + 1] = f
      /\ \A n \in 1 .. Len(stack) : stack'[n] = stack[n]
  BY <1>1 DEF IInv, Push
<1>3. QED
  BY <1>1, <1>2 DEF IInv

LEMMA ReturnKeeps ==
    ASSUME IInv, Len(stack) > 1, NEW got, stack' = Return(Below(stack), got)
    PROVE  IInv'
<1>1. PICK S : stack \in Seq(S)
  BY DEF IInv
<1> DEFINE below  == Below(stack)
           m      == Len(stack) - 1
           caller == below[m]
<1>2. below \in Seq(S) /\ Len(below) = m /\ m \in Nat /\ m >= 1
      /\ \A n \in 1 .. m : below[n] = stack[n]
  BY <1>1 DEF Below
<1>3. Sound(caller, m)
  BY <1>1, <1>2 DEF IInv
<1>4. PICK f : /\ stack' = [below EXCEPT ![m] = f]
               /\ f.t = caller.t /\ f.chain = caller.chain
               /\ {"t", "chain"} \subseteq DOMAIN f
  BY <1>2, <1>3 DEF Return, Sound
<1>5. Sound(f, m)
  BY <1>3, <1>4 DEF Sound
<1>6. /\ stack' \in Seq(S \cup {f}) /\ Len(stack') = m
      /\ stack'[m] = f /\ \A n \in 1 .. m - 1 : stack'[n] = stack[n]
  BY <1>2, <1>4
<1>7. stack'[1].t = "doc"
  BY <1>2, <1>4, <1>6 DEF IInv
<1>8. \A n \in 1 .. m : Sound(stack'[n], n)
  BY <1>2, <1>5, <1>6 DEF IInv
<1>9. stack' # <<>> /\ \E R : stack' \in Seq(R)
  BY <1>2, <1>6
<1> HIDE DEF below, m, caller
<1>10. QED
  BY <1>6, <1>7, <1>8, <1>9 DEF IInv

\* What the top frame of a sound stack is.
LEMMA TopSound ==
    ASSUME IInv
    PROVE  Sound(Top, Len(stack)) /\ Len(stack) \in Nat \ {0}
           /\ (Top.t = "probe" => Len(stack) > 1)
<1>1. PICK S : stack \in Seq(S)
  BY DEF IInv
<1>2. Len(stack) \in Nat /\ Len(stack) # 0
  BY <1>1 DEF IInv
<1>3. QED
  BY <1>2 DEF IInv, Top
-----------------------------------------------------------------------------
LEMMA InitInvariant == Init => IInv
<1> SUFFICES ASSUME Init PROVE IInv
  OBVIOUS
<1>1. PICK d \in Documents : stack = <<DocFrame("top", d.dir, <<>>, d.items)>>
  BY DEF Init
<1>2. Sound(DocFrame("top", d.dir, <<>>, d.items), 1)
  BY DEF Sound, DocFrame, Injective
<1>3. \E S : stack \in Seq(S)
  <2>1. stack \in Seq({DocFrame("top", d.dir, <<>>, d.items)})
    BY <1>1
  <2>2. QED
    BY <2>1
<1>4. Len(stack) = 1 /\ stack[1] = DocFrame("top", d.dir, <<>>, d.items)
  BY <1>1
<1>5. stack[1].t = "doc" /\ stack # <<>>
  BY <1>1, <1>4 DEF DocFrame
<1>6. \A n \in 1 .. Len(stack) : Sound(stack[n], n)
  BY <1>2, <1>4
<1>7. QED
  BY <1>3, <1>5, <1>6 DEF IInv

LEMMA StepInvariant == IInv /\ [Next]_vars => IInv'
<1> SUFFICES ASSUME IInv, [Next]_vars PROVE IInv'
  OBVIOUS
<1>1. CASE UNCHANGED stack
  BY <1>1 DEF IInv
<1>2. CASE BuildOwn
  BY <1>2, ChangeKeeps, TopSound DEF BuildOwn, Sound
<1>3. CASE BeginInclude
  <2>1. PICK paths, required : Push(Probe(paths, required, Top.chain))
    BY <1>3 DEF BeginInclude
  <2>2. Sound(Probe(paths, required, Top.chain), Len(stack) + 1)
    BY <1>3, TopSound DEF BeginInclude, Building, Probe, Sound
  <2>3. QED
    BY <2>1, <2>2, PushKeeps
<1>4. CASE BeginPackage
  <2>1. CASE UNCHANGED stack
    BY <2>1, <1>1
  <2>2. PICK key : /\ PackageRefusal(key, Top.chain) = "none"
                   /\ Push(DocFrame(key.package, Cwd, Append(Top.chain, key), Registry[key].items))
                   \/ UNCHANGED stack
    BY <1>4 DEF BeginPackage, Fail
  <2>3. CASE ~UNCHANGED stack
    <3>1. ~IsOn(Top.chain, key) /\ key \in Key
      BY <2>2, <2>3 DEF PackageRefusal, Key
    <3>2. Sound(DocFrame(key.package, Cwd, Append(Top.chain, key), Registry[key].items), Len(stack) + 1)
      BY <1>4, <3>1, Grows, TopSound DEF BeginPackage, Building, DocFrame, Sound
    <3>3. QED
      BY <2>2, <2>3, <3>2, PushKeeps
  <2>4. QED
    BY <2>1, <2>3
<1>5. CASE Reject
  BY <1>5, ChangeKeeps, TopSound DEF Reject, Sound
<1>6. CASE LoadProperties
  BY <1>6, ChangeKeeps, TopSound DEF LoadProperties, Sound
<1>7. CASE Descend
  <2>1. PICK p : /\ Refusal(p, Top.chain) = "none"
                 /\ Push(DocFrame(Locate[p], p.dir, Append(Top.chain, p), Content(p).items))
    BY <1>7 DEF Descend
  <2>2. ~IsOn(Top.chain, p) /\ p \in Key
    BY <2>1 DEF Refusal, IsThere, Content, Key
  <2>3. Sound(DocFrame(Locate[p], p.dir, Append(Top.chain, p), Content(p).items), Len(stack) + 1)
    BY <1>7, <2>2, Grows, TopSound DEF Descend, Probing, DocFrame, Sound
  <2>4. QED
    BY <2>1, <2>3, PushKeeps
<1>8. CASE Judge
  BY <1>1, <1>8, ChangeKeeps, TopSound DEF Judge, Fail, Sound
<1>9. CASE EndProbe
  BY <1>1, <1>9, ReturnKeeps, TopSound DEF EndProbe, Probing, Fail
<1>10. CASE EndDoc
  <2>1. CASE Len(stack) = 1
    BY <1>1, <1>10, <2>1 DEF EndDoc
  <2>2. CASE Len(stack) # 1
    <3>1. Len(stack) > 1
      BY <2>2, TopSound
    <3>2. stack' = Return(Below(stack), Top.got)
      BY <1>10, <2>2 DEF EndDoc
    <3>3. QED
      BY <3>1, <3>2, ReturnKeeps
  <2>3. QED
    BY <2>1, <2>2
<1>11. CASE \E f \in Shared : Touch(f)
  BY <1>1, <1>11 DEF Touch
<1>12. QED
  BY <1>1, <1>2, <1>3, <1>4, <1>5, <1>6, <1>7, <1>8, <1>9, <1>10, <1>11
     DEF Next, Load, vars

\* The stack is sound whatever the files hold and become.
THEOREM StackSound == Spec => []IInv
  BY InitInvariant, StepInvariant, PTL DEF Spec

\* No source is loaded inside itself under the name it was opened by
\* (load_single_include, load_package_include).
THEOREM NeverRepeats == Spec => []NoRepeat
<1>1. IInv => NoRepeat
  BY DEF IInv, Sound, Injective, NoRepeat
<1>2. QED
  BY <1>1, StackSound, PTL

\* The recursion through load_include and StructureBuilder::build is bounded by
\* the number of paths that can be opened and of packages.
THEOREM RecursionBounded == Spec => []DepthBounded
<1>1. IsFiniteSet(Key) /\ Cardinality(Key) \in Nat
  BY FilesAssumption, FS_Union, FS_CardinalityType DEF Key
<1>2. ASSUME IInv PROVE DepthBounded
  <2>1. Sound(Top, Len(stack)) /\ Len(stack) \in Nat
    BY <1>2, TopSound
  <2>2. Top.chain \in Seq(Key) /\ Len(Top.chain) \in Nat
    BY <2>1 DEF Sound
  <2>3. Top.chain \in Injection(1 .. Len(Top.chain), Key)
    BY <2>1, <2>2 DEF Sound, Injective, Injection, IsInjective
  <2>4. Cardinality(1 .. Len(Top.chain)) <= Cardinality(Key)
    BY <1>1, <2>3, FS_Injection
  <2>5. Cardinality(1 .. Len(Top.chain)) = Len(Top.chain)
    BY <2>2, FS_Interval
  <2>6. QED
    BY <1>1, <2>1, <2>2, <2>4, <2>5 DEF Sound, DepthBounded
<1>3. QED
  BY <1>2, StackSound, PTL
-----------------------------------------------------------------------------
(***************************************************************************)
(* Type correctness.  A frame says which kind it is and carries what its   *)
(* kind needs; the link between a frame and the one below it is kept by    *)
(* the same three changes of the stack.                                    *)
(***************************************************************************)
Typed(f) ==
    /\ {"t", "chain", "got"} \subseteq DOMAIN f
    /\ f.t \in {"doc", "probe"}
    /\ f.got \in Seq(Names) /\ f.chain \in Seq(Key)
    /\ f.t = "doc" => "name" \in DOMAIN f /\ f.name \in Names
    /\ f.t = "probe" => "failed" \in DOMAIN f /\ f.failed \in Errors \cup {"none"}

\* Frame f may stand on frame g.
On(f, g) ==
    /\ f.t = "probe" => g.t = "doc" /\ f.chain = g.chain
    /\ f.t = "doc" => Below(f.chain) = g.chain

StackTyped ==
    /\ \E S : stack \in Seq(S)
    /\ stack # <<>> /\ stack[1].t = "doc"
    /\ \A n \in 1 .. Len(stack) : Typed(stack[n])
    /\ \A n \in 2 .. Len(stack) : On(stack[n], stack[n - 1])
DiskTyped ==
    /\ DOMAIN disk = File /\ \A f \in File : disk[f] \in Contents[f]
    /\ touches \in Nat /\ quiet \in BOOLEAN
OutcomeTyped ==
    \/ outcome = [t |-> "loading"]
    \/ outcome.t = "error" /\ outcome.error \in Errors
    \/ outcome.t = "ok" /\ outcome.got \in Seq(Names)

LEMMA TopTyped ==
    ASSUME StackTyped
    PROVE  /\ Typed(Top) /\ Len(stack) \in Nat \ {0}
           /\ Top.t = "probe" => Len(stack) > 1
           /\ Len(stack) > 1 => On(Top, stack[Len(stack) - 1])
<1>1. PICK S : stack \in Seq(S)
  BY DEF StackTyped
<1>2. Len(stack) \in Nat /\ Len(stack) # 0
  BY <1>1 DEF StackTyped
<1>3. QED
  BY <1>2 DEF StackTyped, Top

LEMMA ChangeTyped ==
    ASSUME StackTyped, NEW f, Typed(f), f.t = Top.t, f.chain = Top.chain, Change(f)
    PROVE  StackTyped'
<1>1. PICK S : stack \in Seq(S)
  BY DEF StackTyped
<1>2. Len(stack) \in Nat \ {0}
  BY TopTyped
<1>3. stack' \in Seq(S \cup {f}) /\ Len(stack') = Len(stack) /\ stack'[Len(stack)] = f
  BY <1>1, <1>2 DEF Change
<1>4. \A n \in 1 .. Len(stack) - 1 : stack'[n] = stack[n]
  BY <1>1 DEF Change
<1>5. stack' # <<>> /\ stack'[1].t = "doc"
  BY <1>2, <1>3, <1>4 DEF StackTyped, Top
<1>6. \A n \in 1 .. Len(stack) : Typed(stack'[n])
  BY <1>2, <1>3, <1>4 DEF StackTyped
<1>7. ASSUME NEW n \in 2 .. Len(stack) PROVE On(stack'[n], stack'[n - 1])
  BY <1>2, <1>3, <1>4 DEF StackTyped, Top, On
<1>8. QED
  BY <1>3, <1>5, <1>6, <1>7 DEF StackTyped, Typed, On

LEMMA PushTyped ==
    ASSUME StackTyped, NEW f, Typed(f), On(f, Top), Push(f)
    PROVE  StackTyped'
<1>1. PICK S : stack \in Seq(S)
  BY DEF StackTyped
<1>2. /\ stack' \in Seq(S \cup {f})
      /\ Len(stack') = Len(stack) + 1
      /\ stack'[Len(stack) + 1] = f
      /\ \A n \in 1 .. Len(stack) : stack'[n] = stack[n]
  BY <1>1 DEF Push
<1>3. Len(stack) \in Nat \ {0}
  BY TopTyped
<1>4. stack' # <<>> /\ stack'[1].t = "doc"
  BY <1>2, <1>3 DEF StackTyped
<1>5. ASSUME NEW n \in 2 .. Len(stack) + 1 PROVE On(stack'[n], stack'[n - 1])
  BY <1>2, <1>3 DEF StackTyped, Top
<1>6. ASSUME NEW n \in 1 .. Len(stack) + 1 PROVE Typed(stack'[n])
  <2>1. CASE n = Len(stack) + 1
    BY <1>2, <2>1
  <2>2. CASE n \in 1 .. Len(stack)
    BY <1>2, <2>2, Zenon DEF StackTyped
  <2>3. QED
    BY <1>3, <2>1, <2>2
<1>7. QED
  BY <1>2, <1>4, <1>5, <1>6 DEF StackTyped, Typed, On

\* A call returns what it has got to the frame below.
LEMMA ReturnTyped ==
    ASSUME StackTyped, Len(stack) > 1, stack' = Return(Below(stack), Top.got)
    PROVE  StackTyped'
<1>1. PICK S : stack \in Seq(S)
  BY DEF StackTyped
<1> DEFINE below  == Below(stack)
           m      == Len(stack) - 1
           caller == below[m]
<1>2. below \in Seq(S) /\ Len(below) = m /\ m \in Nat /\ m >= 1
      /\ \A n \in 1 .. m : below[n] = stack[n]
  BY <1>1 DEF Below
<1>3. Typed(caller) /\ Top.got \in Seq(Names)
  <2>1. caller = stack[m] /\ m \in 1 .. Len(stack)
    BY <1>2
  <2>2. Typed(stack[m])
    BY <2>1, Zenon DEF StackTyped
  <2>3. QED
    BY <2>1, <2>2, TopTyped DEF Typed
<1>4. PICK f : /\ stack' = [below EXCEPT ![m] = f]
               /\ f.t = caller.t /\ f.chain = caller.chain
               /\ {"t", "chain", "got"} \subseteq DOMAIN f
               /\ f.got = caller.got \o Top.got
               /\ caller.t = "doc" => "name" \in DOMAIN f /\ f.name = caller.name
               /\ caller.t = "probe" => "failed" \in DOMAIN f /\ f.failed = caller.failed
  <2>1. /\ {"t", "chain", "got"} \subseteq DOMAIN caller
        /\ caller.t = "doc" => "name" \in DOMAIN caller
        /\ caller.t = "probe" => "failed" \in DOMAIN caller
    BY <1>3 DEF Typed
  <2>2. CASE caller.t = "doc"
    <3> DEFINE f == [caller EXCEPT !.todo = Tail(@), !.got = @ \o Top.got]
    <3>1. stack' = [below EXCEPT ![m] = f]
      BY <1>2, <2>2 DEF Return
    <3>2. /\ f.t = caller.t /\ f.chain = caller.chain /\ DOMAIN f = DOMAIN caller
          /\ f.got = caller.got \o Top.got /\ f.name = caller.name
      BY <2>1, <2>2
    <3> HIDE DEF f
    <3>3. QED
      BY <2>1, <2>2, <3>1, <3>2
  <2>3. CASE caller.t # "doc"
    <3> DEFINE f == [caller EXCEPT !.todo = Tail(@), !.got = @ \o Top.got, !.found = TRUE]
    <3>1. stack' = [below EXCEPT ![m] = f]
      BY <1>2, <2>3 DEF Return
    <3>2. /\ f.t = caller.t /\ f.chain = caller.chain /\ DOMAIN f = DOMAIN caller
          /\ f.got = caller.got \o Top.got
          /\ caller.t = "probe" => f.failed = caller.failed
      BY <2>1, <2>3
    <3> HIDE DEF f
    <3>3. QED
      BY <2>1, <2>3, <3>1, <3>2
  <2>4. QED
    BY <2>2, <2>3
<1>5. Typed(f)
  <2>1. f.got \in Seq(Names)
    BY <1>3, <1>4 DEF Typed
  <2>2. QED
    BY <1>3, <1>4, <2>1 DEF Typed
<1>6. /\ stack' \in Seq(S \cup {f}) /\ Len(stack') = m
      /\ stack'[m] = f /\ \A n \in 1 .. m - 1 : stack'[n] = stack[n]
  BY <1>2, <1>4
<1>7. stack[m] = caller
  BY <1>2
<1> HIDE DEF below, caller
<1>8. stack'[1].t = "doc" /\ stack' # <<>>
  BY <1>2, <1>4, <1>6, <1>7 DEF StackTyped
<1>9. \A n \in 1 .. m : Typed(stack'[n])
  BY <1>1, <1>2, <1>5, <1>6 DEF StackTyped
<1>10. ASSUME NEW n \in 2 .. m PROVE On(stack'[n], stack'[n - 1])
  BY <1>1, <1>2, <1>4, <1>6, <1>7 DEF StackTyped, On
<1>11. QED
  BY <1>6, <1>8, <1>9, <1>10 DEF StackTyped, Typed, On

LEMMA InitTyped == Init => StackTyped /\ DiskTyped /\ OutcomeTyped
<1> SUFFICES ASSUME Init PROVE StackTyped /\ DiskTyped /\ OutcomeTyped
  OBVIOUS
<1>1. PICK d \in Documents : /\ stack = <<DocFrame("top", d.dir, <<>>, d.items)>>
                             /\ touches = d.touches
  BY DEF Init
<1> DEFINE f == DocFrame("top", d.dir, <<>>, d.items)
<1>2. Typed(f) /\ f.t = "doc"
  BY DEF Typed, DocFrame, Names
<1> HIDE DEF f
<1>3. stack \in Seq({f}) /\ Len(stack) = 1 /\ stack[1] = f
  BY <1>1 DEF f
<1>4. StackTyped
  BY <1>2, <1>3 DEF StackTyped
<1>5. disk \in Disks /\ touches \in Nat /\ quiet = TRUE
  BY <1>1, FilesAssumption DEF Init
<1>6. DOMAIN disk = File /\ \A g \in File : disk[g] \in Contents[g]
  BY <1>5, FilesAssumption
<1>7. QED
  BY <1>4, <1>5, <1>6 DEF Init, DiskTyped, OutcomeTyped

LEMMA StepTyped ==
    ASSUME StackTyped, DiskTyped, OutcomeTyped, [Next]_vars
    PROVE  StackTyped' /\ DiskTyped' /\ OutcomeTyped'
<1>1. CASE UNCHANGED vars
  BY <1>1 DEF vars, StackTyped, DiskTyped, OutcomeTyped, Typed, On
<1>2. CASE \E f \in Shared : Touch(f)
  <2>1. PICK f \in Shared : Touch(f)
    BY <1>2
  <2>2. PICK c \in Contents[f] : disk' = [disk EXCEPT ![f] = c]
    BY <2>1 DEF Touch
  <2>3. DiskTyped'
    <3>1. touches' \in Nat
      <4>1. touches \in Nat /\ touches > 0 /\ touches' = touches - 1
        BY <2>1 DEF Touch, DiskTyped
      <4>2. QED
        BY <4>1
    <3>2. DOMAIN disk' = File /\ \A g \in File : disk'[g] \in Contents[g]
      BY <2>2 DEF DiskTyped
    <3>3. quiet' \in BOOLEAN
      BY <2>1, Zenon DEF Touch
    <3>4. QED
      BY <3>1, <3>2, <3>3, Zenon DEF DiskTyped
  <2>4. QED
    BY <2>1, <2>3 DEF Touch, StackTyped, OutcomeTyped, Typed, On
<1>3. ASSUME UNCHANGED files PROVE DiskTyped'
  BY <1>3 DEF files, DiskTyped
<1>4. ASSUME UNCHANGED outcome PROVE OutcomeTyped'
  BY <1>4 DEF OutcomeTyped
<1>5. ASSUME UNCHANGED stack PROVE StackTyped'
  BY <1>5 DEF StackTyped, Typed, On
<1>6. ASSUME NEW error \in Errors, Fail(error) PROVE StackTyped' /\ OutcomeTyped'
  BY <1>5, <1>6 DEF Fail, OutcomeTyped
<1>7. CASE BuildOwn
  <2> DEFINE f == [Top EXCEPT !.todo = Tail(@), !.got = Append(@, Top.name)]
  <2>1. Typed(f) /\ f.t = Top.t /\ f.chain = Top.chain
    BY <1>7, TopTyped DEF BuildOwn, Building, Typed
  <2>2. QED
    BY <1>3, <1>4, <1>7, <2>1, ChangeTyped DEF BuildOwn
<1>8. CASE BeginInclude
  <2>1. PICK paths, required : Push(Probe(paths, required, Top.chain))
    BY <1>8 DEF BeginInclude
  <2>2. /\ Typed(Probe(paths, required, Top.chain))
        /\ On(Probe(paths, required, Top.chain), Top)
    BY <1>8, TopTyped DEF BeginInclude, Building, Probe, Typed, On
  <2>3. QED
    BY <1>3, <1>4, <1>8, <2>1, <2>2, PushTyped DEF BeginInclude
<1>9. CASE BeginPackage
  <2>1. PICK key : IF PackageRefusal(key, Top.chain) # "none"
                   THEN Fail(PackageRefusal(key, Top.chain))
                   ELSE /\ Push(DocFrame(key.package, Cwd, Append(Top.chain, key), Registry[key].items))
                        /\ UNCHANGED outcome
    BY <1>9 DEF BeginPackage
  <2>2. PackageRefusal(key, Top.chain) \in Errors \cup {"none"}
    BY DEF PackageRefusal, Errors
  <2>3. CASE PackageRefusal(key, Top.chain) = "none"
    <3> DEFINE f == DocFrame(key.package, Cwd, Append(Top.chain, key), Registry[key].items)
    <3>1. key \in DOMAIN Registry
      BY <2>3 DEF PackageRefusal
    <3>2. Top.chain \in Seq(Key) /\ key \in Key /\ key.package \in Names
      BY <3>1, TopTyped DEF Typed, Key, Names
    <3>3. Append(Top.chain, key) \in Seq(Key) /\ Below(Append(Top.chain, key)) = Top.chain
      BY <3>2 DEF Below
    <3>4. Typed(f) /\ On(f, Top)
      BY <3>2, <3>3 DEF Typed, On, DocFrame
    <3>5. QED
      BY <1>3, <1>4, <1>9, <2>1, <2>3, <3>4, PushTyped DEF BeginPackage
  <2>4. CASE PackageRefusal(key, Top.chain) # "none"
    BY <1>3, <1>6, <1>9, <2>1, <2>2, <2>4 DEF BeginPackage
  <2>5. QED
    BY <2>3, <2>4
<1>10. CASE Reject
  <2> DEFINE why == Refusal(Head(Top.todo), Top.chain)
             f   == [Top EXCEPT !.failed = why]
  <2>1. why \in Errors
    BY <1>10 DEF Reject, Refusal, Errors
  <2> HIDE DEF why
  <2>2. Typed(f) /\ f.t = Top.t /\ f.chain = Top.chain
    BY <1>10, <2>1, TopTyped DEF Reject, Probing, Typed
  <2>3. QED
    BY <1>3, <1>4, <1>10, <2>2, ChangeTyped DEF Reject, why
<1>11. CASE LoadProperties
  <2> DEFINE p == Head(Top.todo)
             f == [Top EXCEPT !.todo = Tail(@), !.found = TRUE, !.got = Append(@, Locate[p])]
  <2>1. Locate[p] \in Names
    BY <1>11, FilesAssumption DEF LoadProperties, Refusal, IsThere, Content, Names
  <2> HIDE DEF p
  <2>2. Typed(f) /\ f.t = Top.t /\ f.chain = Top.chain
    BY <1>11, <2>1, TopTyped DEF LoadProperties, Probing, Typed
  <2>3. QED
    BY <1>3, <1>4, <1>11, <2>2, ChangeTyped DEF LoadProperties, p
<1>12. CASE Descend
  <2>1. PICK p : /\ Refusal(p, Top.chain) = "none"
                 /\ Push(DocFrame(Locate[p], p.dir, Append(Top.chain, p), Content(p).items))
    BY <1>12 DEF Descend
  <2> DEFINE f == DocFrame(Locate[p], p.dir, Append(Top.chain, p), Content(p).items)
  <2>2. Top.chain \in Seq(Key) /\ p \in Key /\ Locate[p] \in Names
    BY <2>1, FilesAssumption, TopTyped DEF Refusal, IsThere, Content, Typed, Key, Names
  <2>3. Append(Top.chain, p) \in Seq(Key) /\ Below(Append(Top.chain, p)) = Top.chain
    BY <2>2 DEF Below
  <2>4. Typed(f) /\ On(f, Top)
    BY <2>2, <2>3 DEF Typed, On, DocFrame
  <2>5. QED
    BY <1>3, <1>4, <1>12, <2>1, <2>4, PushTyped DEF Descend
<1>13. CASE Judge
  <2> DEFINE f == [Top EXCEPT !.todo = Tail(@), !.failed = "none"]
  <2>1. Top.failed \in Errors /\ Typed(f) /\ f.t = Top.t /\ f.chain = Top.chain
    BY <1>13, TopTyped DEF Judge, Probing, Typed
  <2>2. QED
    BY <1>3, <1>4, <1>6, <1>13, <2>1, ChangeTyped DEF Judge
<1>14. CASE EndProbe
  <2>1. Len(stack) > 1 /\ "required" \in Errors
    BY <1>14, TopTyped DEF EndProbe, Probing, Errors
  <2>2. QED
    BY <1>3, <1>4, <1>6, <1>14, <2>1, ReturnTyped DEF EndProbe
<1>15. CASE EndDoc
  <2>1. CASE Len(stack) = 1
    <3>1. outcome' = [t |-> "ok", got |-> Top.got] /\ Top.got \in Seq(Names)
      BY <1>15, <2>1, TopTyped DEF EndDoc, Typed
    <3>2. OutcomeTyped'
      BY <3>1 DEF OutcomeTyped
    <3>3. QED
      BY <1>3, <1>5, <1>15, <2>1, <3>2 DEF EndDoc
  <2>2. CASE Len(stack) # 1
    <3>1. Len(stack) > 1
      BY <2>2, TopTyped
    <3>2. QED
      BY <1>3, <1>4, <1>15, <2>2, <3>1, ReturnTyped DEF EndDoc
  <2>3. QED
    BY <2>1, <2>2
<1>16. QED
  BY <1>1, <1>2, <1>7, <1>8, <1>9, <1>10, <1>11, <1>12, <1>13, <1>14, <1>15 DEF Next, Load

\* The loader keeps its types for all files, packages and documents: a probe
\* stands on the build that reached the directive and shares its chain, a build
\* has the chain of what includes it and one name more, and an outcome names
\* sources that there are or an error that the loader knows.
THEOREM TypeCorrect == Spec => []TypeOK
<1>1. StackTyped /\ DiskTyped /\ OutcomeTyped => TypeOK
  BY DEF StackTyped, DiskTyped, OutcomeTyped, TypeOK, Typed, On, Linked
<1>2. QED
  BY <1>1, InitTyped, StepTyped, PTL DEF Spec

\* A set with zero and with the successor of each natural in it has them all:
\* the least of the others would have a predecessor.
LEMMA Induct ==
    ASSUME NEW S, 0 \in S, \A k \in Nat : k \in S => k + 1 \in S
    PROVE  \A k \in Nat : k \in S
<1> DEFINE R == OpToRel(<, Nat)
           T == {k \in Nat : k \notin S}
<1>1. IsWellFoundedOn(R, Nat)
  BY NatLessThanWellFounded
<1>2. \A i, k \in Nat : <<k, i>> \in R <=> k < i
  BY DEF OpToRel
<1> HIDE DEF R
<1>3. SUFFICES ASSUME T # {} PROVE FALSE
  OBVIOUS
<1>4. PICK i \in T : \A k \in T : ~(<<k, i>> \in R)
  BY <1>1, <1>3, WFMin
<1>5. i \in Nat /\ i # 0 /\ i - 1 \in Nat /\ (i - 1) + 1 = i
  BY <1>4
<1>6. i - 1 \in T
  BY <1>4, <1>5
<1>7. <<i - 1, i>> \in R
  BY <1>2, <1>5, SMT
<1> QED
  BY <1>4, <1>6, <1>7

(* ----------------------- results one after the other ------------------- *)
\* The prefixes of results up to n.
Prefixes(results, n, u) ==
    u = [i \in 0 .. n |-> IF i = 0 THEN Yes(<<>>) ELSE Then(u[i - 1], results[i])]

\* A function over the numbers up to n that says it of itself says it of each.
LEMMA PrefixesMeaning ==
    ASSUME NEW r, NEW n \in Nat, NEW u, Prefixes(r, n, u)
    PROVE  /\ u[0] = Yes(<<>>)
           /\ \A i \in 1 .. n : u[i] = Then(u[i - 1], r[i])
<1>1. u = [i \in 0 .. n |-> IF i = 0 THEN Yes(<<>>) ELSE Then(u[i - 1], r[i])]
  BY DEF Prefixes
<1>2. \A i \in 0 .. n : u[i] = IF i = 0 THEN Yes(<<>>) ELSE Then(u[i - 1], r[i])
  BY <1>1, Zenon
<1> QED
  BY <1>2

\* There is one for every n,
LEMMA PrefixesExist ==
    ASSUME NEW r
    PROVE  \A n \in Nat : \E u : Prefixes(r, n, u)
<1> DEFINE S == {n \in Nat : \E u : Prefixes(r, n, u)}
<1>1. 0 \in S
  <2> DEFINE u == [i \in 0 .. 0 |-> Yes(<<>>)]
  <2>1. Prefixes(r, 0, u)
    BY DEF Prefixes
  <2> QED
    BY <2>1
<1>2. ASSUME NEW n \in Nat, n \in S PROVE n + 1 \in S
  <2>1. PICK u : Prefixes(r, n, u)
    BY <1>2
  <2>2. /\ u[0] = Yes(<<>>)
        /\ \A i \in 1 .. n : u[i] = Then(u[i - 1], r[i])
    BY <2>1, PrefixesMeaning
  <2> DEFINE g == [i \in 0 .. n + 1 |-> IF i = n + 1 THEN Then(u[n], r[n + 1]) ELSE u[i]]
  <2>3. \A i \in 0 .. n + 1 : g[i] = IF i = 0 THEN Yes(<<>>) ELSE Then(g[i - 1], r[i])
    <3> TAKE i \in 0 .. n + 1
    <3>1. CASE i = 0
      BY <3>1, <2>2
    <3>2. CASE i = n + 1
      <4>1. i # 0 /\ i - 1 = n /\ n \in 0 .. n + 1 /\ n # n + 1
        BY <3>2
      <4>2. g[n] = u[n]
        BY <4>1
      <4> QED
        BY <3>2, <4>1, <4>2
    <3>3. CASE i # 0 /\ i # n + 1
      <4>1. i \in 1 .. n /\ i - 1 \in 0 .. n + 1 /\ i - 1 # n + 1
        BY <3>3
      <4>2. g[i - 1] = u[i - 1] /\ g[i] = u[i]
        BY <3>3, <4>1
      <4> QED
        BY <2>2, <3>3, <4>1, <4>2
    <3> QED
      BY <3>1, <3>2, <3>3
  <2>4. Prefixes(r, n + 1, g)
    <3>1. g = [i \in 0 .. n + 1 |-> g[i]]
      OBVIOUS
    <3> HIDE DEF g
    <3> QED
      BY <2>3, <3>1 DEF Prefixes
  <2> QED
    BY <2>4
<1> HIDE DEF S
<1>3. \A k \in Nat : k \in S
  BY <1>1, <1>2, Induct
<1> QED
  BY <1>3 DEF S

\* and they agree where they overlap.
LEMMA PrefixesUnique ==
    ASSUME NEW r, NEW m \in Nat, NEW n \in Nat, NEW u, NEW v, Prefixes(r, m, u), Prefixes(r, n, v)
    PROVE  \A k \in Nat : k <= m /\ k <= n => u[k] = v[k]
<1> DEFINE S == {k \in Nat : k <= m /\ k <= n => u[k] = v[k]}
<1>1. /\ u[0] = Yes(<<>>) /\ \A i \in 1 .. m : u[i] = Then(u[i - 1], r[i])
      /\ v[0] = Yes(<<>>) /\ \A i \in 1 .. n : v[i] = Then(v[i - 1], r[i])
  BY PrefixesMeaning
<1>2. 0 \in S
  BY <1>1
<1>3. ASSUME NEW k \in Nat, k \in S PROVE k + 1 \in S
  <2>1. SUFFICES ASSUME k + 1 <= m, k + 1 <= n PROVE u[k + 1] = v[k + 1]
    OBVIOUS
  <2>2. k + 1 \in 1 .. m /\ k + 1 \in 1 .. n /\ (k + 1) - 1 = k
    BY <2>1
  <2>3. u[k] = v[k]
    BY <1>3, <2>1
  <2>4. u[k + 1] = Then(u[k], r[k + 1]) /\ v[k + 1] = Then(v[k], r[k + 1])
    BY <1>1, <2>2, Zenon
  <2> QED
    BY <2>3, <2>4
<1> HIDE DEF S
<1>4. \A k \in Nat : k \in S
  BY <1>2, <1>3, Induct
<1> QED
  BY <1>4 DEF S

\* Results are taken one by one.
LEMMA ChainedTurns ==
    ASSUME NEW r, NEW n \in Nat
    PROVE  /\ Chained(r, 0) = Yes(<<>>)
           /\ Chained(r, n + 1) = Then(Chained(r, n), r[n + 1])
<1> DEFINE F(k) == CHOOSE u : Prefixes(r, k, u)
<1>1. ASSUME NEW k \in Nat PROVE Prefixes(r, k, F(k))
  BY PrefixesExist, Zenon
<1>2. ASSUME NEW k \in Nat PROVE Chained(r, k) = F(k)[k]
  BY DEF Chained, Prefixes
<1> HIDE DEF F
<1>3. F(0)[0] = Yes(<<>>)
  BY <1>1, PrefixesMeaning
<1>4. F(n + 1)[n + 1] = Then(F(n + 1)[n], r[n + 1])
  <2>1. n + 1 \in Nat /\ n + 1 \in 1 .. n + 1 /\ (n + 1) - 1 = n
    OBVIOUS
  <2> DEFINE f == F(n + 1)
             m == n + 1
  <2>2. m \in Nat /\ Prefixes(r, m, f)
    BY <1>1, <2>1
  <2> HIDE DEF f, m
  <2>3. \A i \in 1 .. m : f[i] = Then(f[i - 1], r[i])
    BY <2>2, PrefixesMeaning
  <2>4. \A i \in 1 .. n + 1 : f[i] = Then(f[i - 1], r[i])
    BY <2>3 DEF m
  <2>5. f[n + 1] = Then(f[n], r[n + 1])
    BY <2>1, <2>4, Zenon
  <2> QED
    BY <2>5 DEF f
<1>5. F(n + 1)[n] = F(n)[n]
  <2>1. n + 1 \in Nat /\ n <= n + 1
    OBVIOUS
  <2>2. Prefixes(r, n + 1, F(n + 1)) /\ Prefixes(r, n, F(n))
    BY <1>1, <2>1
  <2> QED
    BY <2>1, <2>2, PrefixesUnique
<1> QED
  BY <1>2, <1>3, <1>4, <1>5

\* An error stays.
LEMMA ChainedFails ==
    ASSUME NEW r, NEW k \in Nat, NEW n \in Nat, k <= n, Chained(r, k).t = "error"
    PROVE  Chained(r, n) = Chained(r, k)
<1> DEFINE S == {i \in Nat : Chained(r, k + i) = Chained(r, k)}
<1>1. 0 \in S
  OBVIOUS
<1>2. ASSUME NEW i \in Nat, i \in S PROVE i + 1 \in S
  <2>1. k + i \in Nat /\ k + (i + 1) = (k + i) + 1
    OBVIOUS
  <2>2. Chained(r, (k + i) + 1) = Then(Chained(r, k + i), r[(k + i) + 1])
    BY <2>1, ChainedTurns
  <2>3. Chained(r, k + i) = Chained(r, k)
    BY <1>2
  <2>4. Chained(r, (k + i) + 1) = Chained(r, k)
    BY <2>2, <2>3 DEF Then
  <2> QED
    BY <2>1, <2>4
<1> HIDE DEF S
<1>3. \A i \in Nat : i \in S
  BY <1>1, <1>2, Induct
<1>4. n - k \in Nat /\ k + (n - k) = n
  OBVIOUS
<1>5. Chained(r, k + (n - k)) = Chained(r, k)
  BY <1>3, <1>4 DEF S
<1> QED
  BY <1>4, <1>5

\* Every result is one of the two kinds.
IsResult(x) == x.t = "error" \/ (x.t = "ok" /\ x = Yes(x.got))

\* Together the results are fine, or one of them is the error.
LEMMA ChainedTyped ==
    ASSUME NEW r, NEW n \in Nat
    PROVE  \A k \in 0 .. n : Chained(r, k).t = "ok" \/ \E i \in 1 .. k : Chained(r, k) = r[i] /\ r[i].t = "error"
<1> DEFINE P(k) == Chained(r, k).t = "ok" \/ \E i \in 1 .. k : Chained(r, k) = r[i] /\ r[i].t = "error"
           S == {k \in Nat : P(k)}
<1>1. 0 \in S
  BY ChainedTurns DEF Yes
<1>2. ASSUME NEW k \in Nat, k \in S PROVE k + 1 \in S
  <2>1. Chained(r, k + 1) = Then(Chained(r, k), r[k + 1]) /\ P(k)
    BY <1>2, ChainedTurns
  <2>2. CASE Chained(r, k).t = "error"
    <3>1. PICK i \in 1 .. k : Chained(r, k) = r[i] /\ r[i].t = "error"
      BY <2>1, <2>2
    <3>2. Chained(r, k + 1) = r[i] /\ i \in 1 .. k + 1
      BY <2>1, <2>2, <3>1 DEF Then
    <3> QED
      BY <3>1, <3>2
  <2>3. CASE Chained(r, k).t # "error" /\ r[k + 1].t = "error"
    <3>1. Chained(r, k + 1) = r[k + 1] /\ k + 1 \in 1 .. k + 1
      BY <2>1, <2>3 DEF Then
    <3> QED
      BY <2>3, <3>1
  <2>4. CASE Chained(r, k).t # "error" /\ r[k + 1].t # "error"
    BY <2>1, <2>4 DEF Then, Yes
  <2> QED
    BY <2>2, <2>3, <2>4
<1> HIDE DEF S
<1>3. \A k \in Nat : k \in S
  BY <1>1, <1>2, Induct
<1> QED
  BY <1>3 DEF S

\* Where the results that are no circles agree, so do they together.
LEMMA ChainedExtends ==
    ASSUME NEW r, NEW q, NEW n \in Nat,
           \A i \in 1 .. n : r[i] # Circular => q[i] = r[i]
    PROVE  \A k \in 0 .. n : Chained(r, k) # Circular => Chained(q, k) = Chained(r, k)
<1> DEFINE P(k) == Chained(r, k) # Circular => Chained(q, k) = Chained(r, k)
           S == {k \in Nat : k <= n => P(k)}
<1>1. 0 \in S
  BY ChainedTurns
<1>2. ASSUME NEW k \in Nat, k \in S PROVE k + 1 \in S
  <2>1. SUFFICES ASSUME k + 1 <= n, Chained(r, k + 1) # Circular
                 PROVE  Chained(q, k + 1) = Chained(r, k + 1)
    OBVIOUS
  <2>2. /\ Chained(r, k + 1) = Then(Chained(r, k), r[k + 1])
        /\ Chained(q, k + 1) = Then(Chained(q, k), q[k + 1])
    BY ChainedTurns
  <2>3. Chained(r, k) # Circular
    BY <2>1, <2>2 DEF Then, Circular, Bad
  <2>4. Chained(q, k) = Chained(r, k)
    BY <1>2, <2>1, <2>3
  <2>5. CASE Chained(r, k).t = "error"
    BY <2>2, <2>4, <2>5 DEF Then
  <2>6. CASE Chained(r, k).t # "error"
    <3>1. r[k + 1] # Circular
      BY <2>1, <2>2, <2>6 DEF Then, Circular, Bad
    <3>2. q[k + 1] = r[k + 1]
      BY <2>1, <3>1
    <3> QED
      BY <2>2, <2>4, <3>2
  <2> QED
    BY <2>5, <2>6
<1> HIDE DEF S
<1>3. \A k \in Nat : k \in S
  BY <1>1, <1>2, Induct
<1> QED
  BY <1>3 DEF S

(* ------------------------------ the levels ----------------------------- *)
Flat == [call \in Calls |-> Circular]

\* The same where nobody watches for circles: only the depth is limited.
Inner(d, inner) == [call \in Calls |-> OfItems(d, inner, call, {}, Len(call.items))]
Deeper(d, watch, inner) == IF watch THEN Outer(d, inner) ELSE Inner(d, inner)

\* The levels down to n.
Levels(d, watch, n, u) ==
    u = [i \in 0 .. n |-> IF i = 0 THEN Flat ELSE Deeper(d, watch, u[i - 1])]

\* Each level is made of the one below it,
LEMMA LevelsMeaning ==
    ASSUME NEW d, NEW w, NEW n \in Nat, NEW u, Levels(d, w, n, u)
    PROVE  /\ u[0] = Flat
           /\ \A i \in 1 .. n : u[i] = Deeper(d, w, u[i - 1])
<1>1. u = [i \in 0 .. n |-> IF i = 0 THEN Flat ELSE Deeper(d, w, u[i - 1])]
  BY DEF Levels
<1>2. \A i \in 0 .. n : u[i] = IF i = 0 THEN Flat ELSE Deeper(d, w, u[i - 1])
  BY <1>1, Zenon
<1> QED
  BY <1>2

\* there are some for every depth,
LEMMA LevelsExist ==
    ASSUME NEW d, NEW w
    PROVE  \A n \in Nat : \E u : Levels(d, w, n, u)
<1> DEFINE S == {n \in Nat : \E u : Levels(d, w, n, u)}
<1>1. 0 \in S
  <2> DEFINE u == [i \in 0 .. 0 |-> Flat]
  <2>1. Levels(d, w, 0, u)
    BY DEF Levels
  <2> QED
    BY <2>1
<1>2. ASSUME NEW n \in Nat, n \in S PROVE n + 1 \in S
  <2>1. PICK u : Levels(d, w, n, u)
    BY <1>2
  <2>2. /\ u[0] = Flat
        /\ \A i \in 1 .. n : u[i] = Deeper(d, w, u[i - 1])
    BY <2>1, LevelsMeaning
  <2> DEFINE g == [i \in 0 .. n + 1 |-> IF i = n + 1 THEN Deeper(d, w, u[n]) ELSE u[i]]
  <2>3. \A i \in 0 .. n + 1 : g[i] = IF i = 0 THEN Flat ELSE Deeper(d, w, g[i - 1])
    <3> TAKE i \in 0 .. n + 1
    <3>1. CASE i = 0
      BY <3>1, <2>2
    <3>2. CASE i = n + 1
      <4>1. i # 0 /\ i - 1 = n /\ n \in 0 .. n + 1 /\ n # n + 1
        BY <3>2
      <4>2. g[n] = u[n]
        BY <4>1
      <4> QED
        BY <3>2, <4>1, <4>2
    <3>3. CASE i # 0 /\ i # n + 1
      <4>1. i \in 1 .. n /\ i - 1 \in 0 .. n + 1 /\ i - 1 # n + 1
        BY <3>3
      <4>2. g[i - 1] = u[i - 1] /\ g[i] = u[i]
        BY <3>3, <4>1
      <4> QED
        BY <2>2, <3>3, <4>1, <4>2
    <3> QED
      BY <3>1, <3>2, <3>3
  <2>4. Levels(d, w, n + 1, g)
    <3>1. g = [i \in 0 .. n + 1 |-> g[i]]
      OBVIOUS
    <3> HIDE DEF g
    <3> QED
      BY <2>3, <3>1 DEF Levels
  <2> QED
    BY <2>4
<1> HIDE DEF S
<1>3. \A k \in Nat : k \in S
  BY <1>1, <1>2, Induct
<1> QED
  BY <1>3 DEF S

\* and they agree where they overlap.
LEMMA LevelsUnique ==
    ASSUME NEW d, NEW w, NEW m \in Nat, NEW n \in Nat, NEW u, NEW v, Levels(d, w, m, u), Levels(d, w, n, v)
    PROVE  \A k \in Nat : k <= m /\ k <= n => u[k] = v[k]
<1> DEFINE S == {k \in Nat : k <= m /\ k <= n => u[k] = v[k]}
<1>1. /\ u[0] = Flat /\ \A i \in 1 .. m : u[i] = Deeper(d, w, u[i - 1])
      /\ v[0] = Flat /\ \A i \in 1 .. n : v[i] = Deeper(d, w, v[i - 1])
  BY LevelsMeaning
<1>2. 0 \in S
  BY <1>1
<1>3. ASSUME NEW k \in Nat, k \in S PROVE k + 1 \in S
  <2>1. SUFFICES ASSUME k + 1 <= m, k + 1 <= n PROVE u[k + 1] = v[k + 1]
    OBVIOUS
  <2>2. k + 1 \in 1 .. m /\ k + 1 \in 1 .. n /\ (k + 1) - 1 = k
    BY <2>1
  <2>3. u[k] = v[k]
    BY <1>3, <2>1
  <2>4. u[k + 1] = Deeper(d, w, u[k]) /\ v[k + 1] = Deeper(d, w, v[k])
    BY <1>1, <2>2, Zenon
  <2> QED
    BY <2>3, <2>4
<1> HIDE DEF S
<1>4. \A k \in Nat : k \in S
  BY <1>2, <1>3, Induct
<1> QED
  BY <1>4 DEF S

Every(d, w) == [k \in Nat |-> (CHOOSE u : Levels(d, w, k, u))[k]]

\* All levels at once.
LEMMA EveryLevel ==
    ASSUME NEW d, NEW w
    PROVE  \A k \in Nat : Every(d, w)[k] = IF k = 0 THEN Flat ELSE Deeper(d, w, Every(d, w)[k - 1])
<1> DEFINE F(k) == CHOOSE u : Levels(d, w, k, u)
<1>1. ASSUME NEW k \in Nat PROVE Levels(d, w, k, F(k))
  BY LevelsExist, Zenon
<1>2. ASSUME NEW k \in Nat PROVE Every(d, w)[k] = F(k)[k]
  BY DEF Every
<1> HIDE DEF F
<1>3. F(0)[0] = Flat
  BY <1>1, LevelsMeaning
<1>4. ASSUME NEW n \in Nat PROVE F(n + 1)[n + 1] = Deeper(d, w, F(n)[n])
  <2>1. n + 1 \in Nat /\ n + 1 \in 1 .. n + 1 /\ (n + 1) - 1 = n /\ n <= n + 1
    OBVIOUS
  <2> DEFINE f == F(n + 1)
             m == n + 1
  <2>2. m \in Nat /\ Levels(d, w, m, f)
    BY <1>1, <2>1
  <2> HIDE DEF f, m
  <2>3. \A i \in 1 .. m : f[i] = Deeper(d, w, f[i - 1])
    BY <2>2, LevelsMeaning
  <2>4. \A i \in 1 .. n + 1 : f[i] = Deeper(d, w, f[i - 1])
    BY <2>3 DEF m
  <2>5. f[n + 1] = Deeper(d, w, f[n])
    BY <2>1, <2>4, Zenon
  <2>6. Levels(d, w, n + 1, F(n + 1)) /\ Levels(d, w, n, F(n))
    BY <1>1, <2>1
  <2>7. F(n + 1)[n] = F(n)[n]
    BY <2>1, <2>6, LevelsUnique
  <2> QED
    BY <2>5, <2>7 DEF f
<1>5. ASSUME NEW k \in Nat, k # 0 PROVE Every(d, w)[k] = Deeper(d, w, Every(d, w)[k - 1])
  <2>1. k - 1 \in Nat /\ (k - 1) + 1 = k
    BY <1>5
  <2>2. F((k - 1) + 1)[(k - 1) + 1] = Deeper(d, w, F(k - 1)[k - 1])
    BY <1>4, <2>1
  <2>3. F(k)[k] = Deeper(d, w, F(k - 1)[k - 1])
    BY <2>1, <2>2
  <2> QED
    BY <1>2, <2>1, <2>3
<1> QED
  BY <1>2, <1>3, <1>5

\* The expansion, a level at a time,
LEMMA ExpandTurns ==
    ASSUME NEW d, NEW n \in Nat
    PROVE  Expand(d, 0) = Flat /\ Expand(d, n + 1) = Outer(d, Expand(d, n))
<1> DEFINE Is(F) == F = [k \in Nat |-> IF k = 0 THEN [call \in Calls |-> Circular] ELSE Outer(d, F[k - 1])]
           E == CHOOSE F : Is(F)
<1>1. Is(Every(d, TRUE))
  <2>1. Every(d, TRUE) = [k \in Nat |-> Every(d, TRUE)[k]]
    BY DEF Every
  <2>2. \A k \in Nat : Every(d, TRUE)[k] = IF k = 0 THEN [call \in Calls |-> Circular] ELSE Outer(d, Every(d, TRUE)[k - 1])
    BY EveryLevel DEF Flat, Deeper
  <2> HIDE DEF Every
  <2> QED
    BY <2>1, <2>2
<1>2. Is(E)
  BY <1>1, Zenon
<1>3. ASSUME NEW k \in Nat PROVE Expand(d, k) = E[k]
  BY DEF Expand
<1> HIDE DEF E
<1>4. \A k \in Nat : E[k] = IF k = 0 THEN [call \in Calls |-> Circular] ELSE Outer(d, E[k - 1])
  BY <1>2, Zenon
<1>5. E[n + 1] = Outer(d, E[(n + 1) - 1]) /\ (n + 1) - 1 = n /\ n + 1 \in Nat
  BY <1>4
<1> QED
  BY <1>3, <1>4, <1>5 DEF Flat

\* and the same without a watch.
Blind(d, n) == Every(d, FALSE)[n]
LEMMA BlindTurns ==
    ASSUME NEW d, NEW n \in Nat
    PROVE  Blind(d, 0) = Flat /\ Blind(d, n + 1) = Inner(d, Blind(d, n))
<1>1. n + 1 \in Nat /\ n + 1 # 0 /\ (n + 1) - 1 = n
  OBVIOUS
<1>2. Every(d, FALSE)[n + 1] = Deeper(d, FALSE, Every(d, FALSE)[(n + 1) - 1])
  BY <1>1, EveryLevel
<1> QED
  BY <1>1, <1>2, EveryLevel DEF Blind, Deeper

(* ---------------------- what is known of a source ---------------------- *)
\* The content of d's files is what they may hold.
DiskOK(d) == DOMAIN d = File /\ \A f \in File : d[f] \in Contents[f]

\* Calls that differ in what is open only.
Alike(c, e) == c.items = e.items /\ c.name = e.name /\ c.dir = e.dir

\* q says what m says wherever m finds no circle.
Knows(m, q) == \A c, e \in Calls : Alike(c, e) /\ m[c] # Circular => q[e] = m[c]

\* What is on the disk can be called.
LEMMA HeldTyped ==
    ASSUME NEW d, DiskOK(d), NEW p, Held(d, p) # Missing
    PROVE  /\ p \in DOMAIN Locate /\ Locate[p] \in File /\ Locate[p] \in Names
           /\ Held(d, p) = d[Locate[p]]
           /\ Held(d, p).items \in ItemLists /\ p.dir \in Dirs
<1>1. p \in DOMAIN Locate /\ Held(d, p) = d[Locate[p]]
  BY DEF Held
<1>2. Locate[p] \in File
  BY <1>1, FilesAssumption
<1>3. d[Locate[p]] \in Contents[Locate[p]]
  BY <1>2 DEF DiskOK
<1>4. d[Locate[p]].items \in {c.items : c \in Contents[Locate[p]]}
  BY <1>3
<1>5. d[Locate[p]].items \in ItemLists
  BY <1>2, <1>4 DEF ItemLists
<1> QED
  BY <1>1, <1>2, <1>5 DEF Dirs, Names

\* So can the packages.
LEMMA RegistryTyped ==
    ASSUME NEW k \in DOMAIN Registry
    PROVE  Registry[k].items \in ItemLists /\ k.package \in Names /\ Cwd \in Dirs
  BY DEF ItemLists, Names, Dirs

\* A source is called with its name open.
LEMMA CallTyped ==
    ASSUME NEW items \in ItemLists, NEW name \in Names, NEW dir \in Dirs, NEW open \in SUBSET Names
    PROVE  /\ Call(items, name, dir, open) \in Calls
           /\ open \cup {name} \in SUBSET Names
           /\ Call(items, name, dir, open \cup {name}) \in Calls
  BY DEF Call, Calls

\* The parts of a call.
LEMMA ItemsTyped ==
    ASSUME NEW c \in Calls
    PROVE  /\ c.items \in ItemLists /\ c.name \in Names /\ c.dir \in Dirs /\ c.open \in SUBSET Names
           /\ Len(c.items) \in Nat /\ DOMAIN c.items = 1 .. Len(c.items)
<1>1. c.items \in ItemLists /\ c.name \in Names /\ c.dir \in Dirs /\ c.open \in SUBSET Names
  BY DEF Calls
<1>2. c.items \in Seq({c.items[i] : i \in DOMAIN c.items})
  BY <1>1, SourcesAssumption DEF IsSequence
<1> QED
  BY <1>1, <1>2

\* What a source, a path, an include, a package and an item bring in is known.
LEMMA SourceKnown ==
    ASSUME NEW m, NEW q, Knows(m, q), NEW content, content.items \in ItemLists,
           NEW name \in Names, NEW dir \in Dirs, NEW open \in SUBSET Names,
           OfSource(m, content, name, dir, open) # Circular
    PROVE  OfSource(q, content, name, dir, {}) = OfSource(m, content, name, dir, open)
<1>1. name \notin open
  <2>1. name \in open => OfSource(m, content, name, dir, open) = Circular
    BY DEF OfSource
  <2> QED
    BY <2>1
<1>2. CASE content.t \in {"broken", "array"}
  BY <1>1, <1>2 DEF OfSource
<1>3. CASE content.t \notin {"broken", "array"}
  <2> DEFINE c == Call(content.items, name, dir, open \cup {name})
             e == Call(content.items, name, dir, {} \cup {name})
  <2>1. OfSource(m, content, name, dir, open) = m[c] /\ OfSource(q, content, name, dir, {}) = q[e]
    BY <1>1, <1>3 DEF OfSource
  <2>2. c \in Calls /\ e \in Calls
    BY CallTyped
  <2>3. Alike(c, e)
    BY DEF Alike, Call
  <2> HIDE DEF c, e
  <2>4. m[c] # Circular
    BY <2>1
  <2>5. q[e] = m[c]
    BY <2>2, <2>3, <2>4 DEF Knows
  <2> QED
    BY <2>1, <2>5
<1> QED
  BY <1>2, <1>3

LEMMA PathKnown ==
    ASSUME NEW d, DiskOK(d), NEW m, NEW q, Knows(m, q), NEW p, NEW open \in SUBSET Names,
           OfPath(d, m, p, open) # Circular
    PROVE  OfPath(d, q, p, {}) = OfPath(d, m, p, open)
<1>1. CASE Held(d, p) = Missing \/ p.ext = "properties"
  BY <1>1 DEF OfPath
<1>2. CASE Held(d, p) # Missing /\ p.ext # "properties"
  <2>1. /\ Held(d, p).items \in ItemLists /\ Locate[p] \in Names /\ p.dir \in Dirs
    BY <1>2, HeldTyped
  <2>2. /\ OfPath(d, m, p, open) = OfSource(m, Held(d, p), Locate[p], p.dir, open)
        /\ OfPath(d, q, p, {}) = OfSource(q, Held(d, p), Locate[p], p.dir, {})
    BY <1>2 DEF OfPath
  <2> QED
    BY <2>1, <2>2, SourceKnown
<1> QED
  BY <1>1, <1>2

\* The candidates of a directive are one or three.
LEMMA CandidatesTyped ==
    ASSUME NEW item, NEW dir
    PROVE  /\ Len(Candidates(item, dir)) \in {1, 3}
           /\ DOMAIN Candidates(item, dir) = 1 .. Len(Candidates(item, dir))
<1> DEFINE path(ext) == [dir |-> Join(IF item.cwd THEN Cwd ELSE dir, item.dir), stem |-> item.stem, ext |-> ext]
<1>1. CASE item.ext # ""
  <2>1. Candidates(item, dir) = <<path(item.ext)>>
    BY <1>1 DEF Candidates
  <2> HIDE DEF path
  <2> QED
    BY <2>1
<1>2. CASE item.ext = ""
  <2>1. Candidates(item, dir) = <<path("properties"), path("json"), path("conf")>>
    BY <1>2 DEF Candidates
  <2> HIDE DEF path
  <2> QED
    BY <2>1
<1> QED
  BY <1>1, <1>2

LEMMA PathsKnown ==
    ASSUME NEW d, DiskOK(d), NEW m, NEW q, Knows(m, q), NEW paths, NEW open \in SUBSET Names,
           NEW n \in Nat, n <= Len(paths), Len(paths) \in Nat,
           OfPaths(d, m, paths, open, n) # Circular
    PROVE  OfPaths(d, q, paths, {}, n) = OfPaths(d, m, paths, open, n)
<1> DEFINE r == [i \in 1 .. Len(paths) |-> OfPath(d, m, paths[i], open)]
           s == [i \in 1 .. Len(paths) |-> OfPath(d, q, paths[i], {})]
<1>1. ASSUME NEW i \in 1 .. n, r[i] # Circular PROVE s[i] = r[i]
  <2>1. r[i] = OfPath(d, m, paths[i], open) /\ s[i] = OfPath(d, q, paths[i], {})
    OBVIOUS
  <2> HIDE DEF r, s
  <2> QED
    BY <1>1, <2>1, PathKnown
<1>2. OfPaths(d, m, paths, open, n) = Chained(r, n) /\ OfPaths(d, q, paths, {}, n) = Chained(s, n)
  BY DEF OfPaths
<1> HIDE DEF r, s
<1>3. n \in 0 .. n
  OBVIOUS
<1> QED
  BY <1>1, <1>2, <1>3, ChainedExtends

LEMMA IncludeKnown ==
    ASSUME NEW d, DiskOK(d), NEW m, NEW q, Knows(m, q), NEW item, NEW dir, NEW open \in SUBSET Names,
           OfInclude(d, m, item, dir, open) # Circular
    PROVE  OfInclude(d, q, item, dir, {}) = OfInclude(d, m, item, dir, open)
<1> DEFINE paths == Candidates(item, dir)
           none  == item.required /\ \A i \in 1 .. Len(paths) : Held(d, paths[i]) = Missing
<1>1. Len(paths) \in Nat
  BY CandidatesTyped
<1>2. /\ OfInclude(d, m, item, dir, open) = IF none THEN Bad("required") ELSE OfPaths(d, m, paths, open, Len(paths))
      /\ OfInclude(d, q, item, dir, {}) = IF none THEN Bad("required") ELSE OfPaths(d, q, paths, {}, Len(paths))
  BY DEF OfInclude
<1> HIDE DEF paths, none
<1>3. CASE none
  BY <1>2, <1>3
<1>4. CASE ~none
  <2>1. OfPaths(d, m, paths, open, Len(paths)) # Circular
    BY <1>2, <1>4
  <2> QED
    BY <1>1, <1>2, <1>4, <2>1, PathsKnown
<1> QED
  BY <1>3, <1>4

LEMMA PackageKnown ==
    ASSUME NEW m, NEW q, Knows(m, q), NEW key, NEW open \in SUBSET Names,
           OfPackage(m, key, open) # Circular
    PROVE  OfPackage(q, key, {}) = OfPackage(m, key, open)
<1>1. CASE key \notin DOMAIN Registry
  BY <1>1 DEF OfPackage
<1>2. CASE key \in DOMAIN Registry
  <2>1. Registry[key].items \in ItemLists /\ key.package \in Names /\ Cwd \in Dirs
    BY <1>2, RegistryTyped
  <2>2. /\ OfPackage(m, key, open) = OfSource(m, Registry[key], key.package, Cwd, open)
        /\ OfPackage(q, key, {}) = OfSource(q, Registry[key], key.package, Cwd, {})
    BY <1>2 DEF OfPackage
  <2> QED
    BY <2>1, <2>2, SourceKnown
<1> QED
  BY <1>1, <1>2

LEMMA ItemKnown ==
    ASSUME NEW d, DiskOK(d), NEW m, NEW q, Knows(m, q), NEW item, NEW c, NEW e, Alike(c, e),
           NEW open \in SUBSET Names, OfItem(d, m, item, c, open) # Circular
    PROVE  OfItem(d, q, item, e, {}) = OfItem(d, m, item, c, open)
<1>1. c.name = e.name /\ c.dir = e.dir
  BY DEF Alike
<1>2. CASE item.t = "own"
  BY <1>1, <1>2 DEF OfItem
<1>3. CASE item.t = "package"
  <2>1. /\ OfItem(d, m, item, c, open) = OfPackage(m, item.key, open)
        /\ OfItem(d, q, item, e, {}) = OfPackage(q, item.key, {})
    BY <1>3 DEF OfItem
  <2> QED
    BY <2>1, PackageKnown
<1>4. CASE item.t \notin {"own", "package"}
  <2>1. /\ OfItem(d, m, item, c, open) = OfInclude(d, m, item, c.dir, open)
        /\ OfItem(d, q, item, e, {}) = OfInclude(d, q, item, c.dir, {})
    BY <1>1, <1>4 DEF OfItem
  <2> QED
    BY <2>1, IncludeKnown
<1> QED
  BY <1>2, <1>3, <1>4

LEMMA ItemsKnown ==
    ASSUME NEW d, DiskOK(d), NEW m, NEW q, Knows(m, q), NEW c \in Calls, NEW e \in Calls, Alike(c, e),
           NEW open \in SUBSET Names, NEW n \in Nat, n <= Len(c.items),
           OfItems(d, m, c, open, n) # Circular
    PROVE  OfItems(d, q, e, {}, n) = OfItems(d, m, c, open, n)
<1> DEFINE r == [i \in 1 .. Len(c.items) |-> OfItem(d, m, c.items[i], c, open)]
           s == [i \in 1 .. Len(e.items) |-> OfItem(d, q, e.items[i], e, {})]
<1>1. Len(c.items) \in Nat /\ c.items = e.items
  BY ItemsTyped DEF Alike
<1>2. ASSUME NEW i \in 1 .. n, r[i] # Circular PROVE s[i] = r[i]
  <2>1. r[i] = OfItem(d, m, c.items[i], c, open) /\ s[i] = OfItem(d, q, c.items[i], e, {})
    BY <1>1
  <2> HIDE DEF r, s
  <2> QED
    BY <1>2, <2>1, ItemKnown
<1>3. OfItems(d, m, c, open, n) = Chained(r, n) /\ OfItems(d, q, e, {}, n) = Chained(s, n)
  BY DEF OfItems
<1> HIDE DEF r, s
<1>4. n \in 0 .. n
  OBVIOUS
<1> QED
  BY <1>2, <1>3, <1>4, ChainedExtends

\* So what is known at one level is known at the next,
LEMMA LevelKnown ==
    ASSUME NEW d, DiskOK(d), NEW m, NEW q, Knows(m, q)
    PROVE  Knows(Outer(d, m), Inner(d, q)) /\ Knows(Inner(d, m), Inner(d, q))
<1>1. ASSUME NEW c \in Calls, NEW e \in Calls, Alike(c, e), NEW open \in SUBSET Names,
             OfItems(d, m, c, open, Len(c.items)) # Circular
      PROVE  OfItems(d, q, e, {}, Len(e.items)) = OfItems(d, m, c, open, Len(c.items))
  <2>1. Len(c.items) \in Nat /\ Len(c.items) = Len(e.items)
    BY <1>1, ItemsTyped DEF Alike
  <2> QED
    BY <1>1, <2>1, ItemsKnown
<1>2. \A c \in Calls : /\ Outer(d, m)[c] = OfItems(d, m, c, c.open, Len(c.items))
                       /\ Inner(d, m)[c] = OfItems(d, m, c, {}, Len(c.items))
                       /\ Inner(d, q)[c] = OfItems(d, q, c, {}, Len(c.items))
                       /\ c.open \in SUBSET Names
  BY ItemsTyped DEF Outer, Inner
<1>3. ASSUME NEW c \in Calls, NEW e \in Calls, Alike(c, e), Outer(d, m)[c] # Circular
      PROVE  Inner(d, q)[e] = Outer(d, m)[c]
  BY <1>1, <1>2, <1>3
<1>4. ASSUME NEW c \in Calls, NEW e \in Calls, Alike(c, e), Inner(d, m)[c] # Circular
      PROVE  Inner(d, q)[e] = Inner(d, m)[c]
  <2>1. {} \in SUBSET Names
    OBVIOUS
  <2>2. OfItems(d, m, c, {}, Len(c.items)) # Circular
    BY <1>2, <1>4
  <2>3. OfItems(d, q, e, {}, Len(e.items)) = OfItems(d, m, c, {}, Len(c.items))
    BY <1>1, <1>4, <2>1, <2>2
  <2> QED
    BY <1>2, <2>3
<1>5. Knows(Outer(d, m), Inner(d, q))
  BY <1>3 DEF Knows
<1>6. Knows(Inner(d, m), Inner(d, q))
  BY <1>4 DEF Knows
<1> QED
  BY <1>5, <1>6

\* and what a level brings in without meeting a circle is what it brings in
\* without a watch, at this level and all below it.
LEMMA ExpandBlind ==
    ASSUME NEW d, DiskOK(d)
    PROVE  \A n \in Nat : Knows(Expand(d, n), Blind(d, n))
<1> DEFINE S == {n \in Nat : Knows(Expand(d, n), Blind(d, n))}
<1>1. 0 \in S
  BY ExpandTurns DEF Knows, Flat
<1>2. ASSUME NEW n \in Nat, n \in S PROVE n + 1 \in S
  BY <1>2, ExpandTurns, BlindTurns, LevelKnown
<1> HIDE DEF S
<1>3. \A k \in Nat : k \in S
  BY <1>1, <1>2, Induct
<1> QED
  BY <1>3 DEF S

\* A level knows what the one above it knows,
LEMMA BlindNext ==
    ASSUME NEW d, DiskOK(d)
    PROVE  \A n \in Nat : Knows(Blind(d, n), Blind(d, n + 1))
<1> DEFINE S == {n \in Nat : Knows(Blind(d, n), Blind(d, n + 1))}
<1>1. 0 \in S
  BY BlindTurns DEF Knows, Flat
<1>2. ASSUME NEW n \in Nat, n \in S PROVE n + 1 \in S
  <2>1. n + 1 \in Nat /\ Knows(Blind(d, n), Blind(d, n + 1))
    BY <1>2
  <2>2. Blind(d, n + 1) = Inner(d, Blind(d, n)) /\ Blind(d, (n + 1) + 1) = Inner(d, Blind(d, n + 1))
    BY <2>1, BlindTurns
  <2>3. Knows(Inner(d, Blind(d, n)), Inner(d, Blind(d, n + 1)))
    BY <2>1, LevelKnown
  <2> QED
    BY <2>1, <2>2, <2>3
<1> HIDE DEF S
<1>3. \A k \in Nat : k \in S
  BY <1>1, <1>2, Induct
<1> QED
  BY <1>3 DEF S

\* and so do all the levels below it.
LEMMA BlindGrows ==
    ASSUME NEW d, DiskOK(d), NEW n \in Nat, NEW h \in Nat, n <= h, NEW c \in Calls, Blind(d, n)[c] # Circular
    PROVE  Blind(d, h)[c] = Blind(d, n)[c]
<1> DEFINE S == {k \in Nat : Blind(d, n + k)[c] = Blind(d, n)[c]}
<1>1. 0 \in S
  OBVIOUS
<1>2. ASSUME NEW k \in Nat, k \in S PROVE k + 1 \in S
  <2>1. n + k \in Nat /\ n + (k + 1) = (n + k) + 1 /\ Alike(c, c)
    BY DEF Alike
  <2>2. Knows(Blind(d, n + k), Blind(d, (n + k) + 1))
    BY <2>1, BlindNext
  <2>3. Blind(d, n + k)[c] = Blind(d, n)[c]
    BY <1>2
  <2>4. Blind(d, (n + k) + 1)[c] = Blind(d, n)[c]
    BY <2>1, <2>2, <2>3 DEF Knows
  <2> QED
    BY <2>1, <2>4
<1> HIDE DEF S
<1>3. \A k \in Nat : k \in S
  BY <1>1, <1>2, Induct
<1>4. h - n \in Nat /\ n + (h - n) = h
  OBVIOUS
<1>5. Blind(d, n + (h - n))[c] = Blind(d, n)[c]
  BY <1>3, <1>4 DEF S
<1> QED
  BY <1>4, <1>5

(* -------------------------- the deepest level -------------------------- *)
\* What a source brings in at last: at the levels that are deep enough for it.
Limit(d) ==
    [c \in Calls |-> LET deep == CHOOSE h \in Nat : Blind(d, h)[c] # Circular
                     IN  IF \E h \in Nat : Blind(d, h)[c] # Circular THEN Blind(d, deep)[c] ELSE Circular]

\* The limit is what some level says.
LEMMA LimitMeaning ==
    ASSUME NEW d, DiskOK(d), NEW c \in Calls
    PROVE  /\ \A h \in Nat : Blind(d, h)[c] # Circular => Limit(d)[c] = Blind(d, h)[c]
           /\ Limit(d)[c] # Circular => \E h \in Nat : Blind(d, h)[c] = Limit(d)[c]
<1> DEFINE B(h) == Blind(d, h)[c]
           deep == CHOOSE h \in Nat : B(h) # Circular
<1>1. Limit(d)[c] = IF \E h \in Nat : B(h) # Circular THEN B(deep) ELSE Circular
  BY DEF Limit
<1>2. ASSUME NEW h \in Nat, NEW g \in Nat, B(h) # Circular, B(g) # Circular PROVE B(h) = B(g)
  <2>1. CASE h <= g
    BY <1>2, <2>1, BlindGrows
  <2>2. CASE g <= h
    BY <1>2, <2>2, BlindGrows
  <2> QED
    BY <2>1, <2>2
<1> HIDE DEF B
<1>3. (\E h \in Nat : B(h) # Circular) => deep \in Nat /\ B(deep) # Circular
  OBVIOUS
<1> HIDE DEF deep
<1>4. \A h \in Nat : B(h) # Circular => Limit(d)[c] = B(h)
  BY <1>1, <1>2, <1>3
<1>5. Limit(d)[c] # Circular => \E h \in Nat : B(h) = Limit(d)[c]
  BY <1>1, <1>3
<1> QED
  BY <1>4, <1>5 DEF B

\* A level does not depend on what is open,
LEMMA BlindAlike ==
    ASSUME NEW d, DiskOK(d)
    PROVE  \A n \in Nat : Knows(Blind(d, n), Blind(d, n))
<1> DEFINE S == {n \in Nat : Knows(Blind(d, n), Blind(d, n))}
<1>1. 0 \in S
  BY BlindTurns DEF Knows, Flat
<1>2. ASSUME NEW n \in Nat, n \in S PROVE n + 1 \in S
  <2>1. Knows(Inner(d, Blind(d, n)), Inner(d, Blind(d, n)))
    BY <1>2, LevelKnown
  <2>2. Blind(d, n + 1) = Inner(d, Blind(d, n)) /\ n + 1 \in Nat
    BY <1>2, BlindTurns
  <2> QED
    BY <2>1, <2>2
<1> HIDE DEF S
<1>3. \A k \in Nat : k \in S
  BY <1>1, <1>2, Induct
<1> QED
  BY <1>3 DEF S

\* nor does the limit; it knows what the levels know.
LEMMA LimitKnows ==
    ASSUME NEW d, DiskOK(d)
    PROVE  (\A h \in Nat : Knows(Blind(d, h), Limit(d))) /\ Knows(Limit(d), Limit(d))
<1>1. ASSUME NEW h \in Nat, NEW c \in Calls, NEW e \in Calls, Alike(c, e), Blind(d, h)[c] # Circular
      PROVE  Limit(d)[e] = Blind(d, h)[c]
  <2>1. Blind(d, h)[e] = Blind(d, h)[c]
    BY <1>1, BlindAlike DEF Knows
  <2> QED
    BY <1>1, <2>1, LimitMeaning
<1>2. ASSUME NEW c \in Calls, NEW e \in Calls, Alike(c, e), Limit(d)[c] # Circular
      PROVE  Limit(d)[e] = Limit(d)[c]
  <2>1. PICK h \in Nat : Blind(d, h)[c] = Limit(d)[c]
    BY <1>2, LimitMeaning
  <2> QED
    BY <1>1, <1>2, <2>1
<1>3. \A h \in Nat : Knows(Blind(d, h), Limit(d))
  BY <1>1 DEF Knows
<1>4. Knows(Limit(d), Limit(d))
  BY <1>2 DEF Knows
<1> QED
  BY <1>3, <1>4

\* From some level on the results F are r.
Settles(F, r) == \E h \in Nat : \A g \in Nat : h <= g => F[g] = r

\* Results that settle one by one settle together.
LEMMA SettledChain ==
    ASSUME NEW F, NEW r, NEW n \in Nat,
           \A i \in 1 .. n : r[i] # Circular => Settles([g \in Nat |-> F[g][i]], r[i])
    PROVE  \A k \in 0 .. n : Chained(r, k) # Circular => Settles([g \in Nat |-> Chained(F[g], k)], Chained(r, k))
<1> DEFINE P(k) == Chained(r, k) # Circular => Settles([g \in Nat |-> Chained(F[g], k)], Chained(r, k))
           S == {k \in Nat : k <= n => P(k)}
<1>1. 0 \in S
  <2>1. \A g \in Nat : Chained(F[g], 0) = Chained(r, 0)
    BY ChainedTurns
  <2> QED
    BY <2>1 DEF Settles
<1>2. ASSUME NEW k \in Nat, k \in S PROVE k + 1 \in S
  <2>1. SUFFICES ASSUME k + 1 <= n, Chained(r, k + 1) # Circular
                 PROVE  Settles([g \in Nat |-> Chained(F[g], k + 1)], Chained(r, k + 1))
    OBVIOUS
  <2>2. /\ Chained(r, k + 1) = Then(Chained(r, k), r[k + 1])
        /\ \A g \in Nat : Chained(F[g], k + 1) = Then(Chained(F[g], k), F[g][k + 1])
    BY ChainedTurns
  <2>3. Chained(r, k) # Circular
    BY <2>1, <2>2 DEF Then, Circular, Bad
  <2>4. PICK h \in Nat : \A g \in Nat : h <= g => Chained(F[g], k) = Chained(r, k)
    BY <1>2, <2>1, <2>3 DEF Settles
  <2>5. CASE Chained(r, k).t = "error"
    <3>1. \A g \in Nat : h <= g => Chained(F[g], k + 1) = Chained(r, k + 1)
      BY <2>2, <2>4, <2>5 DEF Then
    <3> QED
      BY <3>1 DEF Settles
  <2>6. CASE Chained(r, k).t # "error"
    <3>1. r[k + 1] # Circular
      BY <2>1, <2>2, <2>6 DEF Then, Circular, Bad
    <3>2. k + 1 \in 1 .. n
      BY <2>1
    <3>3. PICK j \in Nat : \A g \in Nat : j <= g => F[g][k + 1] = r[k + 1]
      BY <3>1, <3>2 DEF Settles
    <3>4. \A g \in Nat : h + j <= g => Chained(F[g], k + 1) = Chained(r, k + 1)
      <4>1. ASSUME NEW g \in Nat, h + j <= g PROVE h <= g /\ j <= g
        BY <4>1
      <4> QED
        BY <4>1, <2>2, <2>4, <3>3
    <3>5. h + j \in Nat
      OBVIOUS
    <3> QED
      BY <3>4, <3>5 DEF Settles
  <2> QED
    BY <2>5, <2>6
<1> HIDE DEF S
<1>3. \A k \in Nat : k \in S
  BY <1>1, <1>2, Induct
<1> QED
  BY <1>3 DEF S

\* What a source, a path, an include, a package and the items of a call bring in
\* at the limit, they bring in at every level that is deep enough.
LEMMA SourceSettles ==
    ASSUME NEW d, DiskOK(d), NEW content, content.items \in ItemLists,
           NEW name \in Names, NEW dir \in Dirs,
           OfSource(Limit(d), content, name, dir, {}) # Circular
    PROVE  Settles([g \in Nat |-> OfSource(Blind(d, g), content, name, dir, {})],
                   OfSource(Limit(d), content, name, dir, {}))
<1> DEFINE c == Call(content.items, name, dir, {} \cup {name})
<1>1. CASE content.t \in {"broken", "array"}
  <2>1. \A g \in Nat : 0 <= g => OfSource(Blind(d, g), content, name, dir, {}) = OfSource(Limit(d), content, name, dir, {})
    BY <1>1 DEF OfSource
  <2> QED
    BY <2>1 DEF Settles
<1>2. CASE content.t \notin {"broken", "array"}
  <2>1. \A m : OfSource(m, content, name, dir, {}) = m[c]
    BY <1>2 DEF OfSource
  <2>2. c \in Calls
    BY CallTyped
  <2> HIDE DEF c
  <2>3. PICK h \in Nat : Blind(d, h)[c] = Limit(d)[c]
    BY <2>1, <2>2, LimitMeaning
  <2>4. \A g \in Nat : h <= g => Blind(d, g)[c] = Limit(d)[c]
    BY <2>1, <2>2, <2>3, BlindGrows
  <2>5. \A g \in Nat : h <= g => OfSource(Blind(d, g), content, name, dir, {}) = OfSource(Limit(d), content, name, dir, {})
    BY <2>1, <2>4
  <2> QED
    BY <2>5 DEF Settles
<1> QED
  BY <1>1, <1>2

LEMMA PathSettles ==
    ASSUME NEW d, DiskOK(d), NEW p, OfPath(d, Limit(d), p, {}) # Circular
    PROVE  Settles([g \in Nat |-> OfPath(d, Blind(d, g), p, {})], OfPath(d, Limit(d), p, {}))
<1>1. CASE Held(d, p) = Missing \/ p.ext = "properties"
  <2>1. \A g \in Nat : 0 <= g => OfPath(d, Blind(d, g), p, {}) = OfPath(d, Limit(d), p, {})
    BY <1>1 DEF OfPath
  <2> QED
    BY <2>1 DEF Settles
<1>2. CASE Held(d, p) # Missing /\ p.ext # "properties"
  <2>1. \A m : OfPath(d, m, p, {}) = OfSource(m, Held(d, p), Locate[p], p.dir, {})
    BY <1>2 DEF OfPath
  <2>2. Settles([g \in Nat |-> OfSource(Blind(d, g), Held(d, p), Locate[p], p.dir, {})],
                OfSource(Limit(d), Held(d, p), Locate[p], p.dir, {}))
    BY <1>2, <2>1, HeldTyped, SourceSettles
  <2> QED
    BY <2>1, <2>2 DEF Settles
<1> QED
  BY <1>1, <1>2

LEMMA PathsSettle ==
    ASSUME NEW d, DiskOK(d), NEW paths, Len(paths) \in Nat, NEW n \in 0 .. Len(paths),
           OfPaths(d, Limit(d), paths, {}, n) # Circular
    PROVE  Settles([g \in Nat |-> OfPaths(d, Blind(d, g), paths, {}, n)], OfPaths(d, Limit(d), paths, {}, n))
<1> DEFINE r(m) == [i \in 1 .. Len(paths) |-> OfPath(d, m, paths[i], {})]
           F == [g \in Nat |-> r(Blind(d, g))]
           q == r(Limit(d))
<1>1. \A m : OfPaths(d, m, paths, {}, n) = Chained(r(m), n)
  BY DEF OfPaths
<1>2. ASSUME NEW i \in 1 .. n, q[i] # Circular PROVE Settles([g \in Nat |-> F[g][i]], q[i])
  <2>1. i \in 1 .. Len(paths)
    OBVIOUS
  <2>2. \A m : r(m)[i] = OfPath(d, m, paths[i], {})
    BY <2>1
  <2> HIDE DEF r
  <2> QED
    BY <1>2, <2>2, PathSettles DEF Settles
<1> HIDE DEF r
<1>3. n \in Nat /\ n \in 0 .. n
  OBVIOUS
<1>4. Chained(q, n) # Circular
  BY <1>1
<1> HIDE DEF F, q
<1>5. Settles([g \in Nat |-> Chained(F[g], n)], Chained(q, n))
  BY <1>2, <1>3, <1>4, SettledChain
<1> QED
  BY <1>1, <1>5 DEF Settles, F, q

LEMMA IncludeSettles ==
    ASSUME NEW d, DiskOK(d), NEW item, NEW dir, OfInclude(d, Limit(d), item, dir, {}) # Circular
    PROVE  Settles([g \in Nat |-> OfInclude(d, Blind(d, g), item, dir, {})], OfInclude(d, Limit(d), item, dir, {}))
<1> DEFINE paths == Candidates(item, dir)
           none  == item.required /\ \A i \in 1 .. Len(paths) : Held(d, paths[i]) = Missing
<1>1. Len(paths) \in Nat /\ Len(paths) \in 0 .. Len(paths)
  BY CandidatesTyped
<1>2. \A m : OfInclude(d, m, item, dir, {}) = IF none THEN Bad("required") ELSE OfPaths(d, m, paths, {}, Len(paths))
  BY DEF OfInclude
<1> HIDE DEF paths, none
<1>3. CASE none
  <2>1. \A g \in Nat : 0 <= g => OfInclude(d, Blind(d, g), item, dir, {}) = OfInclude(d, Limit(d), item, dir, {})
    BY <1>2, <1>3
  <2> QED
    BY <2>1 DEF Settles
<1>4. CASE ~none
  <2>1. \A m : OfInclude(d, m, item, dir, {}) = OfPaths(d, m, paths, {}, Len(paths))
    BY <1>2, <1>4
  <2>2. Settles([g \in Nat |-> OfPaths(d, Blind(d, g), paths, {}, Len(paths))], OfPaths(d, Limit(d), paths, {}, Len(paths)))
    BY <1>1, <2>1, PathsSettle
  <2> QED
    BY <2>1, <2>2 DEF Settles
<1> QED
  BY <1>3, <1>4

LEMMA PackageSettles ==
    ASSUME NEW d, DiskOK(d), NEW key, OfPackage(Limit(d), key, {}) # Circular
    PROVE  Settles([g \in Nat |-> OfPackage(Blind(d, g), key, {})], OfPackage(Limit(d), key, {}))
<1>1. CASE key \notin DOMAIN Registry
  <2>1. \A g \in Nat : 0 <= g => OfPackage(Blind(d, g), key, {}) = OfPackage(Limit(d), key, {})
    BY <1>1 DEF OfPackage
  <2> QED
    BY <2>1 DEF Settles
<1>2. CASE key \in DOMAIN Registry
  <2>1. \A m : OfPackage(m, key, {}) = OfSource(m, Registry[key], key.package, Cwd, {})
    BY <1>2 DEF OfPackage
  <2>2. Settles([g \in Nat |-> OfSource(Blind(d, g), Registry[key], key.package, Cwd, {})],
                OfSource(Limit(d), Registry[key], key.package, Cwd, {}))
    BY <1>2, <2>1, RegistryTyped, SourceSettles
  <2> QED
    BY <2>1, <2>2 DEF Settles
<1> QED
  BY <1>1, <1>2

LEMMA ItemSettles ==
    ASSUME NEW d, DiskOK(d), NEW item, NEW c, OfItem(d, Limit(d), item, c, {}) # Circular
    PROVE  Settles([g \in Nat |-> OfItem(d, Blind(d, g), item, c, {})], OfItem(d, Limit(d), item, c, {}))
<1>1. CASE item.t = "own"
  <2>1. \A g \in Nat : 0 <= g => OfItem(d, Blind(d, g), item, c, {}) = OfItem(d, Limit(d), item, c, {})
    BY <1>1 DEF OfItem
  <2> QED
    BY <2>1 DEF Settles
<1>2. CASE item.t = "package"
  <2>1. \A m : OfItem(d, m, item, c, {}) = OfPackage(m, item.key, {})
    BY <1>2 DEF OfItem
  <2>2. Settles([g \in Nat |-> OfPackage(Blind(d, g), item.key, {})], OfPackage(Limit(d), item.key, {}))
    BY <2>1, PackageSettles
  <2> QED
    BY <2>1, <2>2 DEF Settles
<1>3. CASE item.t \notin {"own", "package"}
  <2>1. \A m : OfItem(d, m, item, c, {}) = OfInclude(d, m, item, c.dir, {})
    BY <1>3 DEF OfItem
  <2>2. Settles([g \in Nat |-> OfInclude(d, Blind(d, g), item, c.dir, {})], OfInclude(d, Limit(d), item, c.dir, {}))
    BY <2>1, IncludeSettles
  <2> QED
    BY <2>1, <2>2 DEF Settles
<1> QED
  BY <1>1, <1>2, <1>3

LEMMA ItemsSettle ==
    ASSUME NEW d, DiskOK(d), NEW c \in Calls, NEW n \in 0 .. Len(c.items),
           OfItems(d, Limit(d), c, {}, n) # Circular
    PROVE  Settles([g \in Nat |-> OfItems(d, Blind(d, g), c, {}, n)], OfItems(d, Limit(d), c, {}, n))
<1> DEFINE r(m) == [i \in 1 .. Len(c.items) |-> OfItem(d, m, c.items[i], c, {})]
           F == [g \in Nat |-> r(Blind(d, g))]
           q == r(Limit(d))
<1>1. \A m : OfItems(d, m, c, {}, n) = Chained(r(m), n)
  BY DEF OfItems
<1>2. Len(c.items) \in Nat
  BY ItemsTyped
<1>3. ASSUME NEW i \in 1 .. n, q[i] # Circular PROVE Settles([g \in Nat |-> F[g][i]], q[i])
  <2>1. i \in 1 .. Len(c.items)
    BY <1>2
  <2>2. \A m : r(m)[i] = OfItem(d, m, c.items[i], c, {})
    BY <2>1
  <2> HIDE DEF r
  <2>3. OfItem(d, Limit(d), c.items[i], c, {}) # Circular
    BY <1>3, <2>2
  <2>4. PICK h \in Nat : \A g \in Nat : h <= g => [j \in Nat |-> OfItem(d, Blind(d, j), c.items[i], c, {})][g] = OfItem(d, Limit(d), c.items[i], c, {})
    BY <2>3, ItemSettles DEF Settles
  <2>5. \A g \in Nat : h <= g => F[g][i] = q[i]
    BY <2>2, <2>4
  <2> HIDE DEF F, q
  <2> QED
    BY <2>5 DEF Settles
<1> HIDE DEF r
<1>4. n \in Nat /\ n \in 0 .. n
  BY <1>2
<1>5. Chained(q, n) # Circular
  BY <1>1
<1> HIDE DEF F, q
<1>6. Settles([g \in Nat |-> Chained(F[g], n)], Chained(q, n))
  BY <1>3, <1>4, <1>5, SettledChain
<1> QED
  BY <1>1, <1>6 DEF Settles, F, q

\* So the limit is what the items of every source bring in at the limit.
LEMMA LimitTurns ==
    ASSUME NEW d, DiskOK(d), NEW c \in Calls
    PROVE  Limit(d)[c] = OfItems(d, Limit(d), c, {}, Len(c.items))
<1>1. Len(c.items) \in Nat /\ Len(c.items) \in 0 .. Len(c.items)
  BY ItemsTyped
<1>2. ASSUME NEW h \in Nat
      PROVE  h + 1 \in Nat /\ Blind(d, h + 1)[c] = OfItems(d, Blind(d, h), c, {}, Len(c.items))
  <2>1. Blind(d, h + 1) = Inner(d, Blind(d, h))
    BY BlindTurns
  <2> QED
    BY <2>1 DEF Inner
<1>3. CASE Limit(d)[c] # Circular
  <2>1. PICK h \in Nat : Blind(d, h)[c] = Limit(d)[c]
    BY <1>3, LimitMeaning
  <2>2. Blind(d, h + 1)[c] = Limit(d)[c] /\ h + 1 \in Nat
    BY <1>3, <2>1, BlindGrows
  <2>3. OfItems(d, Blind(d, h), c, {}, Len(c.items)) # Circular
    BY <1>2, <1>3, <2>2
  <2>4. OfItems(d, Limit(d), c, {}, Len(c.items)) = OfItems(d, Blind(d, h), c, {}, Len(c.items))
    <3>1. Knows(Blind(d, h), Limit(d)) /\ Alike(c, c) /\ {} \in SUBSET Names
      BY LimitKnows DEF Alike
    <3> QED
      BY <1>1, <2>3, <3>1, ItemsKnown
  <2> QED
    BY <1>2, <2>2, <2>4
<1>4. CASE OfItems(d, Limit(d), c, {}, Len(c.items)) # Circular
  <2>1. PICK h \in Nat : \A g \in Nat : h <= g => OfItems(d, Blind(d, g), c, {}, Len(c.items)) = OfItems(d, Limit(d), c, {}, Len(c.items))
    BY <1>1, <1>4, ItemsSettle DEF Settles
  <2>2. h <= h => [g \in Nat |-> OfItems(d, Blind(d, g), c, {}, Len(c.items))][h] = OfItems(d, Limit(d), c, {}, Len(c.items))
    BY <2>1
  <2>3. Blind(d, h + 1)[c] = OfItems(d, Limit(d), c, {}, Len(c.items)) /\ h + 1 \in Nat
    BY <1>2, <2>2
  <2> QED
    BY <1>4, <2>3, LimitMeaning
<1> QED
  BY <1>3, <1>4

(* ----------------------- paths that do not go up ----------------------- *)
PlainDisk(d) ==
    /\ Unlinked /\ ~Upward(Cwd)
    /\ \A f \in File : ~GoesUp(d[f].items)
    /\ \A k \in DOMAIN Registry : ~GoesUp(Registry[k].items)

\* Calls that are one source under two paths, neither of which goes up.
SameDirs(a, b) ==
    \E p, q \in DOMAIN Locate :
        Locate[p] = Locate[q] /\ ~Upward(p.dir) /\ ~Upward(q.dir) /\ a = p.dir /\ b = q.dir
Twins(c, e) ==
    c.items = e.items /\ ~GoesUp(c.items) /\ c.name = e.name /\ (c.dir = e.dir \/ SameDirs(c.dir, e.dir))
Agree(m) == \A c, e \in Calls : Twins(c, e) => m[c] = m[e]

\* Two directories that do not go up, one under the other,
LEMMA JoinPlain ==
    ASSUME NEW a, IsSequence(a), ~Upward(a), NEW b, IsSequence(b), ~Upward(b)
    PROVE  ~Upward(Join(a, b))
<1>1. a \in Seq({a[i] : i \in DOMAIN a}) /\ b \in Seq({b[i] : i \in DOMAIN b})
  BY DEF IsSequence
<1>2. ~Upward(a \o b)
  <2>1. SUFFICES ASSUME NEW i \in 1 .. Len(a \o b), (a \o b)[i] = ".." PROVE FALSE
    BY DEF Upward
  <2>2. PICK A, E : a \in Seq(A) /\ b \in Seq(E)
    BY <1>1
  <2>3. Len(a \o b) = Len(a) + Len(b) /\ Len(a) \in Nat /\ Len(b) \in Nat
    BY <2>2
  <2>4. CASE i <= Len(a)
    <3>1. i \in 1 .. Len(a) /\ (a \o b)[i] = a[i]
      BY <2>2, <2>3, <2>4
    <3> QED
      BY <2>1, <3>1 DEF Upward
  <2>5. CASE i > Len(a)
    <3>1. i - Len(a) \in 1 .. Len(b) /\ (a \o b)[i] = b[i - Len(a)]
      BY <2>2, <2>3, <2>5
    <3> QED
      BY <2>1, <3>1 DEF Upward
  <2> QED
    BY <2>3, <2>4, <2>5
<1> QED
  BY <1>2 DEF Join

\* The candidates of a directive in two directories are of the same kinds, and
\* none goes up where neither the directory nor the directive does.
LEMMA CandidatesAlike ==
    ASSUME NEW item, NEW a, NEW b
    PROVE  /\ Len(Candidates(item, a)) = Len(Candidates(item, b))
           /\ \A i \in 1 .. Len(Candidates(item, a)) :
                  /\ Candidates(item, a)[i].ext = Candidates(item, b)[i].ext
                  /\ Candidates(item, a)[i].dir = Join(IF item.cwd THEN Cwd ELSE a, item.dir)
<1> DEFINE path(dir, ext) == [dir |-> Join(IF item.cwd THEN Cwd ELSE dir, item.dir), stem |-> item.stem, ext |-> ext]
<1>1. \A dir, ext : path(dir, ext).ext = ext /\ path(dir, ext).dir = Join(IF item.cwd THEN Cwd ELSE dir, item.dir)
  OBVIOUS
<1>2. CASE item.ext # ""
  <2>1. \A dir : Candidates(item, dir) = <<path(dir, item.ext)>>
    BY <1>2 DEF Candidates
  <2> HIDE DEF path
  <2> QED
    BY <1>1, <2>1
<1>3. CASE item.ext = ""
  <2>1. \A dir : Candidates(item, dir) = <<path(dir, "properties"), path(dir, "json"), path(dir, "conf")>>
    BY <1>3 DEF Candidates
  <2> HIDE DEF path
  <2>2. \A dir : /\ Len(Candidates(item, dir)) = 3
                 /\ Candidates(item, dir)[1] = path(dir, "properties")
                 /\ Candidates(item, dir)[2] = path(dir, "json")
                 /\ Candidates(item, dir)[3] = path(dir, "conf")
    BY <2>1
  <2>3. \A i \in 1 .. 3 : i = 1 \/ i = 2 \/ i = 3
    OBVIOUS
  <2> QED
    BY <1>1, <2>2, <2>3
<1> QED
  BY <1>2, <1>3

\* The candidates of an include that does not go up do not.
LEMMA CandidatesPlain ==
    ASSUME ~Upward(Cwd), NEW item \in Directives, ~Upward(item.dir), NEW dir \in Dirs, ~Upward(dir),
           NEW i \in 1 .. Len(Candidates(item, dir))
    PROVE  ~Upward(Candidates(item, dir)[i].dir)
<1>1. Candidates(item, dir)[i].dir = Join(IF item.cwd THEN Cwd ELSE dir, item.dir)
  BY CandidatesAlike
<1>2. IsSequence(item.dir) /\ IsSequence(dir)
  BY SourcesAssumption
<1>3. IsSequence(Cwd)
  BY SourcesAssumption DEF Dirs
<1> QED
  BY <1>1, <1>2, <1>3, JoinPlain

\* The directives of a call are directives, and plain where the call is.
LEMMA DirectivesOfCalls ==
    ASSUME NEW c \in Calls, ~GoesUp(c.items), NEW i \in 1 .. Len(c.items), c.items[i].t = "include"
    PROVE  c.items[i] \in Directives /\ ~Upward(c.items[i].dir)
<1>1. c.items \in ItemLists /\ i \in DOMAIN c.items
  BY ItemsTyped
<1>2. c.items[i] \in {c.items[j] : j \in {k \in DOMAIN c.items : c.items[k].t = "include"}}
  BY <1>1
<1>3. c.items[i] \in Directives
  BY <1>1, <1>2 DEF Directives
<1> QED
  BY <1>3 DEF GoesUp

\* One source brings in the same under both paths.
LEMMA TwinPaths ==
    ASSUME NEW d, DiskOK(d), PlainDisk(d), NEW m, Agree(m), NEW p, NEW q, SameFile(p, q), p.ext = q.ext,
           ~Upward(p.dir), ~Upward(q.dir)
    PROVE  OfPath(d, m, p, {}) = OfPath(d, m, q, {})
<1>1. Held(d, p) = Held(d, q)
  BY DEF Held, SameFile
<1>2. CASE Held(d, p) = Missing
  BY <1>1, <1>2 DEF OfPath
<1>3. CASE Held(d, p) # Missing
  <2>1. /\ p \in DOMAIN Locate /\ q \in DOMAIN Locate /\ Locate[p] = Locate[q] /\ Locate[p] \in File
        /\ Locate[p] \in Names /\ Held(d, p) = d[Locate[p]] /\ Held(d, p).items \in ItemLists
        /\ p.dir \in Dirs /\ q.dir \in Dirs
    BY <1>1, <1>3, HeldTyped DEF SameFile
  <2>2. CASE p.ext = "properties"
    BY <1>1, <1>3, <2>1, <2>2 DEF OfPath
  <2>3. CASE p.ext # "properties"
    <3> DEFINE c == Call(Held(d, p).items, Locate[p], p.dir, {} \cup {Locate[p]})
               e == Call(Held(d, p).items, Locate[p], q.dir, {} \cup {Locate[p]})
    <3>1. /\ OfPath(d, m, p, {}) = OfSource(m, Held(d, p), Locate[p], p.dir, {})
          /\ OfPath(d, m, q, {}) = OfSource(m, Held(d, p), Locate[p], q.dir, {})
      BY <1>1, <1>3, <2>1, <2>3 DEF OfPath
    <3>2. c \in Calls /\ e \in Calls
      BY <2>1, CallTyped
    <3>3. SameDirs(p.dir, q.dir)
      BY <2>1 DEF SameDirs
    <3>4. ~GoesUp(Held(d, p).items)
      BY <2>1 DEF PlainDisk
    <3>5. Twins(c, e)
      BY <3>3, <3>4 DEF Twins, Call
    <3>6. m[c] = m[e]
      BY <3>2, <3>5 DEF Agree
    <3>7. /\ OfSource(m, Held(d, p), Locate[p], p.dir, {}) =
                 IF Held(d, p).t = "broken" THEN Bad("syntax")
                 ELSE IF Held(d, p).t = "array" THEN Bad("array root") ELSE m[c]
          /\ OfSource(m, Held(d, p), Locate[p], q.dir, {}) =
                 IF Held(d, p).t = "broken" THEN Bad("syntax")
                 ELSE IF Held(d, p).t = "array" THEN Bad("array root") ELSE m[e]
      BY DEF OfSource
    <3> HIDE DEF c, e
    <3> QED
      BY <3>1, <3>6, <3>7
  <2> QED
    BY <2>2, <2>3
<1> QED
  BY <1>2, <1>3

\* and so do their includes,
LEMMA TwinIncludes ==
    ASSUME NEW d, DiskOK(d), PlainDisk(d), NEW m, Agree(m), NEW item \in Directives, ~Upward(item.dir),
           NEW a \in Dirs, NEW b \in Dirs, SameDirs(a, b)
    PROVE  OfInclude(d, m, item, a, {}) = OfInclude(d, m, item, b, {})
<1> DEFINE l == Len(Candidates(item, a))
<1>1. Len(Candidates(item, b)) = l /\ \A i \in 1 .. l : Candidates(item, a)[i].ext = Candidates(item, b)[i].ext
  BY CandidatesAlike
<1>2. \A i \in 1 .. l : SameFile(Candidates(item, a)[i], Candidates(item, b)[i])
  BY DEF PlainDisk, Unlinked, SameDirs
<1>3. ~Upward(a) /\ ~Upward(b)
  BY DEF SameDirs
<1>4. \A i \in 1 .. l : ~Upward(Candidates(item, a)[i].dir) /\ ~Upward(Candidates(item, b)[i].dir)
  BY <1>1, <1>3, CandidatesPlain DEF PlainDisk
<1>5. \A i \in 1 .. l : OfPath(d, m, Candidates(item, a)[i], {}) = OfPath(d, m, Candidates(item, b)[i], {})
  BY <1>1, <1>2, <1>4, TwinPaths
<1>6. \A i \in 1 .. l : Held(d, Candidates(item, a)[i]) = Held(d, Candidates(item, b)[i])
  BY <1>2 DEF Held, SameFile
<1>7. [i \in 1 .. l |-> OfPath(d, m, Candidates(item, a)[i], {})] = [i \in 1 .. l |-> OfPath(d, m, Candidates(item, b)[i], {})]
  BY <1>5
<1>8. OfPaths(d, m, Candidates(item, a), {}, l) = OfPaths(d, m, Candidates(item, b), {}, l)
  BY <1>1, <1>7 DEF OfPaths
<1> QED
  BY <1>1, <1>6, <1>8 DEF OfInclude

\* their items, a level at a time,
LEMMA TwinItems ==
    ASSUME NEW d, DiskOK(d), PlainDisk(d), NEW m, Agree(m)
    PROVE  Agree(Inner(d, m))
<1>1. SUFFICES ASSUME NEW c \in Calls, NEW e \in Calls, Twins(c, e) PROVE Inner(d, m)[c] = Inner(d, m)[e]
  BY DEF Agree
<1>2. c.items = e.items /\ c.name = e.name /\ ~GoesUp(c.items) /\ (c.dir = e.dir \/ SameDirs(c.dir, e.dir))
  BY <1>1 DEF Twins
<1>3. c.items \in ItemLists /\ c.dir \in Dirs /\ e.dir \in Dirs
  BY ItemsTyped
<1>4. ASSUME NEW i \in 1 .. Len(c.items) PROVE OfItem(d, m, c.items[i], c, {}) = OfItem(d, m, e.items[i], e, {})
  <2>1. c.items[i].t \in {"own", "include", "package"}
    BY <1>3, SourcesAssumption
  <2>2. CASE c.items[i].t # "include"
    BY <1>2, <2>1, <2>2 DEF OfItem
  <2>3. CASE c.items[i].t = "include"
    <3>1. OfItem(d, m, c.items[i], c, {}) = OfInclude(d, m, c.items[i], c.dir, {})
      BY <2>3 DEF OfItem
    <3>2. OfItem(d, m, e.items[i], e, {}) = OfInclude(d, m, c.items[i], e.dir, {})
      BY <1>2, <2>3 DEF OfItem
    <3>3. CASE c.dir = e.dir
      BY <3>1, <3>2, <3>3
    <3>4. CASE SameDirs(c.dir, e.dir)
      <4>1. c.items[i] \in Directives /\ ~Upward(c.items[i].dir)
        BY <1>2, <2>3, DirectivesOfCalls
      <4> QED
        BY <1>3, <3>1, <3>2, <3>4, <4>1, TwinIncludes
    <3> QED
      BY <1>2, <3>3, <3>4
  <2> QED
    BY <2>2, <2>3
<1>5. [i \in 1 .. Len(c.items) |-> OfItem(d, m, c.items[i], c, {})] = [i \in 1 .. Len(e.items) |-> OfItem(d, m, e.items[i], e, {})]
  BY <1>2, <1>4
<1>6. OfItems(d, m, c, {}, Len(c.items)) = OfItems(d, m, e, {}, Len(e.items))
  BY <1>2, <1>5 DEF OfItems
<1> QED
  BY <1>6 DEF Inner

\* and what they bring in.
LEMMA TwinsAgree ==
    ASSUME NEW d, DiskOK(d), PlainDisk(d)
    PROVE  \A n \in Nat : Agree(Blind(d, n))
<1> DEFINE S == {n \in Nat : Agree(Blind(d, n))}
<1>1. 0 \in S
  BY BlindTurns DEF Agree, Flat
<1>2. ASSUME NEW n \in Nat, n \in S PROVE n + 1 \in S
  <2>1. Blind(d, n + 1) = Inner(d, Blind(d, n)) /\ n + 1 \in Nat
    BY BlindTurns
  <2>2. Agree(Inner(d, Blind(d, n)))
    BY <1>2, TwinItems
  <2> QED
    BY <2>1, <2>2
<1> HIDE DEF S
<1>3. \A k \in Nat : k \in S
  BY <1>1, <1>2, Induct
<1> QED
  BY <1>3 DEF S

\* Sources as they are called, under a path that does not go up.
Placed(d, y) ==
    \/ \E p \in DOMAIN Locate :
           /\ Held(d, p) # Missing /\ ~Upward(p.dir)
           /\ y.items = d[Locate[p]].items /\ y.name = Locate[p] /\ y.dir = p.dir
    \/ \E k \in DOMAIN Registry :
           y.items = Registry[k].items /\ y.name = k.package /\ y.dir = Cwd

\* The sources that are open can be built, and none of them is as shallow as h.
Whole(d, open) ==
    /\ \A f \in File : f \in open => d[f].t \notin {"broken", "array"}
    /\ \A k \in DOMAIN Registry : k.package \in open => Registry[k].t \notin {"broken", "array"}
Fresh(d, h, open) ==
    Whole(d, open) /\ \A y \in Calls : Placed(d, y) /\ y.name \in open => Blind(d, h - 1)[y] = Circular

\* What is found at a depth of h without a watch is found by one who watches.
Found(d, h) ==
    \A n \in Nat, c \in Calls :
        /\ ~Upward(c.dir) /\ ~GoesUp(c.items) /\ Fresh(d, h, c.open)
        /\ n + Cardinality(c.open) > Cardinality(Names)
        /\ Blind(d, h)[c] # Circular
        => Expand(d, n)[c] = Blind(d, h)[c]

\* Where a source at a depth of h is expanded.
Ready(d, h, n, open) ==
    /\ DiskOK(d) /\ PlainDisk(d)
    /\ \A g \in Nat : g < h => Found(d, g)
    /\ h \in Nat /\ h > 0 /\ n \in Nat /\ open \in SUBSET Names
    /\ (n + 1) + Cardinality(open) > Cardinality(Names)
    /\ Fresh(d, h, open)

\* There are finitely many names.
LEMMA NamesFinite == IsFiniteSet(Names) /\ Cardinality(Names) \in Nat
<1>1. IsFiniteSet({"top"}) /\ IsFiniteSet(File)
  BY FilesAssumption, FS_Singleton
<1>2. IsFiniteSet({key.package : key \in DOMAIN Registry})
  <2> DEFINE f == [key \in DOMAIN Registry |-> key.package]
  <2>1. f \in Surjection(DOMAIN Registry, {key.package : key \in DOMAIN Registry})
    BY DEF Surjection
  <2> QED
    BY <2>1, FilesAssumption, FS_Surjection
<1> QED
  BY <1>1, <1>2, FS_Union, FS_CardinalityType DEF Names

\* Two sources of one name hold the same.
LEMMA PlacedTwins ==
    ASSUME NEW d, DiskOK(d), PlainDisk(d), NEW y, Placed(d, y), NEW z, Placed(d, z), y.name = z.name
    PROVE  Twins(y, z) /\ ~GoesUp(y.items) /\ ~Upward(y.dir)
<1>1. \A p \in DOMAIN Locate : Locate[p] \in File /\ ~GoesUp(d[Locate[p]].items)
  BY FilesAssumption DEF PlainDisk
<1>2. \A k \in DOMAIN Registry : k.package \notin File /\ k = [package |-> k.package] /\ ~GoesUp(Registry[k].items)
  BY SourcesAssumption DEF PlainDisk
<1>3. ~Upward(Cwd)
  BY DEF PlainDisk
<1>4. CASE y.name \in File
  <2>1. PICK p \in DOMAIN Locate : ~Upward(p.dir) /\ y.items = d[Locate[p]].items /\ y.name = Locate[p] /\ y.dir = p.dir
    BY <1>2, <1>4 DEF Placed
  <2>2. PICK q \in DOMAIN Locate : ~Upward(q.dir) /\ z.items = d[Locate[q]].items /\ z.name = Locate[q] /\ z.dir = q.dir
    BY <1>2, <1>4 DEF Placed
  <2>3. SameDirs(y.dir, z.dir)
    BY <2>1, <2>2 DEF SameDirs
  <2> QED
    BY <1>1, <2>1, <2>2, <2>3 DEF Twins
<1>5. CASE y.name \notin File
  <2>1. PICK k \in DOMAIN Registry : y.items = Registry[k].items /\ y.name = k.package /\ y.dir = Cwd
    BY <1>1, <1>5 DEF Placed
  <2>2. PICK l \in DOMAIN Registry : z.items = Registry[l].items /\ z.name = l.package /\ z.dir = Cwd
    BY <1>1, <1>5 DEF Placed
  <2>3. k = l
    BY <1>2, <2>1, <2>2
  <2> QED
    BY <1>2, <1>3, <2>1, <2>2, <2>3 DEF Twins
<1> QED
  BY <1>4, <1>5

\* There is a least of some numbers.
LEMMA Least ==
    ASSUME NEW S, NEW n \in Nat, n \in S
    PROVE  \E h \in Nat : h \in S /\ h <= n /\ \A g \in Nat : g < h => g \notin S
<1> DEFINE R == {k \in Nat : \A g \in Nat : g <= k => g \notin S}
<1>1. SUFFICES ASSUME \A h \in Nat : h \in S /\ h <= n => \E g \in Nat : g < h /\ g \in S PROVE FALSE
  OBVIOUS
<1> DEFINE Q == {k \in Nat : k <= n => k \in R}
<1>2. 0 \in Q
  BY <1>1
<1>3. ASSUME NEW k \in Nat, k \in Q PROVE k + 1 \in Q
  <2>1. SUFFICES ASSUME k + 1 <= n PROVE k + 1 \in R
    OBVIOUS
  <2>2. \A g \in Nat : g <= k => g \notin S
    BY <1>3, <2>1
  <2>3. k + 1 \notin S
    <3>1. \A g \in Nat : g < k + 1 => g <= k
      OBVIOUS
    <3> QED
      BY <1>1, <2>1, <2>2, <3>1
  <2>4. \A g \in Nat : g <= k + 1 => g <= k \/ g = k + 1
    OBVIOUS
  <2> QED
    BY <2>2, <2>3, <2>4
<1> HIDE DEF Q
<1>4. \A k \in Nat : k \in Q
  BY <1>2, <1>3, Induct
<1> QED
  BY <1>4 DEF Q

\* A source y inside that is found as e without a watch.
Inside(d, h, open, y, e) ==
    /\ y \in Calls /\ Placed(d, y) /\ y.open = open \cup {y.name} /\ Whole(d, y.open)
    /\ e \in Calls /\ Alike(e, y) /\ Blind(d, h - 1)[e] # Circular

\* It is not open, and is found as well.
LEMMA InsideFound ==
    ASSUME NEW d, NEW h, NEW n, NEW open, Ready(d, h, n, open), NEW y, NEW e, Inside(d, h, open, y, e)
    PROVE  y.name \notin open /\ Expand(d, n)[y] = Blind(d, h - 1)[e]
<1>1. /\ DiskOK(d) /\ PlainDisk(d) /\ h \in Nat /\ h > 0 /\ h - 1 \in Nat /\ n \in Nat /\ open \in SUBSET Names
      /\ (n + 1) + Cardinality(open) > Cardinality(Names) /\ Fresh(d, h, open)
      /\ \A g \in Nat : g < h => Found(d, g)
  BY DEF Ready
<1>2. /\ y \in Calls /\ Placed(d, y) /\ y.open = open \cup {y.name} /\ Whole(d, y.open)
      /\ e \in Calls /\ Alike(e, y) /\ Blind(d, h - 1)[e] # Circular
  BY DEF Inside
<1>3. Blind(d, h - 1)[y] = Blind(d, h - 1)[e]
  BY <1>1, <1>2, BlindAlike DEF Knows
<1>4. y.name \notin open
  BY <1>1, <1>2, <1>3 DEF Fresh
<1>5. PICK g \in Nat : Blind(d, g)[y] # Circular /\ g <= h - 1 /\ \A i \in Nat : i < g => Blind(d, i)[y] = Circular
  <2> DEFINE S == {i \in Nat : Blind(d, i)[y] # Circular}
  <2>1. h - 1 \in S
    BY <1>1, <1>2, <1>3
  <2> HIDE DEF S
  <2>2. PICK g \in Nat : g \in S /\ g <= h - 1 /\ \A i \in Nat : i < g => i \notin S
    BY <1>1, <1>2, <2>1, Least
  <2> QED
    BY <1>2, <2>2 DEF S
<1>6. g # 0 /\ g - 1 \in Nat /\ g - 1 < g /\ g < h /\ g - 1 <= h - 1
  <2>1. Blind(d, 0)[y] = Circular
    BY <1>1, <1>2, BlindTurns DEF Flat
  <2> QED
    BY <1>1, <1>2, <1>5, <2>1
<1>7. ASSUME NEW z \in Calls, Placed(d, z), z.name \in y.open PROVE Blind(d, g - 1)[z] = Circular
  <2>1. CASE z.name \in open
    <3>1. Blind(d, h - 1)[z] = Circular
      BY <1>1, <1>2, <1>7, <2>1 DEF Fresh
    <3> QED
      BY <1>1, <1>2, <1>6, <3>1, BlindGrows
  <2>2. CASE z.name = y.name
    <3>1. Twins(z, y)
      BY <1>1, <1>2, <1>7, <2>2, PlacedTwins
    <3>2. Blind(d, g - 1)[z] = Blind(d, g - 1)[y]
      BY <1>1, <1>2, <1>6, <3>1, TwinsAgree DEF Agree
    <3> QED
      BY <1>2, <1>5, <1>6, <3>2
  <2> QED
    BY <1>2, <1>7, <2>1, <2>2
<1>8. Fresh(d, g, y.open)
  BY <1>2, <1>4, <1>7 DEF Fresh
<1>9. ~Upward(y.dir) /\ ~GoesUp(y.items)
  BY <1>1, <1>2, PlacedTwins
<1>10. n + Cardinality(y.open) > Cardinality(Names)
  <2>1. IsFiniteSet(open) /\ Cardinality(open) \in Nat /\ Cardinality(Names) \in Nat
    BY <1>1, <1>2, NamesFinite, FS_Subset, FS_CardinalityType
  <2>2. Cardinality(y.open) = Cardinality(open) + 1
    BY <1>2, <1>4, <2>1, FS_AddElement
  <2> QED
    BY <1>1, <1>2, <2>1, <2>2
<1>11. Expand(d, n)[y] = Blind(d, g)[y]
  BY <1>1, <1>2, <1>5, <1>6, <1>8, <1>9, <1>10 DEF Found
<1>12. Blind(d, h - 1)[y] = Blind(d, g)[y]
  BY <1>1, <1>2, <1>5, BlindGrows
<1> QED
  BY <1>2, <1>3, <1>4, <1>11, <1>12

(* -------------------- circles that the watch finds --------------------- *)
\* What the source of a name holds.
Holds(d, name, content) ==
    \/ name \in File /\ content = d[name]
    \/ \E k \in DOMAIN Registry : name = k.package /\ content = Registry[k]

\* A source that can be opened may be among those that are open.
LEMMA WholeGrows ==
    ASSUME NEW d, NEW open, Whole(d, open), NEW name, NEW content, Holds(d, name, content)
    PROVE  /\ name \in open => content.t \notin {"broken", "array"}
           /\ content.t \notin {"broken", "array"} => Whole(d, open \cup {name})
<1>1. \A k \in DOMAIN Registry : k.package \notin File /\ k = [package |-> k.package]
  BY SourcesAssumption
<1>2. CASE name \in File /\ content = d[name]
  BY <1>1, <1>2 DEF Whole
<1>3. CASE \E k \in DOMAIN Registry : name = k.package /\ content = Registry[k]
  <2>1. PICK k \in DOMAIN Registry : name = k.package /\ content = Registry[k]
    BY <1>3
  <2>2. \A l \in DOMAIN Registry : l.package = name => l = k
    BY <1>1, <2>1
  <2>3. name \notin File
    BY <1>1, <2>1
  <2> QED
    BY <2>1, <2>2, <2>3 DEF Whole
<1> QED
  BY <1>2, <1>3 DEF Holds

\* Where the sources inside are found, so are a source, a path, a package, an include
LEMMA SourceFound ==
    ASSUME NEW d, NEW h, NEW n, NEW open, Ready(d, h, n, open),
           NEW content, content.items \in ItemLists, NEW name \in Names, NEW dir \in Dirs,
           Holds(d, name, content), Placed(d, Call(content.items, name, dir, open \cup {name})),
           OfSource(Blind(d, h - 1), content, name, dir, {}) # Circular
    PROVE  OfSource(Expand(d, n), content, name, dir, open) = OfSource(Blind(d, h - 1), content, name, dir, {})
<1> DEFINE y == Call(content.items, name, dir, open \cup {name})
           e == Call(content.items, name, dir, {} \cup {name})
<1>1. Whole(d, open) /\ open \in SUBSET Names
  BY DEF Ready, Fresh
<1>2. CASE content.t \in {"broken", "array"}
  <2>1. name \notin open
    BY <1>1, <1>2, WholeGrows
  <2> QED
    BY <1>2, <2>1 DEF OfSource
<1>3. CASE content.t \notin {"broken", "array"}
  <2>1. Whole(d, open \cup {name})
    BY <1>1, <1>3, WholeGrows
  <2>2. y \in Calls /\ e \in Calls
    BY <1>1, CallTyped
  <2>3. /\ OfSource(Blind(d, h - 1), content, name, dir, {}) = Blind(d, h - 1)[e]
        /\ name \notin open => OfSource(Expand(d, n), content, name, dir, open) = Expand(d, n)[y]
    BY <1>3 DEF OfSource
  <2>4. Alike(e, y) /\ y.name = name /\ y.open = open \cup {name}
    BY DEF Alike, Call
  <2>5. Placed(d, y)
    OBVIOUS
  <2> HIDE DEF y, e
  <2>6. Blind(d, h - 1)[e] # Circular
    BY <2>3
  <2>7. Inside(d, h, open, y, e)
    BY <2>1, <2>2, <2>4, <2>5, <2>6 DEF Inside
  <2>8. y.name \notin open /\ Expand(d, n)[y] = Blind(d, h - 1)[e]
    BY <2>7, InsideFound
  <2> QED
    BY <2>3, <2>4, <2>8
<1> QED
  BY <1>2, <1>3

LEMMA PathFound ==
    ASSUME NEW d, NEW h, NEW n, NEW open, Ready(d, h, n, open), NEW p, ~Upward(p.dir),
           OfPath(d, Blind(d, h - 1), p, {}) # Circular
    PROVE  OfPath(d, Expand(d, n), p, open) = OfPath(d, Blind(d, h - 1), p, {})
<1>1. CASE Held(d, p) = Missing \/ p.ext = "properties"
  BY <1>1 DEF OfPath
<1>2. CASE Held(d, p) # Missing /\ p.ext # "properties"
  <2>1. /\ Held(d, p).items \in ItemLists /\ Locate[p] \in Names /\ p.dir \in Dirs
        /\ p \in DOMAIN Locate /\ Locate[p] \in File /\ Held(d, p) = d[Locate[p]]
    BY <1>2, HeldTyped DEF Ready
  <2>2. Holds(d, Locate[p], Held(d, p))
    BY <2>1 DEF Holds
  <2>3. Placed(d, Call(Held(d, p).items, Locate[p], p.dir, open \cup {Locate[p]}))
    BY <1>2, <2>1 DEF Placed, Call
  <2>4. /\ OfPath(d, Blind(d, h - 1), p, {}) = OfSource(Blind(d, h - 1), Held(d, p), Locate[p], p.dir, {})
        /\ OfPath(d, Expand(d, n), p, open) = OfSource(Expand(d, n), Held(d, p), Locate[p], p.dir, open)
    BY <1>2 DEF OfPath
  <2> QED
    BY <2>1, <2>2, <2>3, <2>4, SourceFound
<1> QED
  BY <1>1, <1>2

LEMMA PackageFound ==
    ASSUME NEW d, NEW h, NEW n, NEW open, Ready(d, h, n, open), NEW key,
           OfPackage(Blind(d, h - 1), key, {}) # Circular
    PROVE  OfPackage(Expand(d, n), key, open) = OfPackage(Blind(d, h - 1), key, {})
<1>1. CASE key \notin DOMAIN Registry
  BY <1>1 DEF OfPackage
<1>2. CASE key \in DOMAIN Registry
  <2>1. Registry[key].items \in ItemLists /\ key.package \in Names /\ Cwd \in Dirs
    BY <1>2, RegistryTyped
  <2>2. Holds(d, key.package, Registry[key])
    BY <1>2 DEF Holds
  <2>3. Placed(d, Call(Registry[key].items, key.package, Cwd, open \cup {key.package}))
    BY <1>2 DEF Placed, Call
  <2>4. /\ OfPackage(Blind(d, h - 1), key, {}) = OfSource(Blind(d, h - 1), Registry[key], key.package, Cwd, {})
        /\ OfPackage(Expand(d, n), key, open) = OfSource(Expand(d, n), Registry[key], key.package, Cwd, open)
    BY <1>2 DEF OfPackage
  <2> QED
    BY <2>1, <2>2, <2>3, <2>4, SourceFound
<1> QED
  BY <1>1, <1>2

LEMMA IncludeFound ==
    ASSUME NEW d, NEW h, NEW n, NEW open, Ready(d, h, n, open),
           NEW item \in Directives, ~Upward(item.dir), NEW dir \in Dirs, ~Upward(dir),
           OfInclude(d, Blind(d, h - 1), item, dir, {}) # Circular
    PROVE  OfInclude(d, Expand(d, n), item, dir, open) = OfInclude(d, Blind(d, h - 1), item, dir, {})
<1> DEFINE paths == Candidates(item, dir)
           l == Len(paths)
           r == [i \in 1 .. l |-> OfPath(d, Blind(d, h - 1), paths[i], {})]
           s == [i \in 1 .. l |-> OfPath(d, Expand(d, n), paths[i], open)]
           none  == item.required /\ \A i \in 1 .. l : Held(d, paths[i]) = Missing
<1>1. l \in Nat /\ l \in 0 .. l
  BY CandidatesTyped
<1>2. /\ OfInclude(d, Blind(d, h - 1), item, dir, {}) = IF none THEN Bad("required") ELSE Chained(r, l)
      /\ OfInclude(d, Expand(d, n), item, dir, open) = IF none THEN Bad("required") ELSE Chained(s, l)
  BY DEF OfInclude, OfPaths
<1>3. ASSUME NEW i \in 1 .. l, r[i] # Circular PROVE s[i] = r[i]
  <2>1. r[i] = OfPath(d, Blind(d, h - 1), paths[i], {}) /\ s[i] = OfPath(d, Expand(d, n), paths[i], open)
    OBVIOUS
  <2>2. ~Upward(paths[i].dir)
    BY CandidatesPlain DEF Ready, PlainDisk
  <2> HIDE DEF r, s, paths
  <2> QED
    BY <1>3, <2>1, <2>2, PathFound
<1> HIDE DEF paths, l, r, s, none
<1>4. CASE none
  BY <1>2, <1>4
<1>5. CASE ~none
  <2>1. Chained(r, l) # Circular
    BY <1>2, <1>5
  <2>2. Chained(s, l) = Chained(r, l)
    BY <1>1, <1>3, <2>1, ChainedExtends
  <2> QED
    BY <1>2, <1>5, <2>2
<1> QED
  BY <1>4, <1>5

\* and a call, one level further up.
LEMMA CallFound ==
    ASSUME NEW d, NEW h, NEW n, NEW c \in Calls, Ready(d, h, n, c.open), ~Upward(c.dir), ~GoesUp(c.items),
           Blind(d, h)[c] # Circular
    PROVE  Expand(d, n + 1)[c] = Blind(d, h)[c]
<1> DEFINE l == Len(c.items)
           r == [i \in 1 .. l |-> OfItem(d, Blind(d, h - 1), c.items[i], c, {})]
           s == [i \in 1 .. l |-> OfItem(d, Expand(d, n), c.items[i], c, c.open)]
<1>1. l \in Nat /\ l \in 0 .. l /\ c.items \in ItemLists /\ c.dir \in Dirs
  BY ItemsTyped
<1>2. h - 1 \in Nat /\ (h - 1) + 1 = h /\ n \in Nat
  BY DEF Ready
<1>3. Blind(d, h) = Inner(d, Blind(d, h - 1)) /\ Expand(d, n + 1) = Outer(d, Expand(d, n))
  BY <1>2, BlindTurns, ExpandTurns
<1>4. Blind(d, h)[c] = Chained(r, l) /\ Expand(d, n + 1)[c] = Chained(s, l)
  BY <1>3 DEF Inner, Outer, OfItems
<1>5. ASSUME NEW i \in 1 .. l, r[i] # Circular PROVE s[i] = r[i]
  <2>1. r[i] = OfItem(d, Blind(d, h - 1), c.items[i], c, {}) /\ s[i] = OfItem(d, Expand(d, n), c.items[i], c, c.open)
    OBVIOUS
  <2>2. c.items[i].t \in {"own", "include", "package"}
    BY <1>1, SourcesAssumption
  <2>3. CASE c.items[i].t = "own"
    BY <2>3 DEF OfItem
  <2>4. CASE c.items[i].t = "package"
    <3>1. r[i] = OfPackage(Blind(d, h - 1), c.items[i].key, {}) /\ s[i] = OfPackage(Expand(d, n), c.items[i].key, c.open)
      BY <2>1, <2>4 DEF OfItem
    <3> HIDE DEF r, s
    <3> QED
      BY <1>5, <3>1, PackageFound
  <2>5. CASE c.items[i].t = "include"
    <3>1. r[i] = OfInclude(d, Blind(d, h - 1), c.items[i], c.dir, {}) /\ s[i] = OfInclude(d, Expand(d, n), c.items[i], c.dir, c.open)
      BY <2>1, <2>5 DEF OfItem
    <3>2. c.items[i] \in Directives /\ ~Upward(c.items[i].dir)
      BY <2>5, DirectivesOfCalls
    <3> HIDE DEF r, s
    <3> QED
      BY <1>1, <1>5, <3>1, <3>2, IncludeFound
  <2> QED
    BY <2>2, <2>3, <2>4, <2>5
<1> HIDE DEF l, r, s
<1>6. Chained(s, l) = Chained(r, l)
  BY <1>1, <1>4, <1>5, ChainedExtends
<1> QED
  BY <1>4, <1>6

\* Whatever is found without a watch, at some depth, is found by one who
\* watches, when no path goes up: a source that is open when its turn comes has
\* been looked at in vain at a depth at which it would have to be found now.
LEMMA AllFound ==
    ASSUME NEW d, DiskOK(d), PlainDisk(d)
    PROVE  \A h \in Nat : Found(d, h)
<1> DEFINE S == {h \in Nat : \A g \in Nat : g <= h => Found(d, g)}
<1>1. \A c \in Calls : Blind(d, 0)[c] = Circular
  BY BlindTurns DEF Flat
<1>2. Found(d, 0)
  BY <1>1 DEF Found
<1>3. 0 \in S
  BY <1>2
<1>4. ASSUME NEW h \in Nat, h \in S PROVE h + 1 \in S
  <2>1. \A g \in Nat : g < h + 1 => Found(d, g)
    BY <1>4
  <2>2. ASSUME NEW m \in Nat, NEW c \in Calls, ~Upward(c.dir), ~GoesUp(c.items), Fresh(d, h + 1, c.open),
               m + Cardinality(c.open) > Cardinality(Names), Blind(d, h + 1)[c] # Circular
        PROVE  Expand(d, m)[c] = Blind(d, h + 1)[c]
    <3>1. c.open \in SUBSET Names
      BY ItemsTyped
    <3>2. Cardinality(c.open) <= Cardinality(Names) /\ Cardinality(Names) \in Nat /\ Cardinality(c.open) \in Nat
      BY <3>1, NamesFinite, FS_Subset, FS_CardinalityType
    <3>3. m - 1 \in Nat /\ (m - 1) + 1 = m /\ h + 1 \in Nat /\ h + 1 > 0
      BY <2>2, <3>2
    <3>4. Ready(d, h + 1, m - 1, c.open)
      BY <2>1, <2>2, <3>1, <3>3 DEF Ready
    <3>5. Expand(d, (m - 1) + 1)[c] = Blind(d, h + 1)[c]
      BY <2>2, <3>4, CallFound
    <3> QED
      BY <3>3, <3>5
  <2>3. Found(d, h + 1)
    BY <2>2 DEF Found
  <2>4. \A g \in Nat : g <= h + 1 => g < h + 1 \/ g = h + 1
    OBVIOUS
  <2> QED
    BY <2>1, <2>3, <2>4
<1> HIDE DEF S
<1>5. \A h \in Nat : h \in S
  BY <1>3, <1>4, Induct
<1> QED
  BY <1>5 DEF S

\* So the reference finds a circle only where there is one.
LEMMA PlainCircles ==
    ASSUME NEW d, DiskOK(d), PlainDisk(d), NEW c \in Calls, c.open = {}, ~Upward(c.dir), ~GoesUp(c.items),
           Limit(d)[c] # Circular
    PROVE  Expand(d, Cardinality(Names) + 1)[c] # Circular
<1>1. PICK h \in Nat : Blind(d, h)[c] = Limit(d)[c]
  BY LimitMeaning
<1>2. Fresh(d, h, c.open)
  BY DEF Fresh, Whole
<1>3. Cardinality(Names) \in Nat /\ Cardinality(c.open) = 0
  BY NamesFinite, FS_EmptySet
<1>4. Found(d, h)
  BY AllFound
<1>5. (Cardinality(Names) + 1) + Cardinality(c.open) > Cardinality(Names) /\ Cardinality(Names) + 1 \in Nat
  BY <1>3
<1>6. Expand(d, Cardinality(Names) + 1)[c] = Blind(d, h)[c]
  BY <1>1, <1>2, <1>4, <1>5 DEF Found
<1> QED
  BY <1>1, <1>6

(* ------------------------------ the frames ----------------------------- *)
\* The call that a frame makes of its source.
CallOf(f) == Call(f.items, f.name, f.dir, {f.name})

\* The frame f builds the source that key leads to.
SourceOf(d, f, key) ==
    \/ /\ key \in DOMAIN Locate /\ key.ext # "properties" /\ Held(d, key) # Missing
       /\ d[Locate[key]].t \notin {"broken", "array"}
       /\ f.name = Locate[key] /\ f.dir = key.dir /\ f.items = d[Locate[key]].items
    \/ /\ key \in DOMAIN Registry /\ Registry[key].t \notin {"broken", "array"}
       /\ f.name = key.package /\ f.dir = Cwd /\ f.items = Registry[key].items

\* What is left of all, and how much is done.
Rest(todo, all) ==
    /\ \E S : todo \in Seq(S)
    /\ Len(todo) <= Len(all)
    /\ \A i \in 1 .. Len(todo) : todo[i] = all[(Len(all) - Len(todo)) + i]
Done(todo, all) == Len(all) - Len(todo)

\* A build has what the items it has done bring in at the limit, and so has a
\* probe with the candidates it has tried.
Built(d, f) ==
    /\ {"items", "todo", "dir"} \subseteq DOMAIN f
    /\ CallOf(f) \in Calls
    /\ Rest(f.todo, f.items)
    /\ OfItems(d, Limit(d), CallOf(f), {}, Done(f.todo, f.items)) = Yes(f.got)

Why(d, p, chain) ==
    IF IsOn(chain, p) THEN "circular"
    ELSE IF Held(d, p) = Missing THEN "unreadable"
    ELSE IF Held(d, p).t = "broken" THEN "syntax"
    ELSE IF p.ext # "properties" /\ Held(d, p).t = "array" THEN "array root"
    ELSE "none"

PathsOf(g) == Candidates(Head(g.todo), g.dir)
Tried(d, f, g) ==
    /\ {"todo", "required", "found"} \subseteq DOMAIN f
    /\ g.todo # <<>> /\ Head(g.todo).t = "include"
    /\ f.required = Head(g.todo).required
    /\ Rest(f.todo, PathsOf(g))
    /\ OfPaths(d, Limit(d), PathsOf(g), {}, Done(f.todo, PathsOf(g))) = Yes(f.got)
    /\ f.found = (\E i \in 1 .. Done(f.todo, PathsOf(g)) : Held(d, PathsOf(g)[i]) # Missing)
    /\ f.failed # "none" => f.todo # <<>> /\ f.failed = Why(d, Head(f.todo), f.chain)

\* What the frame f has to do with the frame g below it.
Over(d, f, g) ==
    /\ f.t = "probe" => g.t = "doc" /\ Tried(d, f, g)
    /\ f.t = "doc" /\ g.t = "doc" =>
           /\ g.todo # <<>> /\ Head(g.todo).t = "package"
           /\ Head(g.todo).key \in DOMAIN Registry /\ SourceOf(d, f, Head(g.todo).key)
    /\ f.t = "doc" /\ g.t = "probe" =>
           /\ g.todo # <<>> /\ g.failed = "none"
           /\ Head(g.todo) \in DOMAIN Locate /\ SourceOf(d, f, Head(g.todo))

Framed(d, s) ==
    /\ \A n \in 1 .. Len(s) : s[n].t \in {"doc", "probe"} /\ (s[n].t = "doc" => Built(d, s[n]))
    /\ \A n \in 2 .. Len(s) : Over(d, s[n], s[n - 1])
    /\ \A n \in 1 .. Len(s) : \A m \in 1 .. Len(s[n].chain) :
           \E i \in 1 .. n : s[i].t = "doc" /\ SourceOf(d, s[i], s[n].chain[m])

\* What is left of the items, and how many are done, as one of them is finished.
LEMMA RestTurns ==
    ASSUME NEW todo, NEW all, Len(all) \in Nat, Rest(todo, all)
    PROVE  /\ Done(todo, all) \in 0 .. Len(all)
           /\ todo = <<>> => Done(todo, all) = Len(all)
           /\ todo # <<>> => /\ Done(todo, all) + 1 \in 1 .. Len(all)
                             /\ Head(todo) = all[Done(todo, all) + 1]
                             /\ Rest(Tail(todo), all)
                             /\ Done(Tail(todo), all) = Done(todo, all) + 1
<1>1. PICK S : todo \in Seq(S)
  BY DEF Rest
<1>2. Len(todo) \in Nat /\ Len(todo) <= Len(all)
  BY <1>1 DEF Rest
<1>3. Done(todo, all) \in 0 .. Len(all)
  BY <1>2 DEF Done
<1>4. ASSUME todo = <<>> PROVE Done(todo, all) = Len(all)
  BY <1>4 DEF Done
<1>5. ASSUME todo # <<>>
      PROVE  /\ Done(todo, all) + 1 \in 1 .. Len(all) /\ Head(todo) = all[Done(todo, all) + 1]
             /\ Rest(Tail(todo), all) /\ Done(Tail(todo), all) = Done(todo, all) + 1
  <2>1. Len(todo) > 0 /\ Head(todo) = todo[1] /\ 1 \in 1 .. Len(todo)
    BY <1>1, <1>2, <1>5
  <2>2. Tail(todo) \in Seq(S) /\ Len(Tail(todo)) = Len(todo) - 1 /\ \A i \in 1 .. Len(todo) - 1 : Tail(todo)[i] = todo[i + 1]
    BY <1>1, <1>5
  <2>3. Head(todo) = all[(Len(all) - Len(todo)) + 1]
    BY <2>1 DEF Rest
  <2>4. ASSUME NEW i \in 1 .. Len(todo) - 1
        PROVE  Tail(todo)[i] = all[(Len(all) - (Len(todo) - 1)) + i]
    <3>1. i + 1 \in 1 .. Len(todo) /\ (Len(all) - Len(todo)) + (i + 1) = (Len(all) - (Len(todo) - 1)) + i
      BY <1>2
    <3>2. todo[i + 1] = all[(Len(all) - Len(todo)) + (i + 1)]
      BY <3>1 DEF Rest
    <3> QED
      BY <2>2, <3>1, <3>2
  <2>5. Rest(Tail(todo), all)
    BY <1>2, <2>1, <2>2, <2>4 DEF Rest
  <2>6. Done(Tail(todo), all) = Done(todo, all) + 1 /\ Done(todo, all) + 1 \in 1 .. Len(all)
    BY <1>2, <2>1, <2>2 DEF Done
  <2> QED
    BY <2>3, <2>5, <2>6 DEF Done
<1> QED
  BY <1>3, <1>4, <1>5

\* At first all are left.
LEMMA RestAll ==
    ASSUME NEW all, NEW S, all \in Seq(S)
    PROVE  Rest(all, all) /\ Done(all, all) = 0
<1>1. Len(all) \in Nat
  OBVIOUS
<1>2. \A i \in 1 .. Len(all) : (Len(all) - Len(all)) + i = i
  BY <1>1
<1> QED
  BY <1>1, <1>2 DEF Rest, Done

\* The parts of a build.
LEMMA BuiltTyped ==
    ASSUME NEW d, NEW f, Built(d, f)
    PROVE  /\ CallOf(f) \in Calls /\ CallOf(f).items = f.items /\ CallOf(f).name = f.name /\ CallOf(f).dir = f.dir
           /\ Len(f.items) \in Nat /\ f.items \in ItemLists /\ f.dir \in Dirs /\ f.name \in Names
           /\ Rest(f.todo, f.items) /\ Done(f.todo, f.items) \in 0 .. Len(f.items)
<1>1. CallOf(f) \in Calls /\ CallOf(f).items = f.items /\ CallOf(f).name = f.name /\ CallOf(f).dir = f.dir
      /\ Rest(f.todo, f.items)
  BY DEF Built, CallOf, Call
<1> QED
  BY <1>1, ItemsTyped, RestTurns

\* One result after another that is fine.
LEMMA ThenYes ==
    ASSUME NEW a, NEW b
    PROVE  Then(Yes(a), Yes(b)) = Yes(a \o b) /\ \A e : Then(Yes(a), Bad(e)) = Bad(e)
<1>1. Yes(a).t = "ok" /\ Yes(a).got = a /\ Yes(b).t = "ok" /\ Yes(b).got = b
  BY DEF Yes
<1>2. \A e : Bad(e).t = "error"
  BY DEF Bad
<1>3. Then(Yes(a), Yes(b)) = Yes(a \o b)
  BY <1>1 DEF Then
<1>4. \A e : Then(Yes(a), Bad(e)) = Bad(e)
  BY <1>1, <1>2 DEF Then
<1> QED
  BY <1>3, <1>4

\* One more item.
LEMMA ItemsTurn ==
    ASSUME NEW d, NEW m, NEW c \in Calls, NEW n \in Nat, n + 1 \in 1 .. Len(c.items)
    PROVE  /\ OfItems(d, m, c, {}, 0) = Yes(<<>>)
           /\ OfItems(d, m, c, {}, n + 1) = Then(OfItems(d, m, c, {}, n), OfItem(d, m, c.items[n + 1], c, {}))
<1> DEFINE r == [i \in 1 .. Len(c.items) |-> OfItem(d, m, c.items[i], c, {})]
<1>1. r[n + 1] = OfItem(d, m, c.items[n + 1], c, {})
  OBVIOUS
<1>2. \A k : OfItems(d, m, c, {}, k) = Chained(r, k)
  BY DEF OfItems
<1> HIDE DEF r
<1> QED
  BY <1>1, <1>2, ChainedTurns

\* An error of an item is one of them all.
LEMMA ItemsFail ==
    ASSUME NEW d, NEW m, NEW c, NEW k \in Nat, NEW n \in Nat, k <= n, OfItems(d, m, c, {}, k).t = "error"
    PROVE  OfItems(d, m, c, {}, n) = OfItems(d, m, c, {}, k)
  BY ChainedFails DEF OfItems

\* The same of candidates.
LEMMA PathsTurn ==
    ASSUME NEW d, NEW m, NEW paths, NEW n \in Nat, n + 1 \in 1 .. Len(paths)
    PROVE  /\ OfPaths(d, m, paths, {}, 0) = Yes(<<>>)
           /\ OfPaths(d, m, paths, {}, n + 1) = Then(OfPaths(d, m, paths, {}, n), OfPath(d, m, paths[n + 1], {}))
<1> DEFINE r == [i \in 1 .. Len(paths) |-> OfPath(d, m, paths[i], {})]
<1>1. r[n + 1] = OfPath(d, m, paths[n + 1], {})
  OBVIOUS
<1>2. \A k : OfPaths(d, m, paths, {}, k) = Chained(r, k)
  BY DEF OfPaths
<1> HIDE DEF r
<1> QED
  BY <1>1, <1>2, ChainedTurns

LEMMA PathsFail ==
    ASSUME NEW d, NEW m, NEW paths, NEW k \in Nat, NEW n \in Nat, k <= n, OfPaths(d, m, paths, {}, k).t = "error"
    PROVE  OfPaths(d, m, paths, {}, n) = OfPaths(d, m, paths, {}, k)
  BY ChainedFails DEF OfPaths

\* The item that a build has come to: the build fails as it fails, and goes on
\* with what it brings in.
LEMMA ItemCounts ==
    ASSUME NEW d, DiskOK(d), NEW f, Built(d, f), f.todo # <<>>,
           NEW r, r = OfItem(d, Limit(d), Head(f.todo), CallOf(f), {})
    PROVE  /\ \A e : r = Bad(e) => Limit(d)[CallOf(f)] = Bad(e)
           /\ \A x : r = Yes(x) =>
                  /\ Rest(Tail(f.todo), f.items)
                  /\ OfItems(d, Limit(d), CallOf(f), {}, Done(Tail(f.todo), f.items)) = Yes(f.got \o x)
<1> DEFINE c == CallOf(f)
           n == Done(f.todo, f.items)
           R(k) == OfItems(d, Limit(d), c, {}, k)
<1>1. /\ c \in Calls /\ c.items = f.items /\ Len(f.items) \in Nat /\ n \in Nat /\ n + 1 \in 1 .. Len(f.items)
      /\ Head(f.todo) = f.items[n + 1] /\ Rest(Tail(f.todo), f.items) /\ Done(Tail(f.todo), f.items) = n + 1
  BY BuiltTyped, RestTurns
<1>2. R(n) = Yes(f.got)
  BY DEF Built
<1> HIDE DEF c, n
<1>3. R(n + 1) = Then(R(n), r)
  BY <1>1, ItemsTurn DEF c
<1>4. ASSUME NEW e, r = Bad(e) PROVE Limit(d)[c] = Bad(e)
  <2>1. R(n + 1) = Bad(e) /\ R(n + 1).t = "error"
    BY <1>2, <1>3, <1>4 DEF Then, Yes, Bad
  <2>2. n + 1 <= Len(f.items) /\ n + 1 \in Nat
    BY <1>1
  <2>3. R(Len(f.items)) = R(n + 1)
    BY <1>1, <2>1, <2>2, ItemsFail
  <2> QED
    BY <1>1, <2>1, <2>3, LimitTurns
<1>5. ASSUME NEW x, r = Yes(x) PROVE R(n + 1) = Yes(f.got \o x)
  BY <1>2, <1>3, <1>5, ThenYes
<1> QED
  BY <1>1, <1>4, <1>5 DEF c

\* A build that has no items left has what its source brings in,
LEMMA BuildEnds ==
    ASSUME NEW d, DiskOK(d), NEW f, Built(d, f), f.todo = <<>>
    PROVE  Limit(d)[CallOf(f)] = Yes(f.got)
<1>1. CallOf(f) \in Calls /\ CallOf(f).items = f.items /\ Done(f.todo, f.items) = Len(f.items)
  BY BuiltTyped, RestTurns
<1> QED
  BY <1>1, LimitTurns DEF Built

\* The candidate that a probe has come to, and the end of a probe.
LEMMA PathCounts ==
    ASSUME NEW d, DiskOK(d), NEW f, NEW g, Tried(d, f, g), f.todo # <<>>,
           NEW r, r = OfPath(d, Limit(d), Head(f.todo), {})
    PROVE  /\ \A e : r = Bad(e) /\ Held(d, Head(f.todo)) # Missing =>
                         OfItem(d, Limit(d), Head(g.todo), CallOf(g), {}) = Bad(e)
           /\ \A x : r = Yes(x) =>
                  /\ Rest(Tail(f.todo), PathsOf(g))
                  /\ OfPaths(d, Limit(d), PathsOf(g), {}, Done(Tail(f.todo), PathsOf(g))) = Yes(f.got \o x)
           /\ (f.found \/ Held(d, Head(f.todo)) # Missing)
                  <=> (\E i \in 1 .. Done(Tail(f.todo), PathsOf(g)) : Held(d, PathsOf(g)[i]) # Missing)
<1> DEFINE paths == PathsOf(g)
           n == Done(f.todo, paths)
           R(k) == OfPaths(d, Limit(d), paths, {}, k)
<1>1. Len(paths) \in Nat
  BY CandidatesTyped DEF PathsOf
<1>2. /\ n \in Nat /\ n + 1 \in 1 .. Len(paths) /\ Head(f.todo) = paths[n + 1]
      /\ Rest(Tail(f.todo), paths) /\ Done(Tail(f.todo), paths) = n + 1
  BY <1>1, RestTurns DEF Tried
<1>3. R(n) = Yes(f.got) /\ f.found = (\E i \in 1 .. n : Held(d, paths[i]) # Missing)
  BY DEF Tried
<1>4. /\ Head(g.todo).t = "include" /\ CallOf(g).dir = g.dir
  BY DEF Tried, CallOf, Call
<1>5. OfItem(d, Limit(d), Head(g.todo), CallOf(g), {}) = OfInclude(d, Limit(d), Head(g.todo), g.dir, {})
  BY <1>4 DEF OfItem
<1>6. OfInclude(d, Limit(d), Head(g.todo), g.dir, {}) =
          IF Head(g.todo).required /\ \A i \in 1 .. Len(paths) : Held(d, paths[i]) = Missing THEN Bad("required")
          ELSE R(Len(paths))
  BY DEF OfInclude, PathsOf
<1> HIDE DEF paths, n
<1>7. R(n + 1) = Then(R(n), r)
  BY <1>2, PathsTurn
<1> HIDE DEF R
<1>8. ASSUME NEW e, r = Bad(e), Held(d, Head(f.todo)) # Missing
      PROVE  OfItem(d, Limit(d), Head(g.todo), CallOf(g), {}) = Bad(e)
  <2>1. R(n + 1) = Bad(e) /\ R(n + 1).t = "error"
    BY <1>3, <1>7, <1>8, ThenYes DEF Bad
  <2>2. n + 1 <= Len(paths) /\ n + 1 \in Nat
    BY <1>2
  <2>3. R(Len(paths)) = R(n + 1)
    BY <1>1, <2>1, <2>2, PathsFail DEF R
  <2>4. ~ \A i \in 1 .. Len(paths) : Held(d, paths[i]) = Missing
    BY <1>2, <1>8
  <2> QED
    BY <1>5, <1>6, <2>1, <2>3, <2>4
<1>9. ASSUME NEW x, r = Yes(x) PROVE R(n + 1) = Yes(f.got \o x)
  BY <1>3, <1>7, <1>9, ThenYes
<1>10. (f.found \/ Held(d, Head(f.todo)) # Missing) <=> (\E i \in 1 .. n + 1 : Held(d, paths[i]) # Missing)
  <2>1. \A i \in 1 .. n + 1 : i \in 1 .. n \/ i = n + 1
    BY <1>2
  <2>2. \A i \in 1 .. n : i \in 1 .. n + 1
    BY <1>2
  <2>3. n + 1 \in 1 .. n + 1
    BY <1>2
  <2> QED
    BY <1>2, <1>3, <2>1, <2>2, <2>3
<1> QED
  BY <1>2, <1>8, <1>9, <1>10 DEF paths, R

\* A probe that has no candidates left has what its include brings in.
LEMMA ProbeEnds ==
    ASSUME NEW d, DiskOK(d), NEW f, NEW g, Tried(d, f, g), f.todo = <<>>
    PROVE  OfItem(d, Limit(d), Head(g.todo), CallOf(g), {}) =
               IF f.required /\ ~f.found THEN Bad("required") ELSE Yes(f.got)
<1> DEFINE paths == PathsOf(g)
<1>1. Len(paths) \in Nat
  BY CandidatesTyped DEF PathsOf
<1>2. Done(f.todo, paths) = Len(paths)
  BY <1>1, RestTurns DEF Tried
<1>3. /\ OfPaths(d, Limit(d), paths, {}, Len(paths)) = Yes(f.got)
      /\ f.found = (\E i \in 1 .. Len(paths) : Held(d, paths[i]) # Missing)
      /\ f.required = Head(g.todo).required
  BY <1>2 DEF Tried
<1>4. /\ Head(g.todo).t = "include" /\ CallOf(g).dir = g.dir
  BY DEF Tried, CallOf, Call
<1>5. OfItem(d, Limit(d), Head(g.todo), CallOf(g), {}) = OfInclude(d, Limit(d), Head(g.todo), g.dir, {})
  BY <1>4 DEF OfItem
<1>6. OfInclude(d, Limit(d), Head(g.todo), g.dir, {}) =
          IF Head(g.todo).required /\ \A i \in 1 .. Len(paths) : Held(d, paths[i]) = Missing THEN Bad("required")
          ELSE OfPaths(d, Limit(d), paths, {}, Len(paths))
  BY DEF OfInclude, PathsOf
<1> HIDE DEF paths
<1> QED
  BY <1>3, <1>5, <1>6

\* What a path or a key that is opened brings in is what its frame builds.
LEMMA FileCounts ==
    ASSUME NEW d, DiskOK(d), NEW f, NEW p \in DOMAIN Locate, SourceOf(d, f, p), p \notin DOMAIN Registry
    PROVE  /\ Held(d, p) # Missing /\ CallOf(f) \in Calls
           /\ \A m : OfPath(d, m, p, {}) = m[CallOf(f)]
<1>1. /\ p.ext # "properties" /\ Held(d, p) # Missing /\ d[Locate[p]].t \notin {"broken", "array"}
      /\ f.name = Locate[p] /\ f.dir = p.dir /\ f.items = d[Locate[p]].items
  BY DEF SourceOf
<1>2. /\ Held(d, p) = d[Locate[p]] /\ Locate[p] \in Names /\ Held(d, p).items \in ItemLists /\ p.dir \in Dirs
  BY <1>1, HeldTyped
<1>3. \A m : OfPath(d, m, p, {}) = OfSource(m, d[Locate[p]], Locate[p], p.dir, {})
  BY <1>1, <1>2 DEF OfPath
<1>4. \A m : OfSource(m, d[Locate[p]], Locate[p], p.dir, {}) = m[Call(f.items, f.name, f.dir, {} \cup {f.name})]
  BY <1>1 DEF OfSource
<1>5. {} \cup {f.name} = {f.name}
  OBVIOUS
<1>6. CallOf(f) \in Calls
  BY <1>1, <1>2, CallTyped DEF CallOf
<1> QED
  BY <1>1, <1>3, <1>4, <1>5, <1>6 DEF CallOf

\* A build of a package is one that the package calls.
LEMMA PackageCounts ==
    ASSUME NEW d, DiskOK(d), NEW f, NEW key \in DOMAIN Registry, SourceOf(d, f, key), key \notin DOMAIN Locate
    PROVE  /\ CallOf(f) \in Calls
           /\ \A m : OfPackage(m, key, {}) = m[CallOf(f)]
<1>1. /\ Registry[key].t \notin {"broken", "array"}
      /\ f.name = key.package /\ f.dir = Cwd /\ f.items = Registry[key].items
  BY DEF SourceOf
<1>2. \A m : OfPackage(m, key, {}) = OfSource(m, Registry[key], key.package, Cwd, {})
  BY DEF OfPackage
<1>3. \A m : OfSource(m, Registry[key], key.package, Cwd, {}) = m[Call(f.items, f.name, f.dir, {} \cup {f.name})]
  BY <1>1 DEF OfSource
<1>4. {} \cup {f.name} = {f.name}
  OBVIOUS
<1>5. CallOf(f) \in Calls
  BY <1>1, RegistryTyped, CallTyped DEF CallOf
<1> QED
  BY <1>2, <1>3, <1>4, <1>5 DEF CallOf

\* The two kinds of keys.
LEMMA KeysApart == DOMAIN Locate \cap DOMAIN Registry = {}
  BY SourcesAssumption

\* A failure is the failure of every source on the stack.
LEMMA Blame ==
    ASSUME NEW d, DiskOK(d), NEW s, Len(s) \in Nat, Framed(d, s), s[1].t = "doc",
           NEW k \in 1 .. Len(s), s[k].t = "doc", NEW e, Limit(d)[CallOf(s[k])] = Bad(e)
    PROVE  Limit(d)[CallOf(s[1])] = Bad(e)
<1> DEFINE Fails(n) == n \in 1 .. Len(s) /\ s[n].t = "doc" /\ Limit(d)[CallOf(s[n])] = Bad(e)
           S == {n \in Nat : \A i \in Nat : i <= n /\ Fails(i) => Fails(1)}
<1>1. 0 \in S
  OBVIOUS
<1>2. ASSUME NEW n \in Nat, n \in S PROVE n + 1 \in S
  <2>1. SUFFICES ASSUME Fails(n + 1), n + 1 # 1 PROVE Fails(1)
    <3>1. \A i \in Nat : i <= n + 1 => i <= n \/ i = n + 1
      OBVIOUS
    <3> QED
      BY <1>2, <2>1, <3>1
  <2>2. n \in 1 .. Len(s) /\ n + 1 \in 2 .. Len(s) /\ (n + 1) - 1 = n
    BY <2>1
  <2> DEFINE f == s[n + 1]
             g == s[n]
  <2>3. Over(d, f, g) /\ f.t = "doc" /\ Limit(d)[CallOf(f)] = Bad(e) /\ g.t \in {"doc", "probe"}
    BY <2>1, <2>2 DEF Framed
  <2>4. CASE g.t = "doc"
    <3>1. Built(d, g)
      BY <2>2, <2>4 DEF Framed
    <3>2. /\ g.todo # <<>> /\ Head(g.todo).t = "package"
          /\ Head(g.todo).key \in DOMAIN Registry /\ SourceOf(d, f, Head(g.todo).key)
      BY <2>3, <2>4 DEF Over
    <3> HIDE DEF f, g
    <3>3. OfPackage(Limit(d), Head(g.todo).key, {}) = Bad(e)
      BY <2>3, <3>2, KeysApart, PackageCounts
    <3>4. OfItem(d, Limit(d), Head(g.todo), CallOf(g), {}) = Bad(e)
      BY <3>2, <3>3 DEF OfItem
    <3>5. Limit(d)[CallOf(g)] = Bad(e)
      BY <3>1, <3>2, <3>4, ItemCounts
    <3>6. Fails(n)
      BY <2>2, <2>4, <3>5 DEF g
    <3> QED
      BY <1>2, <3>6
  <2>5. CASE g.t = "probe"
    <3>1. n # 1 /\ n - 1 \in 1 .. Len(s) /\ n \in 2 .. Len(s) /\ n - 1 \in Nat /\ n - 1 <= n
      BY <2>2, <2>5
    <3> DEFINE b == s[n - 1]
    <3>2. b.t = "doc" /\ Tried(d, g, b)
      BY <2>5, <3>1 DEF Framed, Over
    <3>3. Built(d, b)
      BY <3>1, <3>2 DEF Framed
    <3>4. g.todo # <<>> /\ Head(g.todo) \in DOMAIN Locate /\ SourceOf(d, f, Head(g.todo))
      BY <2>3, <2>5 DEF Over
    <3> HIDE DEF f, g, b
    <3>5. OfPath(d, Limit(d), Head(g.todo), {}) = Bad(e) /\ Held(d, Head(g.todo)) # Missing
      BY <2>3, <3>4, KeysApart, FileCounts
    <3>6. OfItem(d, Limit(d), Head(b.todo), CallOf(b), {}) = Bad(e)
      BY <3>2, <3>4, <3>5, PathCounts
    <3>7. b.todo # <<>>
      BY <3>2 DEF Tried
    <3>8. Limit(d)[CallOf(b)] = Bad(e)
      BY <3>3, <3>6, <3>7, ItemCounts
    <3>9. Fails(n - 1)
      BY <3>1, <3>2, <3>8 DEF b
    <3> QED
      BY <1>2, <3>1, <3>9
  <2> QED
    BY <2>3, <2>4, <2>5
<1> HIDE DEF S
<1>3. \A n \in Nat : n \in S
  BY <1>1, <1>2, Induct
<1>4. Fails(1)
  BY <1>3 DEF S
<1> QED
  BY <1>4

(* ------------------------ circles on the stack ------------------------- *)
\* What a build needs at a depth, the item it has come to needs one below it.
LEMMA ItemDeep ==
    ASSUME NEW d, DiskOK(d), NEW f, Built(d, f), f.todo # <<>>, NEW h \in Nat, Blind(d, h)[CallOf(f)] # Circular
    PROVE  h - 1 \in Nat /\ OfItem(d, Blind(d, h - 1), Head(f.todo), CallOf(f), {}) # Circular
<1> DEFINE c == CallOf(f)
           n == Done(f.todo, f.items)
           m == Blind(d, h - 1)
           R(k) == OfItems(d, m, c, {}, k)
<1>1. /\ c \in Calls /\ c.items = f.items /\ Len(f.items) \in Nat /\ n \in Nat /\ n + 1 \in 1 .. Len(f.items)
      /\ Head(f.todo) = f.items[n + 1]
  BY BuiltTyped, RestTurns
<1>2. h # 0
  BY <1>1, BlindTurns DEF Flat
<1>3. h - 1 \in Nat /\ (h - 1) + 1 = h
  BY <1>2
<1>4. OfItems(d, Limit(d), c, {}, n) = Yes(f.got)
  BY DEF Built
<1>5. Blind(d, h) = Inner(d, m)
  BY <1>3, BlindTurns
<1>6. Knows(m, Limit(d))
  BY <1>3, LimitKnows
<1> HIDE DEF c, n, m
<1>7. R(Len(f.items)) # Circular
  BY <1>1, <1>5 DEF Inner, c
<1>8. ASSUME NEW k \in Nat, k <= Len(f.items) PROVE R(k) # Circular
  <2>1. R(k) = Circular => R(k).t = "error"
    BY DEF Circular, Bad
  <2> QED
    BY <1>1, <1>7, <1>8, <2>1, ItemsFail
<1>9. n <= Len(f.items) /\ n + 1 <= Len(f.items) /\ n + 1 \in Nat
  BY <1>1
<1>10. R(n) = Yes(f.got)
  <2>1. Alike(c, c) /\ {} \in SUBSET Names
    BY DEF Alike
  <2>2. R(n) # Circular
    BY <1>1, <1>8, <1>9
  <2>3. OfItems(d, Limit(d), c, {}, n) = R(n)
    BY <1>1, <1>6, <1>9, <2>1, <2>2, ItemsKnown
  <2> QED
    BY <1>4, <2>3
<1>11. R(n + 1) = Then(R(n), OfItem(d, m, Head(f.todo), c, {}))
  BY <1>1, ItemsTurn
<1>12. OfItem(d, m, Head(f.todo), c, {}) = Circular => R(n + 1) = Circular
  BY <1>10, <1>11, ThenYes DEF Circular
<1>13. R(n + 1) # Circular
  BY <1>8, <1>9
<1> QED
  BY <1>3, <1>12, <1>13 DEF c, m

\* The same of a probe and the candidate it has come to.
LEMMA PathDeep ==
    ASSUME NEW d, DiskOK(d), NEW m, Knows(m, Limit(d)), NEW f, NEW g, Tried(d, f, g), f.todo # <<>>,
           Held(d, Head(f.todo)) # Missing, OfItem(d, m, Head(g.todo), CallOf(g), {}) # Circular
    PROVE  OfPath(d, m, Head(f.todo), {}) # Circular
<1> DEFINE paths == PathsOf(g)
           n == Done(f.todo, paths)
           R(k) == OfPaths(d, m, paths, {}, k)
<1>1. Len(paths) \in Nat
  BY CandidatesTyped DEF PathsOf
<1>2. n \in Nat /\ n + 1 \in 1 .. Len(paths) /\ Head(f.todo) = paths[n + 1]
  BY <1>1, RestTurns DEF Tried
<1>3. OfPaths(d, Limit(d), paths, {}, n) = Yes(f.got)
  BY DEF Tried
<1>4. Head(g.todo).t = "include" /\ CallOf(g).dir = g.dir
  BY DEF Tried, CallOf, Call
<1>5. OfItem(d, m, Head(g.todo), CallOf(g), {}) = OfInclude(d, m, Head(g.todo), g.dir, {})
  BY <1>4 DEF OfItem
<1>6. OfInclude(d, m, Head(g.todo), g.dir, {}) =
          IF Head(g.todo).required /\ \A i \in 1 .. Len(paths) : Held(d, paths[i]) = Missing THEN Bad("required")
          ELSE R(Len(paths))
  BY DEF OfInclude, PathsOf
<1> HIDE DEF paths, n
<1>7. R(Len(paths)) # Circular
  <2>1. ~ \A i \in 1 .. Len(paths) : Held(d, paths[i]) = Missing
    BY <1>2
  <2> HIDE DEF R
  <2> QED
    BY <1>5, <1>6, <2>1
<1>8. ASSUME NEW k \in Nat, k <= Len(paths) PROVE R(k) # Circular
  <2>1. R(k) = Circular => R(k).t = "error"
    BY DEF Circular, Bad
  <2> QED
    BY <1>1, <1>7, <1>8, <2>1, PathsFail
<1>9. n <= Len(paths) /\ n + 1 <= Len(paths) /\ n + 1 \in Nat
  BY <1>1, <1>2
<1>10. R(n) = Yes(f.got)
  <2>1. {} \in SUBSET Names
    OBVIOUS
  <2>2. R(n) # Circular
    BY <1>2, <1>8, <1>9
  <2>3. OfPaths(d, Limit(d), paths, {}, n) = R(n)
    BY <1>1, <1>2, <1>9, <2>1, <2>2, PathsKnown
  <2> QED
    BY <1>3, <2>3
<1>11. R(n + 1) = Then(R(n), OfPath(d, m, Head(f.todo), {}))
  BY <1>2, PathsTurn
<1>12. OfPath(d, m, Head(f.todo), {}) = Circular => R(n + 1) = Circular
  BY <1>10, <1>11, ThenYes DEF Circular
<1>13. R(n + 1) # Circular
  BY <1>8, <1>9
<1> QED
  BY <1>12, <1>13

\* The build that a probe is part of: its path is needed one below it.
LEMMA ProbeDeep ==
    ASSUME NEW d, DiskOK(d), NEW f, NEW g, Tried(d, f, g), Built(d, g), f.todo # <<>>,
           Held(d, Head(f.todo)) # Missing, NEW h \in Nat, Blind(d, h)[CallOf(g)] # Circular
    PROVE  h - 1 \in Nat /\ OfPath(d, Blind(d, h - 1), Head(f.todo), {}) # Circular
<1>1. g.todo # <<>>
  BY DEF Tried
<1>2. h - 1 \in Nat /\ OfItem(d, Blind(d, h - 1), Head(g.todo), CallOf(g), {}) # Circular
  BY <1>1, ItemDeep
<1>3. Knows(Blind(d, h - 1), Limit(d))
  BY <1>2, LimitKnows
<1> QED
  BY <1>2, <1>3, PathDeep

\* Where a source is needed, what is built on top of it is needed.
LEMMA Needed ==
    ASSUME NEW d, DiskOK(d), NEW s, Len(s) \in Nat, Framed(d, s),
           NEW i \in 1 .. Len(s), s[i].t = "doc", NEW h \in Nat, Blind(d, h)[CallOf(s[i])] # Circular
    PROVE  \A k \in i .. Len(s) : s[k].t = "doc" => Blind(d, h)[CallOf(s[k])] # Circular
<1> DEFINE Deep(k) == k \in i .. Len(s) /\ s[k].t = "doc" => Blind(d, h)[CallOf(s[k])] # Circular
           S == {n \in Nat : \A k \in Nat : k <= n => Deep(k)}
<1>1. 0 \in S
  OBVIOUS
<1>2. ASSUME NEW n \in Nat, n \in S PROVE n + 1 \in S
  <2>1. SUFFICES ASSUME n + 1 \in i .. Len(s), s[n + 1].t = "doc", n + 1 # i
                 PROVE  Blind(d, h)[CallOf(s[n + 1])] # Circular
    <3>1. \A k \in Nat : k <= n + 1 => k <= n \/ k = n + 1
      OBVIOUS
    <3>2. n + 1 = i => Deep(n + 1)
      OBVIOUS
    <3> QED
      BY <1>2, <2>1, <3>1, <3>2
  <2>2. n \in 1 .. Len(s) /\ n \in i .. Len(s) /\ n + 1 \in 2 .. Len(s) /\ (n + 1) - 1 = n
    BY <2>1
  <2> DEFINE f == s[n + 1]
             g == s[n]
  <2>3. Over(d, f, g) /\ f.t = "doc" /\ g.t \in {"doc", "probe"} /\ CallOf(f) \in Calls
    BY <2>1, <2>2 DEF Framed, Built
  <2>4. CASE g.t = "doc"
    <3>1. Built(d, g) /\ Blind(d, h)[CallOf(g)] # Circular
      BY <1>2, <2>2, <2>4 DEF Framed
    <3>2. /\ g.todo # <<>> /\ Head(g.todo).t = "package"
          /\ Head(g.todo).key \in DOMAIN Registry /\ SourceOf(d, f, Head(g.todo).key)
      BY <2>3, <2>4 DEF Over
    <3> HIDE DEF f, g
    <3>3. h - 1 \in Nat /\ OfItem(d, Blind(d, h - 1), Head(g.todo), CallOf(g), {}) # Circular
      BY <3>1, <3>2, ItemDeep
    <3>4. OfPackage(Blind(d, h - 1), Head(g.todo).key, {}) # Circular
      BY <3>2, <3>3 DEF OfItem
    <3>5. Blind(d, h - 1)[CallOf(f)] # Circular
      BY <3>2, <3>4, KeysApart, PackageCounts
    <3>6. h - 1 <= h
      OBVIOUS
    <3> QED
      BY <2>3, <3>3, <3>5, <3>6, BlindGrows DEF f
  <2>5. CASE g.t = "probe"
    <3> DEFINE b == s[n - 1]
    <3>1. n # i /\ n # 1 /\ n - 1 \in i .. Len(s) /\ n \in 2 .. Len(s) /\ n - 1 \in Nat /\ n - 1 <= n
          /\ n - 1 \in 1 .. Len(s)
      BY <2>2, <2>5
    <3>2. b.t = "doc" /\ Tried(d, g, b)
      BY <2>5, <3>1 DEF Framed, Over
    <3>3. Built(d, b) /\ Blind(d, h)[CallOf(b)] # Circular
      BY <1>2, <3>1, <3>2 DEF Framed
    <3>4. g.todo # <<>> /\ Head(g.todo) \in DOMAIN Locate /\ SourceOf(d, f, Head(g.todo))
      BY <2>3, <2>5 DEF Over
    <3> HIDE DEF f, g, b
    <3>5. Held(d, Head(g.todo)) # Missing /\ \A m : OfPath(d, m, Head(g.todo), {}) = m[CallOf(f)]
      BY <3>4, KeysApart, FileCounts
    <3>6. h - 1 \in Nat /\ OfPath(d, Blind(d, h - 1), Head(g.todo), {}) # Circular
      BY <3>2, <3>3, <3>4, <3>5, ProbeDeep
    <3>7. Blind(d, h - 1)[CallOf(f)] # Circular
      BY <3>5, <3>6
    <3>8. h - 1 <= h
      OBVIOUS
    <3> QED
      BY <2>3, <3>6, <3>7, <3>8, BlindGrows DEF f
  <2> QED
    BY <2>3, <2>4, <2>5
<1> HIDE DEF S
<1>3. \A n \in Nat : n \in S
  BY <1>1, <1>2, Induct
<1>4. \A k \in i .. Len(s) : k \in Nat /\ k <= k
  OBVIOUS
<1> QED
  BY <1>3, <1>4 DEF S

\* The build f needs the source of b.
Needs(d, f, b) ==
    \A h \in Nat : Blind(d, h)[CallOf(f)] # Circular => h - 1 \in Nat /\ Blind(d, h - 1)[CallOf(b)] # Circular

\* A build that needs a source that it is part of never brings in anything.
LEMMA Circle ==
    ASSUME NEW d, DiskOK(d), NEW s, Len(s) \in Nat, Framed(d, s),
           NEW i \in 1 .. Len(s), s[i].t = "doc", NEW n \in i .. Len(s), s[n].t = "doc",
           Needs(d, s[n], s[i])
    PROVE  Limit(d)[CallOf(s[i])] = Circular
<1> DEFINE S == {h \in Nat : Blind(d, h)[CallOf(s[i])] = Circular}
<1>1. \A h \in Nat : Blind(d, h)[CallOf(s[i])] # Circular => Blind(d, h)[CallOf(s[n])] # Circular
  BY Needed
<1>2. 0 \in S
  BY <1>1 DEF Needs
<1>3. ASSUME NEW h \in Nat, h \in S PROVE h + 1 \in S
  <2>1. (h + 1) - 1 = h /\ h + 1 \in Nat
    OBVIOUS
  <2> QED
    BY <1>1, <1>3, <2>1 DEF Needs
<1> HIDE DEF S
<1>4. \A h \in Nat : h \in S
  BY <1>2, <1>3, Induct
<1>5. CallOf(s[i]) \in Calls
  BY DEF Framed, Built
<1> QED
  BY <1>4, <1>5, LimitMeaning DEF S

(* --------------------------- frames that fit --------------------------- *)
\* The frame f fits at the height m of the stack s.
Fits(d, s, m, f) ==
    /\ f.t \in {"doc", "probe"}
    /\ f.t = "doc" => Built(d, f)
    /\ m > 1 => Over(d, f, s[m - 1])
    /\ \A k \in 1 .. Len(f.chain) :
           \/ \E i \in 1 .. m - 1 : s[i].t = "doc" /\ SourceOf(d, s[i], f.chain[k])
           \/ f.t = "doc" /\ SourceOf(d, f, f.chain[k])
Replaces(s, m, f, u) == Len(u) = m /\ u[m] = f /\ \A k \in 1 .. m - 1 : u[k] = s[k]

\* With a frame that fits, the stack is still one of frames.
LEMMA Replaced ==
    ASSUME NEW d, NEW s, Len(s) \in Nat, Framed(d, s), NEW m \in 1 .. Len(s) + 1,
           NEW f, Fits(d, s, m, f), NEW u, Replaces(s, m, f, u)
    PROVE  Framed(d, u)
<1>1. Len(u) = m /\ u[m] = f /\ m \in Nat /\ \A k \in 1 .. m - 1 : u[k] = s[k] /\ k \in 1 .. Len(s)
  BY DEF Replaces
<1>2. ASSUME NEW n \in 1 .. m PROVE u[n].t \in {"doc", "probe"} /\ (u[n].t = "doc" => Built(d, u[n]))
  <2>1. CASE n = m
    BY <1>1, <2>1 DEF Fits
  <2>2. CASE n # m
    <3>1. n \in 1 .. m - 1
      BY <1>1, <2>2
    <3> QED
      BY <1>1, <3>1 DEF Framed
  <2> QED
    BY <2>1, <2>2
<1>3. ASSUME NEW n \in 2 .. m PROVE Over(d, u[n], u[n - 1])
  <2>1. n - 1 \in 1 .. m - 1
    BY <1>1
  <2>2. CASE n = m
    BY <1>1, <2>1, <2>2 DEF Fits
  <2>3. CASE n # m
    <3>1. n \in 1 .. m - 1 /\ n \in 2 .. Len(s)
      BY <1>1, <2>3
    <3> QED
      BY <1>1, <2>1, <3>1 DEF Framed
  <2> QED
    BY <2>2, <2>3
<1>4. ASSUME NEW n \in 1 .. m, NEW k \in 1 .. Len(u[n].chain)
      PROVE  \E i \in 1 .. n : u[i].t = "doc" /\ SourceOf(d, u[i], u[n].chain[k])
  <2>1. CASE n = m
    <3>1. CASE f.t = "doc" /\ SourceOf(d, f, f.chain[k])
      <4>1. m \in 1 .. n
        BY <1>1, <2>1
      <4> QED
        BY <1>1, <2>1, <3>1, <4>1
    <3>2. CASE \E i \in 1 .. m - 1 : s[i].t = "doc" /\ SourceOf(d, s[i], f.chain[k])
      <4>1. PICK i \in 1 .. m - 1 : s[i].t = "doc" /\ SourceOf(d, s[i], f.chain[k])
        BY <3>2
      <4>2. i \in 1 .. n /\ u[i] = s[i]
        BY <1>1, <2>1
      <4> QED
        BY <1>1, <2>1, <4>1, <4>2
    <3> QED
      BY <1>1, <1>4, <2>1, <3>1, <3>2 DEF Fits
  <2>2. CASE n # m
    <3>1. n \in 1 .. m - 1 /\ n \in 1 .. Len(s) /\ u[n] = s[n]
      BY <1>1, <2>2
    <3>2. PICK i \in 1 .. n : s[i].t = "doc" /\ SourceOf(d, s[i], s[n].chain[k])
      BY <1>4, <3>1 DEF Framed
    <3>3. u[i] = s[i]
      BY <1>1, <3>1
    <3> QED
      BY <3>1, <3>2, <3>3
  <2> QED
    BY <2>1, <2>2
<1> QED
  BY <1>1, <1>2, <1>3, <1>4 DEF Framed

\* A frame that goes on with its source fits where it is,
LEMMA Kept ==
    ASSUME NEW d, NEW s, Len(s) \in Nat, Framed(d, s), NEW m \in 1 .. Len(s), NEW f,
           f.t = s[m].t, f.chain = s[m].chain,
           f.t = "doc" => Built(d, f) /\ f.name = s[m].name /\ f.dir = s[m].dir /\ f.items = s[m].items,
           f.t = "probe" => m > 1 /\ Tried(d, f, s[m - 1])
    PROVE  Fits(d, s, m, f)
<1>1. f.t \in {"doc", "probe"}
  BY DEF Framed
<1>2. f.t = "doc" => \A key : SourceOf(d, f, key) <=> SourceOf(d, s[m], key)
  BY DEF SourceOf
<1>3. ASSUME m > 1 PROVE Over(d, f, s[m - 1])
  <2>1. Over(d, s[m], s[m - 1])
    BY <1>3 DEF Framed
  <2>2. f.t = "probe" => s[m - 1].t = "doc" /\ Tried(d, f, s[m - 1])
    BY <2>1 DEF Over
  <2>3. f.t = "doc" => Over(d, f, s[m - 1])
    BY <1>2, <2>1 DEF Over
  <2>4. f.t = "probe" => Over(d, f, s[m - 1])
    BY <2>2 DEF Over
  <2> QED
    BY <1>1, <2>3, <2>4
<1>4. ASSUME NEW k \in 1 .. Len(f.chain)
      PROVE  \/ \E i \in 1 .. m - 1 : s[i].t = "doc" /\ SourceOf(d, s[i], f.chain[k])
             \/ f.t = "doc" /\ SourceOf(d, f, f.chain[k])
  <2>1. PICK i \in 1 .. m : s[i].t = "doc" /\ SourceOf(d, s[i], f.chain[k])
    BY <1>4 DEF Framed
  <2>2. CASE i = m
    BY <1>2, <2>1, <2>2
  <2>3. CASE i # m
    <3>1. i \in 1 .. m - 1
      BY <2>3
    <3> QED
      BY <2>1, <3>1
  <2> QED
    BY <2>2, <2>3
<1> QED
  BY <1>1, <1>3, <1>4 DEF Fits

\* and so does one on top of the others, with their chain or its own key as well.
LEMMA Pushed ==
    ASSUME NEW d, NEW s, Len(s) \in Nat, Len(s) > 0, Framed(d, s), s[Len(s)].chain \in Seq(Key), NEW f,
           f.t \in {"doc", "probe"}, f.t = "doc" => Built(d, f), Over(d, f, s[Len(s)]),
           \/ f.chain = s[Len(s)].chain
           \/ \E key \in Key : f.chain = Append(s[Len(s)].chain, key) /\ f.t = "doc" /\ SourceOf(d, f, key)
    PROVE  Fits(d, s, Len(s) + 1, f)
<1> DEFINE c == s[Len(s)].chain
<1>1. ASSUME NEW k \in 1 .. Len(c) PROVE \E i \in 1 .. Len(s) : s[i].t = "doc" /\ SourceOf(d, s[i], c[k])
  BY <1>1 DEF Framed
<1>2. ASSUME NEW k \in 1 .. Len(f.chain)
      PROVE  \/ \E i \in 1 .. Len(s) : s[i].t = "doc" /\ SourceOf(d, s[i], f.chain[k])
             \/ f.t = "doc" /\ SourceOf(d, f, f.chain[k])
  <2>1. CASE f.chain = c
    BY <1>1, <1>2, <2>1
  <2>2. CASE f.chain # c
    <3>1. PICK key \in Key : f.chain = Append(c, key) /\ f.t = "doc" /\ SourceOf(d, f, key)
      BY <2>2
    <3> HIDE DEF c
    <3>2. (k \in 1 .. Len(c) /\ f.chain[k] = c[k]) \/ f.chain[k] = key
      <4>1. c \in Seq(Key)
        BY DEF c
      <4>2. Len(f.chain) = Len(c) + 1 /\ f.chain[Len(c) + 1] = key /\ \A j \in 1 .. Len(c) : f.chain[j] = c[j]
        BY <3>1, <4>1
      <4> QED
        BY <4>1, <4>2
    <3> QED
      BY <1>1, <3>1, <3>2
  <2> QED
    BY <2>1, <2>2
<1>3. (Len(s) + 1) - 1 = Len(s)
  OBVIOUS
<1> QED
  BY <1>2, <1>3 DEF Fits

\* Why a path is refused that leads to a file: as the reference fails on it.
LEMMA RefusedPath ==
    ASSUME NEW d, DiskOK(d), NEW m, NEW p, NEW chain, Held(d, p) # Missing, Why(d, p, chain) # "none",
           ~IsOn(chain, p)
    PROVE  OfPath(d, m, p, {}) = Bad(Why(d, p, chain))
<1>1. CASE Held(d, p).t = "broken"
  BY <1>1 DEF Why, OfPath, OfSource
<1>2. CASE Held(d, p).t # "broken"
  <2>1. p.ext # "properties" /\ Held(d, p).t = "array" /\ Why(d, p, chain) = "array root"
    BY <1>2 DEF Why
  <2> QED
    BY <1>2, <2>1 DEF OfPath, OfSource
<1> QED
  BY <1>1, <1>2

\* A path that is on its way already is a circle in the reference as well.
LEMMA RefusedCircle ==
    ASSUME NEW d, DiskOK(d), NEW s, Len(s) \in Nat, Framed(d, s), NEW n \in 2 .. Len(s), s[n].t = "probe",
           s[n].todo # <<>>, IsOn(s[n].chain, Head(s[n].todo)), Held(d, Head(s[n].todo)) # Missing
    PROVE  OfPath(d, Limit(d), Head(s[n].todo), {}) = Circular
<1> DEFINE f == s[n]
           g == s[n - 1]
           p == Head(f.todo)
<1>1. n \in 1 .. Len(s) /\ n - 1 \in 1 .. Len(s) /\ n - 1 < n
  OBVIOUS
<1>2. g.t = "doc" /\ Tried(d, f, g)
  BY DEF Framed, Over
<1>3. Built(d, g)
  BY <1>1, <1>2 DEF Framed
<1>4. PICK i \in 1 .. n : s[i].t = "doc" /\ SourceOf(d, s[i], p)
  BY <1>1 DEF Framed, IsOn
<1>5. i \in 1 .. Len(s) /\ n - 1 \in i .. Len(s)
  BY <1>4
<1>6. p \in DOMAIN Locate /\ p \notin DOMAIN Registry
  BY HeldTyped, KeysApart
<1>7. \A m : OfPath(d, m, p, {}) = m[CallOf(s[i])]
  BY <1>4, <1>6, FileCounts
<1>8. ASSUME NEW h \in Nat, Blind(d, h)[CallOf(g)] # Circular
      PROVE  h - 1 \in Nat /\ Blind(d, h - 1)[CallOf(s[i])] # Circular
  BY <1>2, <1>3, <1>7, <1>8, ProbeDeep
<1>9. Limit(d)[CallOf(s[i])] = Circular
  <2>1. PICK j \in i .. Len(s) : s[j] = g
    BY <1>5
  <2> HIDE DEF f, g, p
  <2>2. Needs(d, s[j], s[i])
    BY <1>8, <2>1 DEF Needs
  <2> QED
    BY <1>2, <1>4, <1>5, <2>1, <2>2, Circle
<1> QED
  BY <1>7, <1>9

\* Why a package is refused.
LEMMA RefusedPackage ==
    ASSUME NEW d, DiskOK(d), NEW s, Len(s) \in Nat, Framed(d, s), NEW n \in 1 .. Len(s), s[n].t = "doc",
           s[n].todo # <<>>, Head(s[n].todo).t = "package",
           PackageRefusal(Head(s[n].todo).key, s[n].chain) # "none"
    PROVE  OfItem(d, Limit(d), Head(s[n].todo), CallOf(s[n]), {}) = Bad(PackageRefusal(Head(s[n].todo).key, s[n].chain))
<1> DEFINE f == s[n]
           key == Head(f.todo).key
<1>1. Built(d, f)
  BY DEF Framed
<1>2. \A m : OfItem(d, m, Head(f.todo), CallOf(f), {}) = OfPackage(m, key, {})
  BY DEF OfItem
<1>3. CASE ~IsOn(f.chain, key)
  <2>1. OfPackage(Limit(d), key, {}) = Bad(PackageRefusal(key, f.chain))
    BY <1>3 DEF PackageRefusal, OfPackage, OfSource
  <2> QED
    BY <1>2, <2>1
<1>4. CASE IsOn(f.chain, key)
  <2>1. PICK i \in 1 .. n : s[i].t = "doc" /\ SourceOf(d, s[i], key)
    BY <1>4 DEF Framed, IsOn
  <2>2. key \notin DOMAIN Locate
    <3>1. /\ Done(f.todo, f.items) + 1 \in 1 .. Len(f.items) /\ Head(f.todo) = f.items[Done(f.todo, f.items) + 1]
          /\ f.items \in ItemLists
      BY <1>1, BuiltTyped, RestTurns
    <3> QED
      BY <3>1, SourcesAssumption
  <2>3. key \in DOMAIN Registry
    BY <2>1, <2>2 DEF SourceOf
  <2>4. \A m : OfPackage(m, key, {}) = m[CallOf(s[i])]
    BY <2>1, <2>2, <2>3, PackageCounts
  <2>5. i \in 1 .. Len(s) /\ n \in i .. Len(s)
    OBVIOUS
  <2>6. ASSUME NEW h \in Nat, Blind(d, h)[CallOf(f)] # Circular
        PROVE  h - 1 \in Nat /\ Blind(d, h - 1)[CallOf(s[i])] # Circular
    <3>1. h - 1 \in Nat /\ OfItem(d, Blind(d, h - 1), Head(f.todo), CallOf(f), {}) # Circular
      BY <1>1, <2>6, ItemDeep
    <3> QED
      BY <1>2, <2>4, <3>1
  <2>7. Limit(d)[CallOf(s[i])] = Circular
    <3>1. Needs(d, s[n], s[i])
      BY <2>6 DEF Needs
    <3> QED
      BY <2>1, <2>5, <3>1, Circle
  <2>8. PackageRefusal(key, f.chain) = "circular"
    BY <1>4 DEF PackageRefusal
  <2> QED
    BY <1>2, <2>4, <2>7, <2>8 DEF Circular
<1> QED
  BY <1>3, <1>4

\* The candidates are a sequence.
LEMMA CandidatesSequence ==
    ASSUME NEW item, NEW dir
    PROVE  \E S : Candidates(item, dir) \in Seq(S)
<1> DEFINE path(ext) == [dir |-> Join(IF item.cwd THEN Cwd ELSE dir, item.dir), stem |-> item.stem, ext |-> ext]
<1>1. CASE item.ext # ""
  <2>1. Candidates(item, dir) = <<path(item.ext)>>
    BY <1>1 DEF Candidates
  <2> HIDE DEF path
  <2>2. Candidates(item, dir) \in Seq({path(item.ext)})
    BY <2>1
  <2> QED
    BY <2>2
<1>2. CASE item.ext = ""
  <2>1. Candidates(item, dir) = <<path("properties"), path("json"), path("conf")>>
    BY <1>2 DEF Candidates
  <2> HIDE DEF path
  <2>2. Candidates(item, dir) \in Seq({path("properties"), path("json"), path("conf")})
    BY <2>1
  <2> QED
    BY <2>2
<1> QED
  BY <1>1, <1>2

\* What the frame g becomes: a build with the bindings x, a probe with those of a candidate, a
\* probe without a candidate that is not there.
Took(f, g, x)   == f = [g EXCEPT !.todo = Tail(@), !.got = @ \o x]
Loaded(f, g, x) == f = [g EXCEPT !.todo = Tail(@), !.got = @ \o x, !.found = TRUE]
Passed(f, g)    == f = [g EXCEPT !.todo = Tail(@), !.failed = "none"]

\* A build goes on with what its item has brought in.
LEMMA BuildGoesOn ==
    ASSUME NEW d, DiskOK(d), NEW g, Built(d, g), Typed(g), g.t = "doc", g.todo # <<>>,
           NEW x, OfItem(d, Limit(d), Head(g.todo), CallOf(g), {}) = Yes(x),
           NEW f, Took(f, g, x)
    PROVE  Built(d, f) /\ f.t = "doc" /\ f.chain = g.chain /\ f.name = g.name /\ f.dir = g.dir /\ f.items = g.items
<1>1. {"t", "chain", "got", "name", "items", "todo", "dir"} \subseteq DOMAIN g
  BY DEF Built, Typed
<1>2. /\ DOMAIN f = DOMAIN g /\ f.t = "doc" /\ f.chain = g.chain /\ f.name = g.name /\ f.dir = g.dir
      /\ f.items = g.items /\ f.todo = Tail(g.todo) /\ f.got = g.got \o x
  BY <1>1 DEF Took
<1>3. CallOf(f) = CallOf(g)
  BY <1>2 DEF CallOf
<1>4. /\ Rest(Tail(g.todo), g.items)
      /\ OfItems(d, Limit(d), CallOf(g), {}, Done(Tail(g.todo), g.items)) = Yes(g.got \o x)
  BY ItemCounts
<1> QED
  BY <1>1, <1>2, <1>3, <1>4 DEF Built

\* A probe goes on after a candidate that is there, and after one that is not.
LEMMA ProbeGoesOn ==
    ASSUME NEW d, DiskOK(d), NEW q, NEW g, Tried(d, q, g), Typed(q), q.t = "probe", q.todo # <<>>, q.failed = "none",
           Held(d, Head(q.todo)) # Missing, NEW x, OfPath(d, Limit(d), Head(q.todo), {}) = Yes(x),
           NEW f, Loaded(f, q, x)
    PROVE  Tried(d, f, g) /\ f.t = "probe" /\ f.chain = q.chain
<1>1. {"t", "chain", "got", "failed", "todo", "required", "found"} \subseteq DOMAIN q
  BY DEF Tried, Typed
<1>2. /\ DOMAIN f = DOMAIN q /\ f.t = "probe" /\ f.chain = q.chain /\ f.failed = "none"
      /\ f.required = q.required /\ f.todo = Tail(q.todo) /\ f.got = q.got \o x /\ f.found = TRUE
  BY <1>1 DEF Loaded
<1>3. /\ Rest(Tail(q.todo), PathsOf(g))
      /\ OfPaths(d, Limit(d), PathsOf(g), {}, Done(Tail(q.todo), PathsOf(g))) = Yes(q.got \o x)
  BY PathCounts
<1>4. \E i \in 1 .. Done(Tail(q.todo), PathsOf(g)) : Held(d, PathsOf(g)[i]) # Missing
  BY PathCounts
<1> QED
  BY <1>1, <1>2, <1>3, <1>4 DEF Tried

LEMMA ProbePasses ==
    ASSUME NEW d, DiskOK(d), NEW q, NEW g, Tried(d, q, g), Typed(q), q.t = "probe", q.todo # <<>>,
           Held(d, Head(q.todo)) = Missing, NEW f, Passed(f, q)
    PROVE  Tried(d, f, g) /\ f.t = "probe" /\ f.chain = q.chain
<1>1. {"t", "chain", "got", "failed", "todo", "required", "found"} \subseteq DOMAIN q /\ q.got \in Seq(Names)
  BY DEF Tried, Typed
<1>2. /\ DOMAIN f = DOMAIN q /\ f.t = "probe" /\ f.chain = q.chain /\ f.failed = "none"
      /\ f.required = q.required /\ f.todo = Tail(q.todo) /\ f.got = q.got /\ f.found = q.found
  BY <1>1 DEF Passed
<1>3. OfPath(d, Limit(d), Head(q.todo), {}) = Yes(<<>>)
  BY DEF OfPath
<1>4. q.got \o <<>> = q.got
  BY <1>1
<1>5. /\ Rest(Tail(q.todo), PathsOf(g))
      /\ OfPaths(d, Limit(d), PathsOf(g), {}, Done(Tail(q.todo), PathsOf(g))) = Yes(q.got \o <<>>)
  BY <1>3, PathCounts
<1>6. q.found \in BOOLEAN
  BY DEF Tried
<1>7. q.found <=> (\E i \in 1 .. Done(Tail(q.todo), PathsOf(g)) : Held(d, PathsOf(g)[i]) # Missing)
  BY PathCounts
<1> QED
  BY <1>1, <1>2, <1>4, <1>5, <1>6, <1>7 DEF Tried

\* A candidate is rejected before anybody knows whether it is there.
LEMMA ProbeRejects ==
    ASSUME NEW d, NEW q, NEW g, Tried(d, q, g), Typed(q), q.t = "probe", q.todo # <<>>,
           NEW f, f = [q EXCEPT !.failed = Why(d, Head(q.todo), q.chain)]
    PROVE  Tried(d, f, g) /\ f.t = "probe" /\ f.chain = q.chain
<1>1. {"t", "chain", "got", "failed", "todo", "required", "found"} \subseteq DOMAIN q
  BY DEF Tried, Typed
<1>2. /\ DOMAIN f = DOMAIN q /\ f.t = "probe" /\ f.chain = q.chain /\ f.failed = Why(d, Head(q.todo), q.chain)
      /\ f.required = q.required /\ f.todo = q.todo /\ f.got = q.got /\ f.found = q.found
  BY <1>1
<1> QED
  BY <1>1, <1>2 DEF Tried

\* A source that is opened.
LEMMA BuildBegins ==
    ASSUME NEW d, NEW name, NEW dir, NEW chain, NEW items,
           items \in ItemLists, name \in Names, dir \in Dirs
    PROVE  Built(d, DocFrame(name, dir, chain, items))
<1> DEFINE f == DocFrame(name, dir, chain, items)
<1>1. /\ {"items", "todo", "dir"} \subseteq DOMAIN f /\ f.items = items /\ f.todo = items /\ f.name = name
      /\ f.dir = dir /\ f.got = <<>>
  BY DEF DocFrame
<1>2. items \in Seq({items[i] : i \in DOMAIN items})
  BY SourcesAssumption DEF IsSequence
<1>3. Rest(items, items) /\ Done(items, items) = 0
  BY <1>2, RestAll
<1>4. CallOf(f) \in Calls
  BY <1>1 DEF CallOf, Call, Calls
<1>5. OfItems(d, Limit(d), CallOf(f), {}, 0) = Yes(<<>>)
  BY ChainedTurns DEF OfItems
<1> HIDE DEF f
<1>6. Rest(f.todo, f.items) /\ Done(f.todo, f.items) = 0
  BY <1>1, <1>3
<1>7. OfItems(d, Limit(d), CallOf(f), {}, Done(f.todo, f.items)) = Yes(f.got)
  BY <1>1, <1>5, <1>6
<1>8. Built(d, f)
  BY <1>1, <1>4, <1>6, <1>7 DEF Built
<1> QED
  BY <1>8 DEF f

\* An include that is begun.
LEMMA ProbeBegins ==
    ASSUME NEW d, NEW g, g.todo # <<>>, Head(g.todo).t = "include", NEW chain
    PROVE  Tried(d, Probe(PathsOf(g), Head(g.todo).required, chain), g)
<1> DEFINE f == Probe(PathsOf(g), Head(g.todo).required, chain)
<1>1. /\ {"todo", "required", "found"} \subseteq DOMAIN f /\ f.todo = PathsOf(g) /\ f.got = <<>>
      /\ f.required = Head(g.todo).required /\ f.found = FALSE /\ f.failed = "none"
  BY DEF Probe
<1>2. \E S : PathsOf(g) \in Seq(S)
  BY CandidatesSequence DEF PathsOf
<1>3. Rest(PathsOf(g), PathsOf(g)) /\ Done(PathsOf(g), PathsOf(g)) = 0
  BY <1>2, RestAll
<1>4. OfPaths(d, Limit(d), PathsOf(g), {}, 0) = Yes(<<>>)
  BY ChainedTurns DEF OfPaths
<1> HIDE DEF f
<1>5. f.found = (\E i \in 1 .. 0 : Held(d, PathsOf(g)[i]) # Missing)
  <2>1. ~ \E i \in 1 .. 0 : Held(d, PathsOf(g)[i]) # Missing
    OBVIOUS
  <2> QED
    BY <1>1, <2>1
<1>6. Rest(f.todo, PathsOf(g)) /\ Done(f.todo, PathsOf(g)) = 0
  BY <1>1, <1>3
<1>7. OfPaths(d, Limit(d), PathsOf(g), {}, Done(f.todo, PathsOf(g))) = Yes(f.got)
  BY <1>1, <1>4, <1>6
<1>8. f.found = (\E i \in 1 .. Done(f.todo, PathsOf(g)) : Held(d, PathsOf(g)[i]) # Missing)
  BY <1>5, <1>6
<1>9. Tried(d, f, g)
  BY <1>1, <1>6, <1>7, <1>8 DEF Tried
<1> QED
  BY <1>9 DEF f

(* ------------------------------ the stack ------------------------------ *)
\* The stack s and the outcome o go with what the files on d bring in.
Follows(d, s, o) ==
    Framed(d, s) /\ s[1].name = "top" /\ (o.t # "loading" => o = Limit(d)[CallOf(s[1])])

\* The top frame changes, a frame is pushed, a caller goes on, and the load fails.
LEMMA ChangeFollows ==
    ASSUME StackTyped, NEW d, Framed(d, stack), stack[1].name = "top",
           NEW f, Fits(d, stack, Len(stack), f), Len(stack) = 1 => f.name = Top.name, Change(f)
    PROVE  Framed(d, stack') /\ stack'[1].name = "top"
<1>1. PICK S : stack \in Seq(S)
  BY DEF StackTyped
<1>2. Len(stack) \in Nat \ {0}
  BY TopTyped
<1>3. Replaces(stack, Len(stack), f, stack')
  BY <1>1, <1>2 DEF Change, Replaces
<1>4. Framed(d, stack')
  BY <1>2, <1>3, Replaced
<1>5. stack'[1].name = "top"
  BY <1>2, <1>3 DEF Replaces, Top
<1> QED
  BY <1>4, <1>5

LEMMA PushFollows ==
    ASSUME StackTyped, NEW d, Framed(d, stack), stack[1].name = "top",
           NEW f, Fits(d, stack, Len(stack) + 1, f), Push(f)
    PROVE  Framed(d, stack') /\ stack'[1].name = "top"
<1>1. PICK S : stack \in Seq(S)
  BY DEF StackTyped
<1>2. Len(stack) \in Nat \ {0}
  BY TopTyped
<1>3. Replaces(stack, Len(stack) + 1, f, stack')
  BY <1>1, <1>2 DEF Push, Replaces
<1>4. Framed(d, stack')
  BY <1>2, <1>3, Replaced
<1>5. stack'[1].name = "top"
  BY <1>2, <1>3 DEF Replaces
<1> QED
  BY <1>4, <1>5

LEMMA ReturnFollows ==
    ASSUME StackTyped, NEW d, Framed(d, stack), stack[1].name = "top", Len(stack) > 1,
           NEW f, Fits(d, stack, Len(stack) - 1, f), Len(stack) = 2 => f.name = stack[1].name,
           stack' = [Below(stack) EXCEPT ![Len(stack) - 1] = f]
    PROVE  Framed(d, stack') /\ stack'[1].name = "top"
<1>1. PICK S : stack \in Seq(S)
  BY DEF StackTyped
<1>2. Len(stack) \in Nat \ {0}
  BY TopTyped
<1>3. Below(stack) \in Seq(S) /\ Len(Below(stack)) = Len(stack) - 1 /\ \A k \in 1 .. Len(stack) - 1 : Below(stack)[k] = stack[k]
  BY <1>1, <1>2 DEF Below
<1>4. Replaces(stack, Len(stack) - 1, f, stack')
  BY <1>2, <1>3 DEF Replaces
<1>5. Framed(d, stack')
  BY <1>2, <1>4, Replaced
<1>6. stack'[1].name = "top"
  BY <1>2, <1>4 DEF Replaces
<1> QED
  BY <1>5, <1>6

LEMMA FailFollows ==
    ASSUME StackTyped, NEW d, DiskOK(d), Framed(d, stack), stack[1].name = "top",
           NEW k \in 1 .. Len(stack), stack[k].t = "doc", NEW e, Limit(d)[CallOf(stack[k])] = Bad(e), Fail(e)
    PROVE  Follows(d, stack', outcome')
<1>1. Len(stack) \in Nat /\ stack[1].t = "doc"
  BY TopTyped DEF StackTyped
<1>2. Limit(d)[CallOf(stack[1])] = Bad(e)
  BY <1>1, Blame
<1> QED
  BY <1>2 DEF Follows, Fail, Bad

\* What the caller of the top frame becomes.
LEMMA Returned ==
    ASSUME StackTyped, Len(stack) > 1, NEW x, stack' = Return(Below(stack), x)
    PROVE  LET g == stack[Len(stack) - 1] IN
           stack' = [Below(stack) EXCEPT ![Len(stack) - 1] =
                        IF g.t = "doc" THEN [g EXCEPT !.todo = Tail(@), !.got = @ \o x]
                        ELSE [g EXCEPT !.todo = Tail(@), !.got = @ \o x, !.found = TRUE]]
<1>1. PICK S : stack \in Seq(S)
  BY DEF StackTyped
<1>2. Len(stack) \in Nat \ {0}
  BY TopTyped
<1>3. Below(stack) \in Seq(S) /\ Len(Below(stack)) = Len(stack) - 1 /\ Below(stack)[Len(stack) - 1] = stack[Len(stack) - 1]
  BY <1>1, <1>2 DEF Below
<1> QED
  BY <1>3 DEF Return

(* ------------------------------ the steps ------------------------------ *)
\* The frame on top, and its caller.
LEMMA TopFollows ==
    ASSUME StackTyped, NEW d, Framed(d, stack)
    PROVE  /\ Len(stack) \in Nat \ {0} /\ Typed(Top) /\ Top = stack[Len(stack)] /\ Top.t \in {"doc", "probe"}
           /\ Top.t = "doc" => Built(d, Top)
           /\ Len(stack) > 1 => Over(d, Top, stack[Len(stack) - 1]) /\ Typed(stack[Len(stack) - 1])
           /\ Top.t = "probe" =>
                  /\ Len(stack) > 1 /\ stack[Len(stack) - 1].t = "doc"
                  /\ Tried(d, Top, stack[Len(stack) - 1]) /\ Built(d, stack[Len(stack) - 1])
<1>1. Len(stack) \in Nat \ {0} /\ Typed(Top) /\ Top = stack[Len(stack)] /\ (Top.t = "probe" => Len(stack) > 1)
  BY TopTyped DEF Top
<1>2. Top.t \in {"doc", "probe"} /\ (Top.t = "doc" => Built(d, Top))
  BY <1>1 DEF Framed
<1>3. ASSUME Len(stack) > 1
      PROVE  /\ Over(d, Top, stack[Len(stack) - 1]) /\ Typed(stack[Len(stack) - 1])
             /\ stack[Len(stack) - 1].t = "doc" => Built(d, stack[Len(stack) - 1])
  <2>1. Len(stack) \in 2 .. Len(stack) /\ Len(stack) - 1 \in 1 .. Len(stack)
    BY <1>1, <1>3
  <2>2. Typed(stack[Len(stack) - 1])
    BY <2>1 DEF StackTyped
  <2> QED
    BY <1>1, <2>1, <2>2 DEF Framed
<1>4. ASSUME Top.t = "probe" PROVE stack[Len(stack) - 1].t = "doc" /\ Tried(d, Top, stack[Len(stack) - 1])
  BY <1>1, <1>3, <1>4 DEF Over
<1> QED
  BY <1>1, <1>2, <1>3, <1>4

\* A path is refused in the state as on its disk.
LEMMA WhyRefused ==
    ASSUME NEW p, NEW chain
    PROVE  Refusal(p, chain) = Why(disk, p, chain) /\ Content(p) = Held(disk, p) /\ (IsThere(p) <=> Held(disk, p) # Missing)
  BY DEF Refusal, Why, IsThere, Content, Held

\* The top frame is changed, or gives what it has got to its caller.
LEMMA BuildAdvances ==
    ASSUME StackTyped, NEW d, DiskOK(d), Framed(d, stack), stack[1].name = "top", Top.t = "doc", Top.todo # <<>>,
           NEW x, OfItem(d, Limit(d), Head(Top.todo), CallOf(Top), {}) = Yes(x),
           Change([Top EXCEPT !.todo = Tail(@), !.got = @ \o x])
    PROVE  Framed(d, stack') /\ stack'[1].name = "top"
<1> DEFINE h == Top
<1>0. PICK f : Took(f, h, x)
  BY DEF Took
<1>1. Len(stack) \in Nat \ {0} /\ Typed(Top) /\ Top = stack[Len(stack)] /\ Built(d, Top)
  BY TopFollows
<1>2. Built(d, f) /\ f.t = "doc" /\ f.chain = Top.chain /\ f.name = Top.name /\ f.dir = Top.dir /\ f.items = Top.items
  <2>1. /\ Built(d, h) /\ Typed(h) /\ h.t = "doc" /\ h.todo # <<>> /\ h = Top
        /\ OfItem(d, Limit(d), Head(h.todo), CallOf(h), {}) = Yes(x)
    BY <1>1
  <2> HIDE DEF h
  <2> QED
    BY <1>0, <2>1, BuildGoesOn
<1>3. Fits(d, stack, Len(stack), f)
  BY <1>1, <1>2, Kept
<1>4. Change(f)
  BY <1>0 DEF Took
<1> QED
  BY <1>2, <1>3, <1>4, ChangeFollows

LEMMA ProbeAdvances ==
    ASSUME StackTyped, NEW d, Framed(d, stack), stack[1].name = "top", Top.t = "probe",
           NEW f, Tried(d, f, stack[Len(stack) - 1]), f.t = "probe", f.chain = Top.chain, Change(f)
    PROVE  Framed(d, stack') /\ stack'[1].name = "top"
<1>1. Len(stack) \in Nat \ {0} /\ Top = stack[Len(stack)] /\ Len(stack) > 1
  BY TopFollows
<1>2. Fits(d, stack, Len(stack), f)
  BY <1>1, Kept
<1> QED
  BY <1>1, <1>2, ChangeFollows

LEMMA BuildReturns ==
    ASSUME StackTyped, NEW d, DiskOK(d), Framed(d, stack), stack[1].name = "top", Len(stack) > 1,
           stack[Len(stack) - 1].t = "doc", stack[Len(stack) - 1].todo # <<>>,
           NEW x, stack' = Return(Below(stack), x),
           OfItem(d, Limit(d), Head(stack[Len(stack) - 1].todo), CallOf(stack[Len(stack) - 1]), {}) = Yes(x)
    PROVE  Framed(d, stack') /\ stack'[1].name = "top"
<1> DEFINE m == Len(stack) - 1
           g == stack[m]
<1>0. PICK f : Took(f, g, x)
  BY DEF Took
<1>1. m \in 1 .. Len(stack) /\ Len(stack) \in Nat /\ Typed(g)
  BY TopFollows
<1>2. Built(d, g)
  BY <1>1 DEF Framed
<1>3. Built(d, f) /\ f.t = "doc" /\ f.chain = g.chain /\ f.name = g.name /\ f.dir = g.dir /\ f.items = g.items
  <2>1. g.t = "doc" /\ g.todo # <<>> /\ OfItem(d, Limit(d), Head(g.todo), CallOf(g), {}) = Yes(x)
    OBVIOUS
  <2> HIDE DEF g, m
  <2> QED
    BY <1>0, <1>1, <1>2, <2>1, BuildGoesOn
<1>4. stack' = [Below(stack) EXCEPT ![m] = f]
  BY <1>0, Returned DEF Took
<1>5. Len(stack) = 2 => g = stack[1]
  OBVIOUS
<1>6. Fits(d, stack, m, f)
  <2>1. g = stack[m] /\ g.t = "doc"
    OBVIOUS
  <2> HIDE DEF g, m
  <2> QED
    BY <1>1, <1>3, <2>1, Kept
<1>7. Len(stack) = 2 => f.name = stack[1].name
  BY <1>3, <1>5
<1> QED
  BY <1>4, <1>6, <1>7, ReturnFollows

LEMMA ProbeReturns ==
    ASSUME StackTyped, NEW d, DiskOK(d), Framed(d, stack), stack[1].name = "top", Len(stack) > 1,
           Top.t = "doc", Top.todo = <<>>, stack[Len(stack) - 1].t = "probe",
           stack' = Return(Below(stack), Top.got)
    PROVE  Framed(d, stack') /\ stack'[1].name = "top"
<1> DEFINE m == Len(stack) - 1
           q == stack[m]
           g == stack[m - 1]
           x == Top.got
<1>0. PICK f : Loaded(f, q, x)
  BY DEF Loaded
<1>1. m \in 1 .. Len(stack) /\ Len(stack) \in Nat /\ Typed(q) /\ Over(d, Top, q) /\ Built(d, Top)
  BY TopFollows
<1>2. m # 1
  <2>1. stack[1].t = "doc" /\ stack[m].t = "probe"
    BY DEF StackTyped
  <2> HIDE DEF m
  <2> QED
    BY <2>1
<1>3. m \in 2 .. Len(stack) /\ m - 1 \in 1 .. Len(stack)
  <2> HIDE DEF m
  <2> QED
    BY <1>1, <1>2
<1>4. Tried(d, q, g)
  <2>1. q = stack[m] /\ q.t = "probe" /\ g = stack[m - 1]
    OBVIOUS
  <2> HIDE DEF m, q, g
  <2> QED
    BY <1>3, <2>1 DEF Framed, Over
<1>5. q.todo # <<>> /\ q.failed = "none" /\ Head(q.todo) \in DOMAIN Locate /\ SourceOf(d, Top, Head(q.todo))
  BY <1>1 DEF Over
<1>6. Limit(d)[CallOf(Top)] = Yes(Top.got)
  BY <1>1, BuildEnds
<1>7. Held(d, Head(q.todo)) # Missing /\ OfPath(d, Limit(d), Head(q.todo), {}) = Yes(Top.got)
  BY <1>5, <1>6, KeysApart, FileCounts
<1>8. Tried(d, f, g) /\ f.t = "probe" /\ f.chain = q.chain
  <2>1. q.t = "probe" /\ OfPath(d, Limit(d), Head(q.todo), {}) = Yes(x)
    BY <1>7
  <2> HIDE DEF m, q, g, x
  <2> QED
    BY <1>0, <1>1, <1>4, <1>5, <1>7, <2>1, ProbeGoesOn
<1>9. stack' = [Below(stack) EXCEPT ![m] = f]
  BY <1>0, Returned DEF Loaded
<1>10. Fits(d, stack, m, f)
  <2>1. q = stack[m] /\ g = stack[m - 1] /\ q.t = "probe"
    OBVIOUS
  <2> HIDE DEF m, q, g, x
  <2> QED
    BY <1>1, <1>3, <1>8, <2>1, Kept
<1>11. Len(stack) # 2
  <2>1. Len(stack) = m + 1
    BY <1>1
  <2> HIDE DEF m
  <2> QED
    BY <1>3, <2>1
<1> QED
  BY <1>9, <1>10, <1>11, ReturnFollows

\* A source is opened.
LEMMA DocPushed ==
    ASSUME StackTyped, NEW d, Framed(d, stack), stack[1].name = "top",
           NEW f, f.t = "doc", Built(d, f), Over(d, f, Top),
           NEW key \in Key, f.chain = Append(Top.chain, key), SourceOf(d, f, key), Push(f)
    PROVE  Framed(d, stack') /\ stack'[1].name = "top"
<1>1. Len(stack) \in Nat \ {0} /\ Top = stack[Len(stack)] /\ Top.chain \in Seq(Key)
  BY TopFollows DEF Typed
<1>2. Fits(d, stack, Len(stack) + 1, f)
  BY <1>1, Pushed
<1> QED
  BY <1>2, PushFollows

\* One step of the loader.
LEMMA LoadFollows ==
    ASSUME StackTyped, DiskOK(disk), Follows(disk, stack, outcome), Load
    PROVE  Follows(disk, stack', outcome')
<1>1. Framed(disk, stack) /\ stack[1].name = "top" /\ outcome.t = "loading"
  BY DEF Follows, Load, BuildOwn, BeginInclude, BeginPackage, Reject, LoadProperties, Descend, Judge,
         EndProbe, EndDoc, Building, Probing
<1>2. ASSUME Framed(disk, stack'), stack'[1].name = "top", UNCHANGED outcome PROVE Follows(disk, stack', outcome')
  BY <1>1, <1>2 DEF Follows
<1>3. /\ Len(stack) \in Nat \ {0} /\ Typed(Top) /\ Top = stack[Len(stack)]
      /\ Top.t = "doc" => Built(disk, Top)
      /\ Top.t = "probe" =>
             /\ Len(stack) > 1 /\ Len(stack) - 1 \in 1 .. Len(stack) /\ stack[Len(stack) - 1].t = "doc"
             /\ Tried(disk, Top, stack[Len(stack) - 1]) /\ Built(disk, stack[Len(stack) - 1])
  BY <1>1, TopFollows
<1>4. CASE BuildOwn
  <2>1. Top.t = "doc" /\ Top.todo # <<>> /\ Head(Top.todo).t = "own" /\ UNCHANGED outcome
    BY <1>4 DEF BuildOwn, Building
  <2>2. OfItem(disk, Limit(disk), Head(Top.todo), CallOf(Top), {}) = Yes(<<Top.name>>)
    BY <2>1 DEF OfItem, CallOf, Call
  <2>3. Change([Top EXCEPT !.todo = Tail(@), !.got = @ \o <<Top.name>>])
    <3>1. Append(Top.got, Top.name) = Top.got \o <<Top.name>> /\ "got" \in DOMAIN Top
      BY <1>3 DEF Typed
    <3>2. [Top EXCEPT !.todo = Tail(@), !.got = @ \o <<Top.name>>] = [Top EXCEPT !.todo = Tail(@), !.got = Append(@, Top.name)]
      BY <3>1
    <3> QED
      BY <1>4, <3>2 DEF BuildOwn
  <2> QED
    BY <1>1, <1>2, <2>1, <2>2, <2>3, BuildAdvances
<1>5. CASE BeginInclude
  <2> DEFINE f == Probe(PathsOf(Top), Head(Top.todo).required, Top.chain)
  <2>1. Top.t = "doc" /\ Top.todo # <<>> /\ Head(Top.todo).t = "include" /\ Push(f) /\ UNCHANGED outcome
    BY <1>5 DEF BeginInclude, Building, PathsOf
  <2>2. Tried(disk, f, Top)
    BY <2>1, ProbeBegins
  <2>3. f.t = "probe" /\ f.chain = Top.chain
    BY DEF Probe
  <2> HIDE DEF f
  <2>4. Over(disk, f, Top)
    BY <2>1, <2>2, <2>3 DEF Over
  <2>5. Fits(disk, stack, Len(stack) + 1, f)
    BY <1>1, <1>3, <2>3, <2>4, Pushed DEF Typed
  <2>6. Framed(disk, stack') /\ stack'[1].name = "top"
    BY <1>1, <2>1, <2>5, PushFollows
  <2> QED
    BY <1>2, <2>1, <2>6
<1>6. CASE BeginPackage
  <2> DEFINE key == Head(Top.todo).key
             why == PackageRefusal(key, Top.chain)
             f   == DocFrame(key.package, Cwd, Append(Top.chain, key), Registry[key].items)
  <2>1. /\ Top.t = "doc" /\ Top.todo # <<>> /\ Head(Top.todo).t = "package"
        /\ IF why # "none" THEN Fail(why) ELSE Push(f) /\ UNCHANGED outcome
    BY <1>6 DEF BeginPackage, Building
  <2>2. CASE why # "none"
    <3>1. Fail(why) /\ Len(stack) \in 1 .. Len(stack)
      BY <1>3, <2>1, <2>2
    <3>2. OfItem(disk, Limit(disk), Head(Top.todo), CallOf(Top), {}) = Bad(why)
      BY <1>1, <1>3, <2>1, <2>2, RefusedPackage
    <3> HIDE DEF why
    <3>3. Limit(disk)[CallOf(Top)] = Bad(why)
      BY <1>3, <2>1, <3>2, ItemCounts
    <3> QED
      BY <1>1, <1>3, <2>1, <3>1, <3>3, FailFollows
  <2>3. CASE why = "none"
    <3>1. key \in DOMAIN Registry /\ key \in Key /\ Registry[key].t \notin {"broken", "array"} /\ Push(f) /\ UNCHANGED outcome
      BY <2>1, <2>3 DEF PackageRefusal, Key
    <3>2. f.t = "doc" /\ f.chain = Append(Top.chain, key) /\ SourceOf(disk, f, key)
      BY <3>1 DEF DocFrame, SourceOf
    <3>3. Built(disk, f)
      BY <3>1, RegistryTyped, BuildBegins
    <3>4. Over(disk, f, Top)
      BY <2>1, <3>1, <3>2 DEF Over
    <3> HIDE DEF f, key
    <3>5. Framed(disk, stack') /\ stack'[1].name = "top"
      BY <1>1, <3>1, <3>2, <3>3, <3>4, DocPushed
    <3> QED
      BY <1>2, <3>1, <3>5
  <2> QED
    BY <2>2, <2>3
<1>7. CASE Reject
  <2> DEFINE f == [Top EXCEPT !.failed = Why(disk, Head(Top.todo), Top.chain)]
  <2>1. Top.t = "probe" /\ Top.todo # <<>> /\ Change(f) /\ UNCHANGED outcome
    BY <1>7, WhyRefused DEF Reject, Probing
  <2>2. Tried(disk, f, stack[Len(stack) - 1]) /\ f.t = "probe" /\ f.chain = Top.chain
    BY <1>3, <2>1, ProbeRejects
  <2> HIDE DEF f
  <2> QED
    BY <1>1, <1>2, <2>1, <2>2, ProbeAdvances
<1>8. CASE LoadProperties
  <2> DEFINE p == Head(Top.todo)
             q == Top
             x == <<Locate[p]>>
  <2>0. PICK f : Loaded(f, q, x)
    BY DEF Loaded
  <2>1. /\ Top.t = "probe" /\ Top.todo # <<>> /\ Top.failed = "none" /\ UNCHANGED outcome
        /\ Why(disk, p, Top.chain) = "none" /\ p.ext = "properties"
        /\ Change([Top EXCEPT !.todo = Tail(@), !.found = TRUE, !.got = Append(@, Locate[p])])
    BY <1>8, WhyRefused DEF LoadProperties, Probing
  <2>2. Held(disk, p) # Missing /\ OfPath(disk, Limit(disk), p, {}) = Yes(<<Locate[p]>>)
    BY <2>1 DEF Why, OfPath
  <2>3. Change(f)
    <3>1. Append(Top.got, Locate[p]) = Top.got \o <<Locate[p]>>
      <4>1. Top.got \in Seq(Names) /\ Locate[p] \in Names
        BY <1>3, <2>2, HeldTyped DEF Typed
      <4> HIDE DEF p
      <4> QED
        BY <4>1
    <3>2. f = [Top EXCEPT !.todo = Tail(@), !.found = TRUE, !.got = Append(@, Locate[p])]
      BY <2>0, <3>1 DEF Loaded
    <3> QED
      BY <2>1, <3>2
  <2>4. Tried(disk, f, stack[Len(stack) - 1]) /\ f.t = "probe" /\ f.chain = Top.chain
    <3>1. /\ q = Top /\ q.t = "probe" /\ q.todo # <<>> /\ q.failed = "none" /\ Typed(q) /\ p = Head(q.todo)
          /\ Tried(disk, q, stack[Len(stack) - 1]) /\ Held(disk, Head(q.todo)) # Missing
          /\ OfPath(disk, Limit(disk), Head(q.todo), {}) = Yes(x)
      BY <1>3, <2>1, <2>2
    <3> HIDE DEF q, p, x
    <3>2. Tried(disk, f, stack[Len(stack) - 1]) /\ f.t = "probe" /\ f.chain = q.chain
      BY <2>0, <3>1, ProbeGoesOn
    <3> QED
      BY <3>1, <3>2
  <2> QED
    BY <1>1, <1>2, <2>1, <2>3, <2>4, ProbeAdvances
<1>9. CASE Descend
  <2> DEFINE p == Head(Top.todo)
             f == DocFrame(Locate[p], p.dir, Append(Top.chain, p), Held(disk, p).items)
  <2>1. /\ Top.t = "probe" /\ Top.todo # <<>> /\ Top.failed = "none" /\ UNCHANGED outcome
        /\ Why(disk, p, Top.chain) = "none" /\ p.ext # "properties" /\ Push(f)
    BY <1>9, WhyRefused DEF Descend, Probing
  <2>2. Held(disk, p) # Missing /\ Held(disk, p).t \notin {"broken", "array"}
    BY <2>1 DEF Why
  <2>3. /\ p \in DOMAIN Locate /\ p \in Key /\ Held(disk, p) = disk[Locate[p]]
        /\ Held(disk, p).items \in ItemLists /\ Locate[p] \in Names /\ p.dir \in Dirs
    BY <2>2, HeldTyped DEF Key
  <2>4. f.t = "doc" /\ f.chain = Append(Top.chain, p) /\ SourceOf(disk, f, p)
    BY <2>1, <2>2, <2>3 DEF DocFrame, SourceOf
  <2>5. Built(disk, f)
    BY <2>3, BuildBegins
  <2>6. Over(disk, f, Top)
    BY <2>1, <2>3, <2>4 DEF Over
  <2> HIDE DEF f, p
  <2>7. Framed(disk, stack') /\ stack'[1].name = "top"
    BY <1>1, <2>1, <2>3, <2>4, <2>5, <2>6, DocPushed
  <2> QED
    BY <1>2, <2>1, <2>7
<1>10. CASE Judge
  <2> DEFINE g == stack[Len(stack) - 1]
             p == Head(Top.todo)
  <2>1. /\ Top.t = "probe" /\ Top.failed # "none"
        /\ IF Held(disk, p) # Missing THEN Fail(Top.failed)
           ELSE Change([Top EXCEPT !.todo = Tail(@), !.failed = "none"]) /\ UNCHANGED outcome
    BY <1>10, WhyRefused DEF Judge, Probing
  <2>2. /\ g.t = "doc" /\ Tried(disk, Top, g) /\ Built(disk, g) /\ g.todo # <<>>
        /\ Top.todo # <<>> /\ Top.failed = Why(disk, p, Top.chain)
    BY <1>3, <2>1 DEF Tried
  <2>3. CASE Held(disk, p) # Missing
    <3>1. OfPath(disk, Limit(disk), p, {}) = Bad(Top.failed)
      <4>1. CASE IsOn(Top.chain, p)
        <5>1. Len(stack) \in 2 .. Len(stack)
          BY <1>3, <2>1
        <5>2. OfPath(disk, Limit(disk), p, {}) = Circular
          BY <1>1, <1>3, <2>1, <2>2, <2>3, <4>1, <5>1, RefusedCircle
        <5>3. Top.failed = "circular"
          BY <2>2, <4>1 DEF Why
        <5> QED
          BY <5>2, <5>3 DEF Circular
      <4>2. CASE ~IsOn(Top.chain, p)
        BY <2>1, <2>2, <2>3, <4>2, RefusedPath
      <4> QED
        BY <4>1, <4>2
    <3>2. OfItem(disk, Limit(disk), Head(g.todo), CallOf(g), {}) = Bad(Top.failed)
      BY <2>2, <2>3, <3>1, PathCounts
    <3>3. Limit(disk)[CallOf(g)] = Bad(Top.failed)
      BY <2>2, <3>2, ItemCounts
    <3> QED
      BY <1>1, <1>3, <2>1, <2>2, <2>3, <3>3, FailFollows
  <2>4. CASE Held(disk, p) = Missing
    <3> DEFINE q == Top
    <3>0. PICK f : Passed(f, q)
      BY DEF Passed
    <3>1. Tried(disk, f, g) /\ f.t = "probe" /\ f.chain = Top.chain
      <4>1. /\ q = Top /\ Tried(disk, q, g) /\ Typed(q) /\ q.t = "probe" /\ q.todo # <<>>
            /\ Held(disk, Head(q.todo)) = Missing
        BY <1>3, <2>1, <2>2, <2>4
      <4> HIDE DEF q, p, g
      <4>2. Tried(disk, f, g) /\ f.t = "probe" /\ f.chain = q.chain
        BY <3>0, <4>1, ProbePasses
      <4> QED
        BY <4>1, <4>2
    <3>2. Change(f) /\ UNCHANGED outcome
      BY <2>1, <2>4, <3>0 DEF Passed
    <3> QED
      BY <1>1, <1>2, <2>1, <3>1, <3>2, ProbeAdvances
  <2> QED
    BY <2>3, <2>4
<1>11. CASE EndProbe
  <2> DEFINE g == stack[Len(stack) - 1]
  <2>1. /\ Top.t = "probe" /\ Top.failed = "none" /\ Top.todo = <<>>
        /\ IF Top.required /\ ~Top.found THEN Fail("required")
           ELSE stack' = Return(Below(stack), Top.got) /\ UNCHANGED outcome
    BY <1>11 DEF EndProbe, Probing
  <2>2. g.t = "doc" /\ Tried(disk, Top, g) /\ Built(disk, g) /\ g.todo # <<>>
    BY <1>3, <2>1 DEF Tried
  <2>3. OfItem(disk, Limit(disk), Head(g.todo), CallOf(g), {}) =
            IF Top.required /\ ~Top.found THEN Bad("required") ELSE Yes(Top.got)
    BY <2>1, <2>2, ProbeEnds
  <2>4. CASE Top.required /\ ~Top.found
    <3>1. Limit(disk)[CallOf(g)] = Bad("required")
      BY <2>2, <2>3, <2>4, ItemCounts
    <3> QED
      BY <1>1, <1>3, <2>1, <2>2, <2>4, <3>1, FailFollows
  <2>5. CASE ~(Top.required /\ ~Top.found)
    BY <1>1, <1>2, <1>3, <2>1, <2>2, <2>3, <2>5, BuildReturns
  <2> QED
    BY <2>4, <2>5
<1>12. CASE EndDoc
  <2>1. Top.t = "doc" /\ Top.todo = <<>>
    BY <1>12 DEF EndDoc, Building
  <2>2. Limit(disk)[CallOf(Top)] = Yes(Top.got) /\ CallOf(Top) \in Calls
    BY <1>3, <2>1, BuildEnds DEF Built
  <2>3. CASE Len(stack) = 1
    <3>1. outcome' = Yes(Top.got) /\ stack' = stack /\ Top = stack[1]
      BY <1>3, <1>12, <2>3 DEF EndDoc, Yes
    <3> QED
      BY <1>1, <2>2, <3>1 DEF Follows
  <2>4. CASE Len(stack) # 1
    <3> DEFINE g == stack[Len(stack) - 1]
    <3>1. Len(stack) > 1 /\ stack' = Return(Below(stack), Top.got) /\ UNCHANGED outcome
      <4>1. Len(stack) > 1
        <5>1. Len(stack) \in Nat \ {0} /\ Len(stack) # 1
          BY <1>3, <2>4
        <5>2. \A n \in Nat \ {0} : n # 1 => n > 1
          OBVIOUS
        <5> QED
          BY <5>1, <5>2
      <4>2. stack' = Return(Below(stack), Top.got) /\ UNCHANGED outcome
        BY <1>12, <2>4 DEF EndDoc
      <4> QED
        BY <4>1, <4>2
    <3>2. Over(disk, Top, g) /\ Len(stack) - 1 \in 1 .. Len(stack)
      BY <1>1, <1>3, <3>1, TopFollows
    <3>3. g.t \in {"doc", "probe"}
      BY <1>1, <3>2 DEF Framed
    <3>4. CASE g.t = "probe"
      BY <1>1, <1>2, <2>1, <3>1, <3>4, ProbeReturns
    <3>5. CASE g.t = "doc"
      <4>1. /\ g.todo # <<>> /\ Head(g.todo).t = "package"
            /\ Head(g.todo).key \in DOMAIN Registry /\ SourceOf(disk, Top, Head(g.todo).key)
        BY <2>1, <3>2, <3>5 DEF Over
      <4>2. OfPackage(Limit(disk), Head(g.todo).key, {}) = Yes(Top.got)
        BY <2>2, <4>1, KeysApart, PackageCounts
      <4>3. OfItem(disk, Limit(disk), Head(g.todo), CallOf(g), {}) = Yes(Top.got)
        BY <4>1, <4>2 DEF OfItem
      <4> QED
        BY <1>1, <1>2, <3>1, <3>5, <4>1, <4>3, BuildReturns
    <3> QED
      BY <3>3, <3>4, <3>5
  <2> QED
    BY <2>3, <2>4
<1> QED
  BY <1>4, <1>5, <1>6, <1>7, <1>8, <1>9, <1>10, <1>11, <1>12 DEF Load

LInv == StackTyped /\ DiskTyped /\ OutcomeTyped /\ (quiet => Follows(disk, stack, outcome))

\* At first nothing is loaded,
LEMMA InitFollows == Init => LInv
<1> SUFFICES ASSUME Init PROVE Follows(disk, stack, outcome)
  BY InitTyped DEF LInv
<1>1. PICK d \in Documents : stack = <<DocFrame("top", d.dir, <<>>, d.items)>>
  BY DEF Init
<1> DEFINE f == DocFrame("top", d.dir, <<>>, d.items)
<1>2. f.t = "doc" /\ f.name = "top" /\ f.chain = <<>>
  BY DEF DocFrame
<1>3. Built(disk, f)
  BY BuildBegins DEF ItemLists, Names, Dirs
<1>4. Len(stack) = 1 /\ stack[1] = f
  BY <1>1
<1> HIDE DEF f
<1>5. Framed(disk, stack)
  BY <1>2, <1>3, <1>4 DEF Framed
<1> QED
  BY <1>2, <1>4, <1>5 DEF Follows, Init

\* and no step goes against the reference.
LEMMA StepFollows == LInv /\ [Next]_vars => LInv'
<1> SUFFICES ASSUME LInv, [Next]_vars PROVE LInv'
  OBVIOUS
<1>1. StackTyped' /\ DiskTyped' /\ OutcomeTyped'
  BY StepTyped DEF LInv
<1>2. CASE UNCHANGED vars
  BY <1>1, <1>2 DEF LInv, vars
<1>3. CASE \E f \in Shared : Touch(f)
  BY <1>1, <1>3 DEF LInv, Touch
<1>4. CASE Load
  <2>1. UNCHANGED files
    BY <1>4 DEF Load, BuildOwn, BeginInclude, BeginPackage, Reject, LoadProperties, Descend, Judge, EndProbe, EndDoc
  <2>2. disk' = disk /\ quiet' = quiet /\ DiskOK(disk)
    BY <2>1 DEF files, LInv, DiskTyped, DiskOK
  <2>3. quiet => Follows(disk, stack', outcome')
    BY <1>4, <2>2, LoadFollows DEF LInv
  <2> QED
    BY <1>1, <2>2, <2>3 DEF LInv
<1> QED
  BY <1>2, <1>3, <1>4 DEF Next

\* A load that nobody disturbs ends with what the reference expects.
THEOREM LoadsFaithfully == Spec => []Faithful
<1>1. ASSUME LInv PROVE Faithful
  <2>1. SUFFICES ASSUME quiet, outcome.t # "loading", Plain \/ Expected # Circular PROVE outcome = Expected
    BY DEF Faithful
  <2> DEFINE f == stack[1]
             c == Call(f.items, "top", f.dir, {})
             n == Cardinality(Names) + 1
  <2>2. Follows(disk, stack, outcome) /\ DiskOK(disk) /\ StackTyped /\ Len(stack) \in Nat \ {0}
    BY <1>1, <2>1, TopTyped DEF LInv, DiskTyped, DiskOK
  <2>3. /\ Built(disk, f) /\ f.name = "top" /\ outcome = Limit(disk)[CallOf(f)]
    <3>1. 1 \in 1 .. Len(stack)
      BY <2>2
    <3> QED
      BY <2>1, <2>2, <3>1 DEF Follows, Framed, StackTyped
  <2>4. f.items \in ItemLists /\ f.dir \in Dirs /\ "top" \in Names /\ CallOf(f) \in Calls
    BY <2>3, BuiltTyped
  <2>5. c \in Calls /\ c.open = {} /\ c.items = f.items /\ c.dir = f.dir
    BY <2>4 DEF Call, Calls
  <2>6. Alike(c, CallOf(f)) /\ Alike(CallOf(f), c)
    BY <2>3 DEF Alike, CallOf, Call
  <2>7. n \in Nat
    BY NamesFinite
  <2>8. Expected = Expand(disk, n)[c]
    BY DEF Expected
  <2>9. CASE Expected # Circular
    <3>1. Knows(Expand(disk, n), Blind(disk, n))
      BY <2>2, <2>7, ExpandBlind
    <3> HIDE DEF f, c, n
    <3>2. Blind(disk, n)[CallOf(f)] = Expected
      BY <2>4, <2>5, <2>6, <2>8, <2>9, <3>1 DEF Knows
    <3>3. Limit(disk)[CallOf(f)] = Expected
      BY <2>2, <2>4, <2>7, <2>9, <3>2, LimitMeaning
    <3> QED
      BY <2>3, <3>3
  <2>10. CASE Expected = Circular
    <3>1. PlainDisk(disk) /\ ~Upward(c.dir) /\ ~GoesUp(c.items)
      BY <2>1, <2>5, <2>10 DEF Plain, PlainDisk
    <3>2. Knows(Limit(disk), Limit(disk))
      BY <2>2, LimitKnows
    <3> HIDE DEF f, c
    <3>3. Limit(disk)[c] = Circular
      BY <2>2, <2>5, <2>8, <2>10, <3>1, PlainCircles
    <3>4. Limit(disk)[CallOf(f)] = Circular
      BY <2>4, <2>5, <2>6, <3>2, <3>3 DEF Knows
    <3> QED
      BY <2>3, <2>10, <3>4
  <2> QED
    BY <2>9, <2>10
<1> QED
  BY <1>1, InitFollows, StepFollows, PTL DEF Spec
=============================================================================
