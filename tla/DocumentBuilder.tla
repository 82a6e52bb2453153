--------------------------- MODULE DocumentBuilder ---------------------------
(***************************************************************************)
(* The loop of StructureBuilder::build over the root object as a state     *)
(* machine.  One step is one root field, applied with everything below it, *)
(* so that a behaviour is a document of one of the Families and every      *)
(* state is the tree of a prefix of it.                                    *)
(***************************************************************************)
EXTENDS StructureBuilder

CONSTANT Families   \* a document has at most F.max fields of F.fields, F in Families

VARIABLES
    doc,        \* the root fields written so far
    tree        \* the ResObj built from them

ASSUME FamiliesAssumption == \A F \in Families : F.max \in Nat

Fields == UNION {F.fields : F \in Families}

BuildInit == doc = <<>> /\ tree = NewObj

\* The families that d belongs to.
FamiliesOf(d) == {F \in Families : Len(d) <= F.max /\ ToSet(d) \subseteq F.fields}

\* The next field of the root object.
AddField(f) ==
    /\ FamiliesOf(Append(doc, f)) # {}
    /\ doc'  = Append(doc, f)
    /\ tree' = ApplyField(tree, f, <<>>)
=============================================================================
