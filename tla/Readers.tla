------------------------------ MODULE Readers ------------------------------
(***************************************************************************)
(* A configuration mounted from flat names, read from another format or    *)
(* handed over by a parser, and one getter asked of it (config.rs): the    *)
(* path is split, the node found, and a scalar goes to the reader of its   *)
(* unit.  A list is an array or an object with numeric keys                *)
(* (numeric_array.rs).                                                     *)
(***************************************************************************)
EXTENDS Json5, Yaml

VARIABLE query  \* what is asked: [path, as]

vars == <<mountVars, jsonVars, unitVars, query>>

NoQuery == [path |-> <<>>, as |-> "none"]

(* --------------------------- numeric_array.rs -------------------------- *)
\* A variant: any digits that are small enough.
IsIndexLoose(key) == key # <<>> /\ Digits(key) /\ Reading(key, MaxI32 + 1) <= MaxI32

\* As an index: digits, no zero in front, and no more than an i32 holds.
IsIndex(key) ==
    /\ key # <<>> /\ Digits(key)
    /\ key[1] = "0" => Len(key) = 1
    /\ Reading(key, MaxI32 + 1) <= MaxI32

\* numeric_object_to_array: the values under indices, in the order of these.
Indices(fields) ==
    SetToSortSeq({k \in DOMAIN fields : IsIndex(k)}, LAMBDA j, k : Reading(j, MaxI32) < Reading(k, MaxI32))
AsList(fields) == LET order == Indices(fields) IN [i \in DOMAIN order |-> fields[order[i]]]

(* ------------------------------- the getters --------------------------- *)
Answer(a) == answer' = a /\ UNCHANGED <<scalar, decimalVars>>

\* A getter of a node: a list from an object only if it has an index.
GetFrom(node, as) ==
    \/ /\ as = "list"
       /\ Answer(CASE node.t = "array" -> Ok(node.items)
                   [] node.t = "object" /\ Indices(node.fields) # <<>> -> Ok(AsList(node.fields))
                   [] OTHER -> Error("wrong type"))
    \/ /\ as = "string"
       /\ Answer(IF node.t = "scalar" /\ node.ty # "null" THEN Ok(node.raw) ELSE Error("wrong type"))
    \/ /\ as \notin {"list", "string"}
       /\ IF node.t = "scalar" THEN Request(node.raw, node.ty, as) ELSE Answer(Error("wrong type"))

Ask ==
    /\ outcome = Mounted /\ query = NoQuery
    /\ \E q \in {a \in source.asks : a.as # "type"} :
           /\ query' = q
           /\ LET found == Lookup(root.fields, SplitPath(q.path))
              IN  IF found = <<>> THEN Answer(Error("missing")) ELSE GetFrom(found[1], q.as)
    /\ UNCHANGED <<mountVars, jsonVars>>

Init == MountInit /\ JsonInit /\ UnitsInit /\ query = NoQuery

Next ==
    \/ (Mount \/ ConvertYaml) /\ UNCHANGED <<jsonVars, unitVars, query>>
    \/ (ScanJson5 \/ CleanJsonc) /\ UNCHANGED <<unitVars, query>>
    \/ Ask
    \/ ReadScalar /\ UNCHANGED <<mountVars, jsonVars, query>>

Spec == Init /\ [][Next]_vars
=============================================================================
