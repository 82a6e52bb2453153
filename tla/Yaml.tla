-------------------------------- MODULE Yaml --------------------------------
(***************************************************************************)
(* adapters/yaml.rs: a tree that the library has decoded becomes a tree of *)
(* the configuration.  Its mappings keep their entries in order, with keys *)
(* of several kinds; a merge key stands for the fields of other mappings.  *)
(***************************************************************************)
EXTENDS Mounts

MergeKey == [kind |-> "string", text |-> <<"<<">>]

Fine(value)   == [error |-> "none", value |-> value]
Faulty(error) == [error |-> error, value |-> EmptyMap]

\* Entries with what has been made of the ones before: f where there is no
\* error yet.
Converted(acc, r, f(_)) ==
    IF acc.error # "none" THEN acc ELSE IF r.error # "none" THEN [acc EXCEPT !.error = r.error] ELSE f(r.value)

\* A variant: what a merge brings in replaces the keys that are there.
LateMerge(own, merged) == merged @@ own

\* The keys that are written win over merged ones.
OwnFirst(own, merged) == own @@ merged

RECURSIVE Convert(_), CollectMerge(_)
\* convert: each entry in order; a second key with the text of an earlier one
\* is refused, for one of the two values would be lost.
ConvertMap(entries) ==
    LET Take(acc, e) ==
            IF e.key = MergeKey
            THEN Converted(acc, CollectMerge(e.value), LAMBDA fields : [acc EXCEPT !.merged = OwnFirst(@, fields)])
            ELSE Converted(acc,
                     IF e.key.kind = "collection" THEN Faulty("collection key")
                     ELSE IF e.key.text \in DOMAIN acc.own THEN Faulty("collision") ELSE Convert(e.value),
                     LAMBDA node : [acc EXCEPT !.own = e.key.text :> node @@ @])
        last == FoldLeft(Take, [error |-> "none", own |-> EmptyMap, merged |-> EmptyMap], entries)
    IN  IF last.error # "none" THEN Faulty(last.error) ELSE Fine(Object(OwnFirst(last.own, last.merged)))

ConvertList(items) ==
    LET Take(acc, item) == Converted(acc, Convert(item), LAMBDA node : [acc EXCEPT !.value = Append(@, node)])
        last == FoldLeft(Take, Fine(<<>>), items)
    IN  IF last.error # "none" THEN last ELSE Fine([t |-> "array", items |-> last.value])

Convert(node) ==
    CASE node.t = "map"    -> ConvertMap(node.entries)
      [] node.t = "list"   -> ConvertList(node.items)
      [] node.t = "scalar" -> Fine(node)
      [] node.t \in {"not finite", "unresolved"} -> Faulty(node.t)

\* collect_merge: one mapping, or several of which the earlier one wins.
CollectMerge(node) ==
    LET Take(acc, item) == Converted(acc, CollectMerge(item), LAMBDA fields : Fine(OwnFirst(acc.value, fields)))
        map == Convert(node)
    IN  CASE node.t = "map"  -> IF map.error # "none" THEN map ELSE Fine(map.value.fields)
          [] node.t = "list" -> FoldLeft(Take, Fine(EmptyMap), node.items)
          [] node.t \notin {"map", "list"} -> Faulty("merge of no mapping")

\* parse and from_value: no document, or one that is null, is the empty one.
Empty(doc) == doc.t = "unresolved" \/ (doc.t = "scalar" /\ doc.ty = "null")
ConvertYaml ==
    /\ source.kind = "yaml" /\ outcome = Reads
    /\ LET docs == source.lines
           map  == Convert(docs[1])
       IN  IF Len(docs) > 1 THEN Refuse("several documents", <<>>) /\ UNCHANGED root
           ELSE IF docs = <<>> \/ Empty(docs[1]) THEN outcome' = Mounted /\ UNCHANGED root
           ELSE IF docs[1].t # "map" THEN Refuse("root is no mapping", <<>>) /\ UNCHANGED root
           ELSE IF map.error # "none" THEN Refuse(map.error, <<>>) /\ UNCHANGED root
           ELSE outcome' = Mounted /\ root' = map.value
    /\ UNCHANGED <<source, taken, values, names, pairs>>
=============================================================================
