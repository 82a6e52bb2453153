------------------------ MODULE DecoderProperties ------------------------
(***************************************************************************)
(* What get_as owes its caller.  The reference reads the node from the top *)
(* down with one definition for all deserializers: the places that fail,   *)
(* spelled on the way to them, and what a value of the type is worth.      *)
(***************************************************************************)
EXTENDS Decoder, ReaderProperties

(* ------------------------------ the reference -------------------------- *)
UnitsOf(as) == CASE as = "duration" -> DurationUnit [] as = "bytes" -> BytesUnit [] as = "period" -> PeriodUnit

\* What a scalar is worth to a helper: the range is the type's, and a string
\* names its unit if it can be read with one.
WorthAsUnit(type, v) ==
    LET worth == CASE type.as = "duration" -> WorthAsDuration(v.raw)
                   [] type.as = "period"   -> WorthAsPeriod(v.raw)
                   [] type.as = "bytes"    -> {n \in WorthAsBytes(v.raw, v.ty) : n <= type.hi}
        named == v.ty = "string" /\ \E m \in Means(v.raw, DOMAIN UnitsOf(type.as)) : m.unit # <<>>
    IN  IF type.named /\ ~named THEN {} ELSE worth

\* To an integer type: its digits as they stand, or any whole number in the
\* range of an i64.
WorthAsTyped(type, raw) ==
    {n \in WorthAsInteger(raw) \cup (IF IsInteger(raw) THEN {Written(raw)} ELSE {}) : n \in type.lo .. type.hi}
Positive(s) == s # <<>> /\ s[1] # "-"
WorthAsKey(type, k) ==
    {n \in IF IsInteger(k) /\ (type.lo < 0 \/ Positive(k)) THEN {Written(k)} ELSE {} : n \in type.lo .. type.hi}

Worths(type, v) ==
    CASE v.t # "scalar"        -> {}
      [] type.t = "unit"       -> WorthAsUnit(type, v)
      [] type.t = "integer"    -> WorthAsTyped(type, v.raw)
      [] type.t = "string"     -> {v.raw}
      [] type.t = "char"       -> {v.raw} \cap [1 .. 1 -> ToSet(CharOrder)]
      [] type.t = "enum"       -> {v.raw} \cap type.variants
      [] type.t = "nothing"    -> IF v.ty = "null" THEN {<<>>} ELSE {}
      [] type.t = "bool"       -> {b \in BOOLEAN : v.raw \in IF b THEN TrueWords ELSE FalseWords}
      [] OTHER                 -> {}

Null(v) == v.t = "scalar" /\ v.ty = "null"

\* The elements that a list is read from; an object without an index has none.
ElementsOf(v) == CASE v.t = "array" -> v.items [] v.t = "object" -> Listed(v.fields) [] OTHER -> <<>>
IsList(v)     == v.t = "array" \/ (v.t = "object" /\ Listed(v.fields) # <<>>)

\* The fields of v that a map or a struct looks at, and their types.
LookedAt(type, v) == IF type.t = "map" THEN DOMAIN v.fields ELSE DOMAIN v.fields \cap DOMAIN type.fields
TypeAt(type, k)   == IF type.t = "map" THEN type.of ELSE type.fields[k]
KeyWorths(type, k) ==
    CASE type.t = "struct"         -> {k}
      [] type.keys.t = "string"    -> {k}
      [] type.keys.t = "enum"      -> {k} \cap type.keys.variants
      [] type.keys.t = "integer"   -> WorthAsKey(type.keys, k)
Spared(type, f) == f \in type.defaults \/ (type.fields[f].t = "option" /\ type.fields[f].of.t # "unit")

\* The place of the key k of the object here, and that of a path.
InsideOf(here, k) == (IF here = <<>> THEN <<>> ELSE Append(here, ".")) \o RenderPathKey(k)
PlaceOf(segs)     == FoldLeft(InsideOf, <<>>, segs)

\* The places whose failure may be reported: of a list its first, of an object
\* any (there is no order of fields here), and itself only if none is inside.
RECURSIVE Faults(_, _, _)
Faults(type, v, here) ==
    LET Inside(k) == InsideOf(here, k)
        Nth(i)    == here \o <<"[">> \o Spelled(i - 1) \o <<"]">>
        Of(i)     == Faults(type.of, ElementsOf(v)[i], Nth(i))
        faulty    == {i \in DOMAIN ElementsOf(v) : Of(i) # {}}
        within    == UNION {IF KeyWorths(type, k) = {} THEN {Inside(k)}
                            ELSE Faults(TypeAt(type, k), v.fields[k], Inside(k)) : k \in LookedAt(type, v)}
    IN  CASE type.t = "option" -> IF Null(v) THEN {} ELSE Faults(type.of, v, here)
          [] type.t = "list" ->
                 IF ~IsList(v) THEN {here} ELSE IF faulty = {} THEN {} ELSE Of(Min(faulty))
          [] type.t \in {"map", "struct"} ->
                 IF v.t # "object" THEN {here}
                 ELSE IF within # {} THEN within
                 ELSE IF type.t = "struct" /\ \E f \in DOMAIN type.fields \ DOMAIN v.fields : ~Spared(type, f)
                      THEN {here} ELSE {}
          [] OTHER -> IF Worths(type, v) = {} THEN {here} ELSE {}

\* n is what v is as a value of the type.
RECURSIVE IsWorth(_, _, _)
IsWorth(type, v, n) ==
    CASE type.t = "option" -> IF Null(v) THEN n = <<>> ELSE Len(n) = 1 /\ IsWorth(type.of, v, n[1])
      [] type.t = "list"   -> /\ Len(n) = Len(ElementsOf(v))
                              /\ \A i \in DOMAIN n : IsWorth(type.of, ElementsOf(v)[i], n[i])
      [] type.t = "struct" ->
             /\ DOMAIN n = DOMAIN type.fields
             /\ \A f \in DOMAIN n : IF f \in DOMAIN v.fields THEN IsWorth(type.fields[f], v.fields[f], n[f])
                                    ELSE n[f] = <<>>
      [] type.t = "map" ->
             /\ DOMAIN n = UNION {KeyWorths(type, k) : k \in DOMAIN v.fields}
             /\ \A m \in DOMAIN n :
                    \E k \in DOMAIN v.fields : m \in KeyWorths(type, k) /\ IsWorth(type.of, v.fields[k], n[m])
      [] OTHER -> n \in Worths(type, v)

(* --------------------------- the properties ---------------------------- *)
Answered == query.as = "type" /\ calls = <<>> /\ returned # Waiting
Asked    == At(root, Segments(query.path))
Present  == Segments(query.path) \in PathsOf(root)

\* get_as gives a value exactly when the type can be read from the node, and
\* then the one that the node stands for (serde.rs:205, :579, unit_helpers.rs:197):
\* whichever of the two deserializers an element goes through, an integer in
\* any notation keeps its value, a key of a map is parsed, a default, a missing
\* option and a null are told apart, and a unit is demanded only after the text
\* has been read.
DecodesTheNode ==
    Answered =>
        IF ~Present \/ Faults(query.type, Asked, <<>>) # {} THEN returned.t = "error"
        ELSE returned.t = "ok" /\ IsWorth(query.type, Asked, returned.n)

\* The path of an error names a place that fails (serde.rs:73, config.rs:709):
\* every access puts its own place in front once, the path that was asked for
\* is written in the same form, and an index is never taken for a key.
ErrorsNameThePlace ==
    Answered /\ returned.t = "error" =>
        returned.path \in IF Present THEN Faults(query.type, Asked, PlaceOf(Segments(query.path)))
                          ELSE {query.path}
=============================================================================
