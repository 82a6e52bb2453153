------------------------------ MODULE Decoder ------------------------------
(***************************************************************************)
(* get_as (config.rs) and the serde bridge (serde.rs, with the unit        *)
(* helpers of serde/unit_helpers.rs): a node decoded into a type.  The     *)
(* bridge is called back by what serde derives for the type, so a type is  *)
(* a record that says which method it calls.  The elements of an object    *)
(* that is read as a list are decoded by a second deserializer, which owns *)
(* its value.  Floats and byte arrays are left out.                        *)
(***************************************************************************)
EXTENDS Readers

VARIABLES
    calls,     \* the accesses and the helpers in progress, the innermost first
    returned   \* what the last call gave, until its caller takes it

decodeVars == <<calls, returned>>

\* An error with its path, relative to what is being decoded.
Failed(error) == [t |-> "error", error |-> error, path |-> <<>>]

(* ------------------------------ error paths ---------------------------- *)
\* render_path_key: on one line, whatever the key holds.  Unlike render_segment
\* it has no letter for a backspace and a form feed, and it has a code for the
\* control characters behind ASCII too.
CodeInPath      == "backspace" :> "u0008" @@ "formfeed" :> "u000c" @@ "del" :> "u007f"
EscapeInPath(c) == IF c \in DOMAIN CodeInPath THEN <<"\\", CodeInPath[c]>> ELSE Escape(c)
RenderPathKey(k) ==
    IF Bare(k) THEN k
    ELSE <<"\"">> \o FlattenSeq([i \in DOMAIN k |-> EscapeInPath(k[i])]) \o <<"\"">>
RenderIndex(i)   == <<"[">> \o Spelled(i - 1) \o <<"]">>

\* A variant: a period in front of an index too.
JoinAlways(prefix, rest) ==
    IF prefix = <<>> THEN rest ELSE IF rest = <<>> THEN prefix ELSE prefix \o <<".">> \o rest

JoinPath(prefix, rest) ==
    IF prefix = <<>> THEN rest
    ELSE IF rest = <<>> \/ rest[1] = "[" THEN prefix \o rest ELSE prefix \o <<".">> \o rest
Under(prefix, failure) == [failure EXCEPT !.path = JoinPath(prefix, @)]

(* ------------------------------- scalars ------------------------------- *)
\* The words of a bool, one spelling standing for all of its cases.
TrueWords  == {<<"t", "r", "u", "e">>, <<"y", "e", "s">>, <<"o", "n">>}
FalseWords == {<<"f", "a", "l", "s", "e">>, <<"n", "o">>, <<"o", "f", "f">>}

\* str::parse of an integer type: a minus only where there are negatives.
ParsesAs(type, s) == IsInteger(s) /\ (Minus(s) => type.lo < 0) /\ UpToMax(s, MaxU64 + 2) \in type.lo .. type.hi

\* parse_int_from_scalar: as the type parses it, else as a whole number of an
\* i64 that the type holds.
ParseInt(type, raw) ==
    LET whole == ReadInteger(raw)
    IN  IF ParsesAs(type, raw) THEN Ok(UpToMax(raw, MaxU64 + 2))
        ELSE IF whole.t = "ok" /\ whole.n \in type.lo .. type.hi THEN whole ELSE Failed("not an integer")

DecodeScalar(type, v) ==
    CASE type.t = "integer" -> ParseInt(type, v.raw)
      [] type.t = "bool"    -> IF v.raw \in TrueWords \cup FalseWords THEN Ok(v.raw \in TrueWords)
                               ELSE Failed("not a bool")
      [] type.t = "string"  -> Ok(v.raw)
      [] type.t = "char"    -> IF Len(v.raw) = 1 THEN Ok(v.raw) ELSE Failed("not a char")
      [] type.t = "enum"    -> IF v.raw \in type.variants THEN Ok(v.raw) ELSE Failed("no such variant")
      [] type.t = "nothing" -> IF v.ty = "null" THEN Ok(<<>>) ELSE Failed("wrong type")
      [] OTHER              -> Failed("wrong type")

\* A variant: an integer is taken from a number scalar only.
OwnedThroughAny(type, v) ==
    IF type.t = "integer" /\ v.ty # "number" THEN Failed("wrong type") ELSE DecodeScalar(type, v)

\* The owning deserializer has these methods a second time.
DecodeOwned(type, v) == DecodeScalar(type, v)

\* StringKeyDeserializer: a key is a string; an integer type parses it and
\* refuses one that does not parse.
DecodeKey(type, k) ==
    CASE type.t = "string" -> Ok(k)
      [] type.t = "enum"   -> IF k \in type.variants THEN Ok(k) ELSE Failed("no such variant")
      [] type.t = "integer" -> IF ParsesAs(type, k) THEN Ok(UpToMax(k, MaxU64 + 2)) ELSE Failed("wrong type")

(* -------------------------------- the calls ---------------------------- *)
GetAs(prefix)    == [t |-> "get_as", prefix |-> prefix]
SomeOf           == [t |-> "some"]
Helper(type, v)  == [t |-> "unit", type |-> type, raw |-> v.raw, ty |-> v.ty]
SeqAccess(of, items, owned) == [t |-> "seq", of |-> of, items |-> items, owned |-> owned, got |-> <<>>]
MapAccess(type, fields, owned) ==
    [t |-> "map", type |-> type, fields |-> fields, owned |-> owned,
     left |-> DOMAIN fields, key |-> <<>>, name |-> <<>>, got |-> EmptyMap]

Deeper(frames) == [frames |-> frames, answer |-> Waiting]
Gives(result)  == [frames |-> <<>>, answer |-> result]

\* The method that the type calls on the deserializer of v.  A unit helper
\* asks for the text of a scalar and refuses anything else.
RECURSIVE Enter(_, _, _)
Enter(type, v, owned) ==
    CASE type.t = "option" ->
           IF v.t = "scalar" /\ v.ty = "null" THEN Gives(Ok(<<>>))
           ELSE LET inner == Enter(type.of, v, owned) IN [inner EXCEPT !.frames = @ \o <<SomeOf>>]
      [] type.t = "unit" /\ v.t = "scalar" -> Deeper(<<Helper(type, v)>>)
      [] type.t = "list" /\ v.t = "array"  -> Deeper(<<SeqAccess(type.of, v.items, owned)>>)
      [] type.t = "list" /\ v.t = "object" /\ Indices(v.fields) # <<>> ->
           Deeper(<<SeqAccess(type.of, AsList(v.fields), TRUE)>>)
      [] type.t \in {"map", "struct"} /\ v.t = "object" -> Deeper(<<MapAccess(type, v.fields, owned)>>)
      [] type.t \notin {"option", "unit"} /\ v.t = "scalar" ->
           Gives(IF owned THEN DecodeOwned(type, v) ELSE DecodeScalar(type, v))
      [] OTHER -> Gives(Failed("wrong type"))

\* Begin what enters on top of rest.
Begin(enter, rest) == calls' = enter.frames \o rest /\ returned' = enter.answer

Top    == Head(calls)
Below  == Tail(calls)
Busy(t) == calls # <<>> /\ Top.t = t /\ returned = Waiting

Return(result) == calls' = Below /\ returned' = result

(* -------------------------------- actions ------------------------------ *)
\* get_as: the path of a missing node is the one that was asked for; that of
\* a failure starts with the path of the node, written anew.  That a node with a
\* placeholder is refused first (config.rs:701) is left out: no tree here has one.
AskAs ==
    /\ outcome = Mounted /\ query = NoQuery
    /\ \E q \in {a \in source.asks : a.as = "type"} :
           LET segs   == SplitPath(q.path)
               found  == Lookup(root.fields, segs)
               prefix == FoldLeft(LAMBDA path, k : JoinPath(path, RenderPathKey(k)), <<>>, segs)
           IN  /\ query' = q
               /\ IF found = <<>> THEN calls' = <<>> /\ returned' = Under(q.path, Failed("missing"))
                  ELSE Begin(Enter(q.type, found[1], FALSE), <<GetAs(prefix)>>)
    /\ UNCHANGED unitVars

\* next_element_seed of either sequence access.
NextElement ==
    /\ Busy("seq")
    /\ IF Len(Top.got) = Len(Top.items) THEN Return(Ok(Top.got))
       ELSE Begin(Enter(Top.of, Top.items[Len(Top.got) + 1], Top.owned), calls)
    /\ UNCHANGED unitVars

\* next_key_seed and next_value_seed of either map access, for one of the
\* keys that are left; a struct ignores the value of a key it does not have.
NextField ==
    /\ Busy("map")
    /\ \E k \in Top.left :
           LET isStruct == Top.type.t = "struct"
               key      == IF isStruct THEN Ok(k) ELSE DecodeKey(Top.type.keys, k)
               of       == IF isStruct THEN Top.type.fields[k] ELSE Top.type.of
               at_      == [Top EXCEPT !.left = @ \ {k}, !.key = k, !.name = key]
           IN  IF isStruct /\ k \notin DOMAIN Top.type.fields
               THEN calls' = <<at_>> \o Below /\ UNCHANGED returned
               ELSE IF key.t = "error" THEN Return(Under(RenderPathKey(k), key))
               ELSE Begin(Enter(of, Top.fields[k], Top.owned), <<at_>> \o Below)
    /\ UNCHANGED unitVars

\* The fields that are missing: an option is none by itself, unless a unit
\* helper reads it; another field only has a value if it has a default.
Absent(type)   == type.t = "option" /\ type.of.t # "unit"
Defaulted(type) ==
    [f \in {g \in DOMAIN type.fields : g \in type.defaults \/ Absent(type.fields[g])} |-> <<>>]

EndMap ==
    /\ Busy("map") /\ Top.left = {}
    /\ Return(IF Top.type.t = "map" THEN Ok(Top.got)
              ELSE LET all == Top.got @@ Defaulted(Top.type)
                   IN  IF DOMAIN all = DOMAIN Top.type.fields THEN Ok(all) ELSE Failed("missing field"))
    /\ UNCHANGED unitVars

\* A call has returned: its value is kept, its error gets the place in front
\* and is handed on.
Receive ==
    /\ calls # <<>> /\ returned # Waiting
    /\ LET place == CASE Top.t = "seq" -> RenderIndex(Len(Top.got) + 1)
                      [] Top.t = "map" -> RenderPathKey(Top.key)
                      [] Top.t = "get_as" -> Top.prefix
                      [] OTHER -> <<>>
           Keep(frame) == calls' = <<frame>> \o Below /\ returned' = Waiting
       IN  IF returned.t = "error" THEN Return(Under(place, returned))
           ELSE CASE Top.t = "seq"    -> Keep([Top EXCEPT !.got = Append(@, returned.n)])
                  [] Top.t = "map"    -> Keep([Top EXCEPT !.got = Top.name.n :> returned.n @@ @])
                  [] Top.t = "some"   -> Return(Ok(<<returned.n>>))
                  [] Top.t = "get_as" -> Return(returned)
    /\ UNCHANGED unitVars

\* deserialize_unit: the text goes to the reader of the unit,
AskUnit == Busy("unit") /\ scalar = NoScalar /\ Request(Top.raw, Top.ty, Top.type.as) /\ UNCHANGED decodeVars

\* names_magnitude_unit, names_period_unit: of a string only, and by the split
\* that the reader uses.
NamesUnit(raw, as) ==
    LET s == Trim(raw)
        split == IF as = "period" THEN SplitPeriod(s, FirstNot(s, Sign \cup DOMAIN DigitOf)) ELSE SplitNumberUnit(s)
    IN  split.unit # <<>>

\* and the range of the type and the demand for a unit come after it.
AnswerUnit ==
    /\ Busy("unit") /\ answer # Waiting
    /\ Return(IF answer.t = "error" THEN Failed(answer.error)
              ELSE IF Top.type.as = "bytes" /\ answer.n > Top.type.hi THEN Failed("out of range")
              ELSE IF Top.type.named /\ ~(Top.ty = "string" /\ NamesUnit(Top.raw, Top.type.as))
                   THEN Failed("must name its unit")
              ELSE answer)
    /\ Forget

DecodeStep == NextElement \/ NextField \/ EndMap \/ Receive \/ AskUnit \/ AnswerUnit

DecodeInit == Init /\ calls = <<>> /\ returned = Waiting
DecodeNext ==
    \/ Next /\ UNCHANGED decodeVars
    \/ AskAs /\ UNCHANGED <<mountVars, jsonVars>>
    \/ DecodeStep /\ UNCHANGED <<mountVars, jsonVars, query>>

DecodeSpec == DecodeInit /\ [][DecodeNext]_<<vars, decodeVars>>
=============================================================================
