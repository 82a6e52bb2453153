----------------------------- MODULE MCReaders -----------------------------
(***************************************************************************)
(* Sources to mount and scalars to read: texts of a few characters over an *)
(* alphabet that has the marks of their grammar, combinations of chosen    *)
(* names and lines, and numbers at the limits of the ranges.               *)
(***************************************************************************)
EXTENDS DecoderProperties, FormatProperties

CONSTANT Short

PowersOfTen == 0 :> 1 @@ 1 :> 10 @@ 2 :> 100
UnitFactors == {1, Milli, Second, Minute, Kilo, Kibi, Exa, Exbi}

Ascii ==
    <<"nul", "tab", "newline", "cr", " ", "!", "\"", "#", "'", "+", "-", ".">> \o DigitChar \o
    <<":", "=", "A", "L", "X", "\\", "_", "a", "b", "export", "k", "l", "n", "t", "x", "y", "z",
      "u41", "uD83D", "uDE00", "u4", "u2028", "ls", "pair">>
Unquoted  == {"A", "L", "X", "_", "-", "a", "b", "k", "l", "n", "t", "x", "y", "z"} \cup ToSet(DigitChar)
Lowered   == [c \in ToSet(Ascii) |-> CASE c = "A" -> "a" [] c = "L" -> "l" [] c = "X" -> "x" [] OTHER -> c]
UEscapes  == "n" :> "newline" @@ "u41" :> "A" @@ "uD83D" :> "high" @@ "uDE00" :> "low" @@ "u4" :> "malformed" @@ "u31" :> "1"

Strings(A, n)  == [1 .. n -> A]
UpToLong(A, n) == UNION {Strings(A, k) : k \in 0 .. n}
Flat(kind, prefix, lines, asks) == [kind |-> kind, prefix |-> prefix, lines |-> lines, asks |-> asks]
Asking(as, paths) == {[path |-> p, as |-> as] : p \in paths}

(* ----------------------------- environment ----------------------------- *)
\* Up to three names of APP_: cases, empty segments, one too many, characters
\* that have to be quoted; and entries that are not selected or not text.
AppNames ==
    {<<"A", "_">> \o r : r \in {<<>>, <<"x">>, <<"X">>, <<"x", "_", "_", "y">>, <<"X", "_", "_", "y">>,
        <<"x", "_", "_">>, <<"x", "_", "_", "_", "y">>, <<"x", "_", "y">>, <<"x", ".", "y">>, <<"x", "\"", "\\">>,
        <<"x", "_", "_", "y", "_", "_", "z">>, <<"x", "_", "_", "y", "_", "_", "z", "_", "_", "x">>}}
Entry(name, n, utf8) == [name |-> name, value |-> <<DigitChar[n + 1], "k">>, utf8 |-> utf8]
EnvSources(n) ==
    {Flat("env", <<"A", "_">>, [i \in 1 .. n |-> Entry(ns[i], i, "both")],
           {[path |-> <<"x">>, as |-> "bytes"], [path |-> <<"x", ".", "y">>, as |-> "string"]}) :
        ns \in {f \in Strings(AppNames \cup {<<"X">>}, n) : IsInjective(f)}}
Undecoded ==
    {Flat("env", prefix, <<Entry(ns[1], 1, u[1]), Entry(ns[2], 2, u[2])>>, {}) :
        prefix \in {<<>>, <<"A", "_">>}, u \in Strings({"both", "name", "value"}, 2),
        ns \in {<<<<"A", "_", "x">>, <<"X">>>>, <<<<"X">>, <<"A", "_", "x">>>>,
                   <<<<"A", "_", "y">>, <<"A", "_", "x">>>>, <<<<"A", "_", "_", "_">>, <<"A", "_", "x">>>>}}

\* Names with characters that are shown by a letter or a code, and names that
\* have the backslash and the letter.
Odd ==
    {Flat("env", <<"A", "_">>, [i \in 1 .. 2 |-> Entry(<<"A", "_", "x">> \o ns[i], i, "both")],
           Asking("string", {<<"\"", "x", "\\", "t", "\"">>, <<"x", "\\", "t">>})) :
        ns \in {f \in Strings({<<"tab">>, <<"\\", "t">>, <<"t">>, <<"\\", "tab">>, <<"ls">>, <<"\\", "u2028">>, <<"nul">>,
                              <<"cr">>, <<"newline", "_", "_", "t">>, <<"\\", "n", "_", "_", "t">>, <<"newline", ".", "t">>}, 2) :
                   IsInjective(f)}}

\* Objects with numeric keys, as names of the environment give them.
Keys == {<<"0">>, <<"1">>, <<"2">>, <<"1", "0">>, <<"3", "1">>, <<"3", "2">>, <<"0", "1">>, <<"0", "0">>,
         <<"9", "9", "9">>, <<"-", "1">>, <<"+", "1">>, <<"x">>}
Lists ==
    {Flat("env", <<"A", "_">>,
           [i \in 1 .. Cardinality(S) |-> Entry(<<"A", "_", "L", "_", "_">> \o SetToSeq(S)[i], i, "both")],
           Asking("list", {<<"l">>, <<"l", ".", "0">>, <<"b">>})) :
        S \in UNION {kSubset(k, Keys) : k \in 1 .. 3}}

(* ------------------------------- .env files ---------------------------- *)
DotenvValues(n) ==
    {Flat("dotenv", <<>>, <<<<"x", "=">> \o v>>, {}) : v \in Strings({" ", "#", "'", "\"", "\\", "n", "a"}, n)}
DotenvNames ==
    {Flat("dotenv", prefix, <<t \o <<"=", "1">>>>, {}) :
        t \in UpToLong({" ", "export", "x", "_", "#", "="}, 3), prefix \in {<<>>, <<"x">>}}
DotenvLines ==
    {Flat("dotenv", <<>>, lines, {}) :
        lines \in Strings({<<"x", "=", "1">>, <<"X", "=", "2">>, <<"x", "_", "_", "y", "=", "'", "3", "'">>,
                           <<"x", "_", "_", "y", "_", "_", "z", "=", "4">>, <<" ", "#", "=">>, <<"x">>, <<>>,
                           <<"x", "_", "_", "_", "_", "y", "=", "5">>}, 3)}

(* --------------------------- Properties files -------------------------- *)
PropertiesLine(n) ==
    {Flat("properties", <<>>, <<t>>, {}) : t \in Strings({"k", ".", "=", ":", " ", "\\", "#"}, n)}
PropertiesLines ==
    {Flat("properties", <<>>, <<s, t>>, {}) :
        s \in UpToLong({"k", "=", " ", "\\"}, 3), t \in UpToLong({"k", "=", " ", "#", "\\"}, 2)}
    \cup {Flat("properties", <<>>, ls, {}) :
            ls \in Strings({<<>>, <<"\\">>, <<"k">>, <<" ", "x", "=", "\\">>, <<" ", "!">>, <<"\\", "\\">>}, 4)}
Escapes ==
    {Flat("properties", <<>>, <<t>>, {}) : t \in
        {<<"k", "=">> \o v : v \in UpToLong({"\\", "u41", "uD83D", "uDE00", "u4", "n"}, 4)}
        \cup {v \o <<"=", "1">> : v \in UpToLong({"\\", "uD83D", "uDE00", "u4", "n"}, 4)}}
    \cup {Flat("properties", <<>>, <<<<"k", "=", "\\", "uD83D", "\\">>, t>>, {}) : t \in UpToLong({"\\", "uDE00", " "}, 3)}
PropertiesKeys ==
    {Flat("properties", <<>>, ls, {}) :
        ls \in Strings({<<"a", "=", "1">>, <<"a", ".", "b", "=", "2">>, <<"a", ":", "3">>, <<"a", ".", "b", ".", "x", "=", "4">>,
                        <<"a", ".", "=", "5">>, <<".", "a", " ", "6">>, <<"a", ".", ".", "b", ".", "=", "7">>}, 3)}

(* ------------------------------ documents ------------------------------ *)
Document(fields, asks) == [kind |-> "document", prefix |-> <<>>, lines |-> <<>>, root |-> Object(fields), asks |-> asks]

Named == [t |-> "scalar", ty |-> "string", raw |-> <<"1">>]
Quotes ==
    {Document(<<"a">> :> Object(<<"b">> :> Named @@ <<>> :> [Named EXCEPT !.raw = <<"2">>])
              @@ <<"a", ".", "b">> :> [Named EXCEPT !.raw = <<"3">>] @@ <<"\"">> :> [Named EXCEPT !.raw = <<"4">>]
              @@ <<>> :> Object(<<"a">> :> [Named EXCEPT !.raw = <<"5">>])
              @@ <<"\"", "a">> :> [Named EXCEPT !.raw = <<"6">>] @@ <<"\\">> :> [t |-> "array", items |-> <<Named>>]
              @@ <<"b">> :> [Named EXCEPT !.ty = "null"],
              Asking(as, UpToLong({"a", "b", ".", "\"", "\\"}, Short + 1))) : as \in {"string", "list"}}

Holding(texts, ty, as) ==
    {Document(<<"a">> :> [t |-> "scalar", ty |-> ty, raw |-> s], Asking(as, {<<"a">>})) : s \in texts}

Alphabet ==
    [duration |-> {"1", "0", "-", ".", "e", "m", "s", " "},
     bytes    |-> {"1", "0", "-", ".", "E", "k", "B", " "},
     period   |-> {"1", "5", "-", "+", "d", "w", "m", " "},
     integer  |-> {"1", "0", "-", ".", "e", "+", " "}]

\* Numbers at the limits of a limb, a word, an i64, an i128, a Duration and of
\* the truncation.
Mantissas ==
    {Spelled(n) : n \in {99, 100, 101, 1023, 1024, 1025, 2047, 6399, 6400, 8191, 8192, 16383, 16384, 9999999}}
    \cup {<<"6", "3", ".", "9", "9", "9">>, <<"0", "0", "1", ".", "5", "0">>, <<".", "0", "9", "9", "9">>,
          <<"1", "2", "3", "4", "5", ".", "6", "7">>, <<"1", "6", ".">>, <<"1", "0", "2", "4", ".", "0">>}
Exponents == {<<>>, <<"e", "1">>, <<"E", "-", "1">>, <<"e", "-", "4">>, <<"E", "+", "2">>, <<"e", "9", "9">>,
              <<"e", "-", "9", "9">>}
Quantities(units) ==
    {sg \o m \o e \o b \o u : sg \in {<<>>, <<"-">>}, m \in Mantissas, e \in Exponents,
                              b \in {<<>>, <<" ">>}, u \in units}
Periods ==
    {sg \o m \o u : sg \in {<<>>, <<"-">>, <<"+">>},
                    m \in {<<"4">>, <<"5">>, <<"3", "1">>, <<"3", "2">>, <<"3", "3">>, <<"9", "9">>},
                    u \in DOMAIN PeriodUnit}

(* -------------------------------- JSON5 -------------------------------- *)
Starts    == {"A", "X", "a", "b", "e", "x", "y", "$", "true", "null", "Infinity"}
Parts     == Starts \cup ToSet(DigitChar)
Hexadecimal == "x41" :> "A" @@ "x4" :> "malformed"
Finite    == -3 .. 4
Plainly   == -1 .. 2

Json(texts, asks) == {Flat("json5", <<>>, <<t>>, asks) : t \in texts}
Value5(texts)     == {<<"{", "a", ":">> \o t \o <<"}">> : t \in texts}

Numbers5 == Json(Value5(UpToLong({"0", "1", "x", ".", "e", "-", "+"}, Short + 1)), {})
Limits5  ==
    Json(Value5({sg \o m : sg \in {<<>>, <<"+">>, <<"-">>}, m \in
        {Spelled(n) : n \in {1022, 1023, 1024, 1025, 9999}}
        \cup {<<"0", "x">> \o Spelled(n) : n \in {400, 401, 9999}} \cup {<<"0", "x", "3", "e", "e">>, <<"0", "x", "a", "b">>}
        \cup {<<"1", "e", "3">>, <<"1", "e", "4">>, <<"9", ".", "e", "-", "4">>, <<"1", "2", "e", "-", "4">>, <<"0", "1", "2", "5">>,
               <<"1", "2", "3", ".", "0">>, <<"Infinity">>, <<"Infinity", "x">>, <<"null">>, <<"true", "a">>, <<"true", "\\", "u41">>}}),
        {[path |-> <<"a">>, as |-> as] : as \in {"integer", "bytes"}})
Strings5To(n) ==
    Json(Value5({<<"'">> \o t \o <<"'">> : t \in
        UpToLong({"\\", "'", "\"", "0", "n", "newline", "cr", "ls", "u41", "x41", "x4"}, n)
        \cup UpToLong({"\\", "uD83D", "uDE00", "u4", "u41"}, n + 1)}), {})
Names5 ==
    Json({<<"{">> \o t \o <<":", "1", "}">> : t \in
        UpToLong({"a", "1", "$", "\\", "u41", "u31", "u4", "uD83D", "true", "-"}, 3)
        \cup {<<"\"">> \o t \o <<"\"">> : t \in UpToLong({"a", "\\", "\"", "."}, 3)}}, {})
Brackets(n) == Json({<<"{">> \o t : t \in UpToLong({"{", "}", "[", "]", ":", ",", "a", "1"}, n)}, {})
Inside(n)   == Json(Value5({<<"[">> \o t \o <<"]">> : t \in UpToLong({"[", "]", ",", "1", " "}, n)}), {})
Nests5      == Json({FlattenSeq([i \in 1 .. n |-> o]) \o <<"1">> \o [i \in 1 .. n |-> c] :
                       n \in 0 .. MaxDepth + 1, o \in {<<"{", "a", ":">>, <<"[">>}, c \in {"}", "]"}}, {})
Gaps(n) ==
    Json(UNION {{<<"{">> \o t \o <<"a", ":", "1", "}">>, <<"{", "a", ":">> \o t \o <<"1", "}">>, <<"{", "a", ":", "1", "}">> \o t} :
        t \in UpToLong({"/", "*", "newline", "cr"}, n) \cup {<<"/", "/", "*", "ls">>, <<"/", "*", "ls", "*", "/", " ">>}}, {})
Repeated ==
    LET Member5 == {<<"a", ":", "1">>, <<"a", ":", "{", "x", ":", "1", "}">>, <<"a", ":", "{", "}">>,
                    <<"a", ":", "{", "y", ":", "[", "1", ",", "]", ",", "x", ":", "null", "}">>,
                    <<"a", ":", "{", "x", ":", "{", "b", ":", "'", "1", "'", "}", "}">>,
                    <<"a", ":", "{", "x", ":", "{", "1", ":", "0", "}", "}">>}
    IN  Json({<<"{">> \o m[1] \o <<",">> \o m[2] \o <<",">> \o m[3] \o <<"}">> : m \in Strings(Member5, 3)},
             {[path |-> <<"a", ".", "x">>, as |-> "string"], [path |-> <<"a", ".", "y">>, as |-> "list"]})

(* -------------------------------- JSONC -------------------------------- *)
Jsonc5(texts) == {Flat("jsonc", <<>>, <<t>>, {}) : t \in texts}
JsoncTexts(n) ==
    [i \in 1 .. n |-> Jsonc5(Strings({"\"", "/", "*", "\\", ",", "]", "newline", "cr"}, i))]
    \o [i \in 1 .. n |-> Jsonc5(Strings({"/", "*", "1", ",", "}", " ", "newline"}, i))]
    \o [i \in 1 .. n |-> Jsonc5({<<"1", "/", "*">> \o t : t \in Strings({"/", "*", "1", "cr", "newline", "\""}, i)})]

(* --------------------------------- YAML -------------------------------- *)
YamlKey(kind, text) == [kind |-> kind, text |-> text]
YamlMap(entries)    == [t |-> "map", entries |-> entries]
OneEntry(text, raw) == [key |-> YamlKey("string", text), value |-> [Named EXCEPT !.raw = raw]]
MapA    == YamlMap(<<OneEntry(<<"a">>, <<"1">>), OneEntry(<<"b">>, <<"2">>)>>)
MapB    == YamlMap(<<[key |-> MergeKey, value |-> MapA], OneEntry(<<"a">>, <<"3">>), OneEntry(<<"1">>, <<"4">>)>>)
YamlKeys == {MergeKey, YamlKey("string", <<"a">>), YamlKey("string", <<"1">>), YamlKey("integer", <<"1">>), YamlKey("collection", <<>>)}
YamlValues ==
    {Named, MapA, MapB, [t |-> "list", items |-> <<MapB, MapA>>], [t |-> "list", items |-> <<MapA, [t |-> "list", items |-> <<MapB>>]>>],
     [t |-> "list", items |-> <<Named, MapA>>], [t |-> "not finite"], [t |-> "unresolved"],
     YamlMap(<<[key |-> YamlKey("integer", <<"1">>), value |-> Named], OneEntry(<<"1">>, <<"5">>)>>)}
YamlMaps(n, nodes) ==
    {YamlMap([i \in 1 .. n |-> [key |-> ks[i], value |-> vs[i]]]) :
        ks \in {f \in Strings(YamlKeys, n) : IsInjective(f)}, vs \in Strings(nodes, n)}
YamlDocuments ==
    {Flat("yaml", <<>>, <<m>>, Asking("string", {<<"b">>})) : m \in
        UNION {YamlMaps(n, YamlValues) : n \in 0 .. 2} \cup YamlMaps(3, {Named, MapA, [t |-> "list", items |-> <<MapB, MapA>>]})}
YamlStreams      ==
    {Flat("yaml", <<>>, docs, {}) : docs \in UpToLong({MapB, Named, [Named EXCEPT !.ty = "null"], [t |-> "list", items |-> <<>>],
                                                     [t |-> "unresolved"]}, 2)}

(* -------------------------------- get_as ------------------------------- *)
Raw(ty, raw)          == [t |-> "scalar", ty |-> ty, raw |-> raw]
ArrayOf(items)          == [t |-> "array", items |-> items]
IntegerType(lo, hi)    == [t |-> "integer", lo |-> lo, hi |-> hi]
StringType             == [t |-> "string"]
UnitType(as, named)    == [t |-> "unit", as |-> as, named |-> named, hi |-> IF named THEN MaxI64 ELSE 127]
OptionOf(type)         == [t |-> "option", of |-> type]
ListOf(type)           == [t |-> "list", of |-> type]
MapOf(keys, type)      == [t |-> "map", keys |-> keys, of |-> type]
StructOf(fields, defs) == [t |-> "struct", fields |-> fields, defaults |-> defs]
Decoding(nodes, types, path) ==
    {Document(<<"a">> :> v, {[path |-> path, as |-> "type", type |-> T]}) : v \in nodes, T \in types}

Small     == IntegerType(-8, 7)
Spellings ==
    {sg \o m : sg \in {<<>>, <<"-">>, <<"+">>},
               m \in {Spelled(n) : n \in {0, 7, 8, 9, 15, 16, 1023, 1024, 1025, 2047, 2048}}
                     \cup {<<"7", ".", "0">>, <<"7", ".", "5">>, <<"1", "e", "3">>, <<"2", "e", "3">>, <<"0", "7">>}}
    \cup {<<"t", "r", "u", "e">>, <<"n", "o">>, <<"a">>, <<>>, <<" ", "7">>, <<" ", "7", ".", "0">>}
DecodedScalars ==
    Decoding({Raw(ty, raw) : ty \in {"string", "null"}, raw \in Spellings} \cup {ArrayOf(<<>>), Object(EmptyMap)},
           {Small, IntegerType(0, 15), IntegerType(0, MaxU64), IntegerType(-MaxI64 - 1, MaxI64), StringType,
            [t |-> "bool"], [t |-> "char"], [t |-> "enum", variants |-> {<<"a">>, <<"7">>}], [t |-> "nothing"],
            OptionOf(Small), ListOf(Small)}, <<"a">>)
DecodedUnits ==
    Decoding({Raw(ty, b \o m \o u) : ty \in {"string", "number"}, b \in {<<>>, <<" ">>},
               m \in {<<"1">>, <<"1", "2", "8">>, <<"1", "e", "1">>, <<"-", "3">>},
               u \in {<<>>, <<" ">>, <<"m">>, <<" ", "m", "s">>, <<"k">>, <<"B", " ">>, <<"e">>, <<"d">>, <<"y">>}}
           \cup {Raw("null", <<"null">>), ArrayOf(<<Raw("string", <<"1">>)>>)},
           UNION {{UnitType(as, n), OptionOf(UnitType(as, n))} : as \in {"duration", "bytes", "period"}, n \in BOOLEAN},
           <<"a">>)

Leaves  == {Raw("string", <<"1">>), Raw("string", <<"x">>), Raw("null", <<"null">>)}
Branches(n, leaves) ==
    {ArrayOf(s) : s \in UNION {Strings(leaves, k) : k \in 0 .. n}}
    \cup UNION {{Object(f) : f \in [K -> leaves]} : K \in {S \in SUBSET {<<"0">>, <<"2">>, <<"a">>, <<"a", ".", "b">>} : Cardinality(S) <= n}}
Shapes ==
    {Small, ListOf(Small), ListOf(OptionOf(StringType)), MapOf(StringType, Small), MapOf(Small, StringType),
     MapOf([t |-> "enum", variants |-> {<<"0">>, <<"a">>}], OptionOf(Small)),
     StructOf(<<"a">> :> Small @@ <<"0">> :> OptionOf(Small), {}),
     StructOf(<<"a">> :> Small @@ <<"2">> :> OptionOf(UnitType("period", FALSE)), {}),
     StructOf(<<"a", ".", "b">> :> StringType @@ <<"2">> :> OptionOf(UnitType("bytes", TRUE)), {<<"2">>})}
Deeply ==
    {ListOf(T) : T \in Shapes} \cup {MapOf(StringType, T) : T \in Shapes} \cup {StructOf(<<"a", ".", "b">> :> T, {}) : T \in Shapes}
DecodedShapes == Decoding(Leaves \cup Branches(3, Leaves), Shapes, <<"a">>)
DecodedNests  ==
    Decoding(Branches(2, {Raw("string", <<"1">>), ArrayOf(<<Raw("string", <<"1">>), Raw("string", <<"x">>)>>),
                      Object(<<"1">> :> Raw("string", <<"1">>) @@ <<"3">> :> Raw("string", <<"x">>)),
                      Object(<<"0">> :> Raw("string", <<"7">>) @@ <<"a">> :> Raw("number", <<"1">>) @@ <<"a", ".", "b">> :> Raw("string", <<"1">>)),
                      Object(<<"2">> :> Raw("string", <<"x">>) @@ <<"a">> :> ArrayOf(<<>>))}), Deeply, <<"\"", "a", "\"">>)
DecodedPaths ==
    {Document(k :> Object(<<"a">> :> Raw("string", <<"x">>)) @@ <<"x">> :> Raw("null", <<"null">>),
       {[path |-> p, as |-> "type", type |-> T] :
           p \in {RenderPathKey(k), RenderPathKey(k) \o <<".", "a">>, k, <<"x">>, <<"\"", "x", "\"">>, <<"x", ".", "a">>, <<"a", ".">>},
           T \in {Small, MapOf(StringType, Small), ListOf(Small)}}) :
        k \in {<<"a">>, <<>>, <<"a", ".", "b">>, <<"\"">>, <<"\\", "n">>, <<" ", "a">>, <<"0">>, <<"tab">>, <<"a", "del">>, <<"ls">>}}
    \cup Decoding({Object(<<"x", "[", "0", "]">> :> ArrayOf(<<Raw("string", <<"x">>)>>) @@ <<"newline">> :> Raw("null", <<"null">>))},
                {MapOf(StringType, ListOf(Small)), MapOf(StringType, Small), MapOf(Small, Small)}, <<"a">>)
    \cup Decoding({Object(k :> Raw("string", <<"1">>) @@ <<"1">> :> Raw("string", <<"2">>)) :
                      k \in {<<"-", "0">>, <<"+", "1">>, <<"0", "1">>, <<"1", ".", "0">>, <<"1", "6">>}},
                  {MapOf(IntegerType(0, 15), Small), MapOf(Small, Small), ListOf(Small)}, <<"a">>)

\* The reading of an integer does not depend on the type of the scalar.
ShortScalars ==
    [i \in 1 .. 7 * Short |->
        LET n  == 1 + ((i - 1) % Short)
            as == <<"duration", "duration", "bytes", "bytes", "period", "period", "integer">>[1 + (i - 1) \div Short]
            ty == IF ((i - 1) \div Short) % 2 = 0 THEN "string" ELSE "number"
        IN  Holding(Strings(Alphabet[as], n), ty, as)]

AllSources ==
    ShortScalars \o
    <<Holding(Quantities(DOMAIN DurationUnit), "string", "duration"), Holding(Quantities({<<>>}), "number", "duration"),
      Holding(Quantities(DOMAIN BytesUnit), "string", "bytes"), Holding(Quantities({<<>>}), "number", "bytes"),
      Holding(Periods, "string", "period"), Holding(Quantities({<<>>}), "number", "integer"),
      EnvSources(1), EnvSources(2), EnvSources(3), Undecoded, Odd, Lists,
      DotenvValues(0), DotenvValues(1), DotenvValues(2), DotenvValues(3), DotenvNames, DotenvLines,
      PropertiesLine(0), PropertiesLine(1), PropertiesLine(2), PropertiesLine(3), PropertiesLine(4),
      PropertiesLines, Escapes, PropertiesKeys, Quotes,
      Numbers5, Limits5, Strings5To(3), Names5, Brackets(Short + 1), Inside(Short + 1), Nests5, Gaps(Short + 1), Repeated,
      YamlDocuments, YamlStreams, DecodedScalars, DecodedUnits, DecodedShapes, DecodedNests, DecodedPaths>> \o JsoncTexts(Short + 1)
=============================================================================
