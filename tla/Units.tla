------------------------------- MODULE Units -------------------------------
(***************************************************************************)
(* units.rs, units/decimal.rs (the reading of a number) and value.rs (the  *)
(* whole numbers): the text of a scalar read as a duration, a byte size, a *)
(* period or an integer.  A text is a sequence of characters, for where    *)
(* its number ends and its unit starts is what the readers decide; the     *)
(* factors and the ranges are scaled down.                                 *)
(***************************************************************************)
EXTENDS Decimal, Texts

CONSTANTS
    MaxExponent,         \* EXP_LIMIT: exponents saturate here
    Milli, Second, Minute,\* nanoseconds in a millisecond, in a second and in a minute
    MaxSeconds,          \* the seconds a Duration holds
    Kilo, Kibi, Exa, Exbi,\* bytes per kB, per k, per EB and per E
    MaxI128, MaxI64, MaxU64, MaxI32,
    WholeDigits          \* the decimal digits of MaxI64

ASSUME UnitsAssumption ==
    /\ {1, Milli, Second, Minute, Kilo, Kibi, Exa, Exbi} \subseteq Factors /\ Second > 0
    /\ {MaxExponent, MaxSeconds, MaxI128, MaxI64, MaxU64, MaxI32, WholeDigits} \subseteq Nat
    /\ MaxI64 < MaxU64 /\ MaxU64 <= MaxI128 /\ MaxI64 + 1 < Ten(WholeDigits)

VARIABLES
    scalar,  \* the text, its type, and what it is read as
    answer   \* the answer of the getter once there is one

unitVars == <<scalar, answer, decimalVars>>

(* ------------------------------- the texts ----------------------------- *)
Letter   == {"B", "E", "b", "d", "e", "k", "m", "n", "o", "s", "w", "y"}
Sign     == {"+", "-"}
Exponent == {"e", "E"}

Unsigned(s) == IF s # <<>> /\ s[1] \in Sign THEN Tail(s) ELSE s
Minus(s)    == s # <<>> /\ s[1] = "-"

\* A number as it is written: the digits before and after the point, and what
\* is behind the e, if there is one.
Notation(minus, mantissa, e, scientific) ==
    [minus |-> minus, scientific |-> scientific, e |-> e,
     int |-> Left(mantissa, {"."}), frac |-> Right(mantissa, {"."})]
Notated(s) ==
    Notation(Minus(s), Left(Unsigned(s), Exponent), Right(Unsigned(s), Exponent), Find(s, Exponent) # 0)

(* ---------------------- Decimal::parse, parse_exponent ------------------ *)
IsInteger(s) == Unsigned(s) # <<>> /\ Digits(Unsigned(s))

\* An integer whose magnitude stops growing at max.
Signed(minus, n) == IF minus THEN -n ELSE n
UpToMax(s, max)  == Signed(Minus(s), Reading(Unsigned(s), max))

Parses(n) ==
    /\ n.int \o n.frac # <<>> /\ Digits(n.int) /\ Digits(n.frac)
    /\ n.scientific => IsInteger(n.e)
IsDecimal(s) == Parses(Notated(s))

\* Zeros in front go, and zeros at the end move into the exponent.
Stripped(all, first, last) ==
    IF first = 0 THEN <<>> ELSE [i \in 1 .. last - first + 1 |-> DigitOf[all[first + i - 1]]]
Normal(n, all) ==
    [negative |-> n.minus,
     digits   |-> Stripped(all, FirstNot(all, {"0"}), LastNot(all, {"0"})),
     exp      |-> (IF n.scientific THEN UpToMax(n.e, MaxExponent) ELSE 0) - Len(n.frac)
                  + (IF FirstNot(all, {"0"}) = 0 THEN 0 ELSE Len(all) - LastNot(all, {"0"}))]
Parsed(n)       == Normal(n, n.int \o n.frac)
ParseDecimal(s) == Parsed(Notated(s))

(* ------------------------------ split and units ------------------------ *)
SplitAfter(s, i) == [number |-> Trim(UpTo(s, i)), unit |-> From(s, i + 1)]

\* A variant: the letters of an exponent belong to the number.
SplitPastExponent(s) == SplitAfter(s, LastNot(s, Letter \ Exponent))

\* split_number_unit, of a text without blanks around it: the unit is the
\* letters at the end.
SplitNumberUnit(s) == SplitAfter(s, LastNot(s, Letter))

\* The units that the inputs spell: one spelling stands for all of a factor,
\* and one of K, M, G, T, P, E, Z and Y with their two forms for all of these.
DurationUnit ==
    [u \in {<<>>, <<"m", "s">>, <<"n", "s">>, <<"s">>, <<"m">>} |->
        CASE u \in {<<>>, <<"m", "s">>} -> Milli
          [] u = <<"n", "s">>           -> 1
          [] u = <<"s">>                -> Second
          [] u = <<"m">>                -> Minute]
BytesUnit ==
    [u \in {<<>>, <<"B">>, <<"b">>, <<"k">>, <<"k", "B">>, <<"E", "B">>, <<"E">>, <<"e">>} |->
        CASE u \in {<<>>, <<"B">>, <<"b">>} -> 1
          [] u = <<"k">>                    -> Kibi
          [] u = <<"k", "B">>               -> Kilo
          [] u = <<"E", "B">>               -> Exa
          [] u \in {<<"E">>, <<"e">>}       -> Exbi]
PeriodUnit ==
    [u \in {<<>>, <<"d">>, <<"w">>, <<"m">>, <<"m", "o">>, <<"y">>} |->
        CASE u \in {<<>>, <<"d">>}          -> "days"
          [] u = <<"w">>                    -> "weeks"
          [] u \in {<<"m">>, <<"m", "o">>}  -> "months"
          [] u = <<"y">>                    -> "years"]

Waiting   == [t |-> "waiting"]
Ok(n)     == [t |-> "ok", n |-> n]
Error(e)  == [t |-> "error", error |-> e]

\* A product to compute before the answer is known.
Product(d, f) == [t |-> "product", number |-> d, factor |-> f]

(* ------------------------------- the readers --------------------------- *)
\* read_duration up to the product: a number that reads as one is in
\* milliseconds, anything else goes through the grammar.
NonNegative(d, f, error) == IF IsNegative(d) THEN Error(error) ELSE Product(d, f)
ParseDuration(split) ==
    IF split.unit \notin DOMAIN DurationUnit \/ ~IsDecimal(split.number) THEN Error("invalid duration")
    ELSE NonNegative(ParseDecimal(split.number), DurationUnit[split.unit], "invalid duration")
StartDuration(s, ty) ==
    IF ty = "number" /\ IsDecimal(s) THEN NonNegative(ParseDecimal(s), Milli, "negative duration")
    ELSE ParseDuration(SplitNumberUnit(s))

\* duration_from: the casts to the seconds and the nanoseconds of a Duration.
MaxNanos == MaxSeconds * Second + Second - 1
FinishDuration ==
    IF product = None \/ product.n > MaxNanos THEN Error("duration too large")
    ELSE Ok(<<(product.n \div Second) % (MaxSeconds + 1), product.n % Second>>)

\* read_bytes up to the product.
ParseBytes(split) ==
    IF split.unit \in DOMAIN BytesUnit /\ IsDecimal(split.number)
    THEN Product(ParseDecimal(split.number), BytesUnit[split.unit])
    ELSE Error("invalid byte size")
StartBytes(s, ty) ==
    IF ty # "number" THEN ParseBytes(SplitNumberUnit(s))
    ELSE IF IsDecimal(s) THEN Product(ParseDecimal(s), 1) ELSE Error("expected byte size")

\* The sign is put back after the truncation, and only then judged.
Sized(n) ==
    IF n > MaxI64 \/ n < -MaxI64 - 1 THEN Error("invalid byte size")
    ELSE IF n < 0 THEN Error("negative byte size") ELSE Ok(n)
FinishBytes ==
    IF product = None \/ product.n > MaxI128 THEN Error("invalid byte size")
    ELSE Sized(Signed(IsNegative(number), product.n))

\* read_period: the number is the digits and signs in front, weeks are seven
\* days if that many fit, and a number that is no period may be bare days.
FitsI32(n) == -MaxI32 - 1 <= n /\ n <= MaxI32
Integer(s) == UpToMax(s, MaxI32 + 2)

SplitPeriod(s, next) ==
    IF next = 0 THEN [number |-> s, unit |-> <<>>]
    ELSE [number |-> UpTo(s, next - 1), unit |-> Trim(From(s, next))]

Period(n, unit) ==
    CASE unit = "days"   -> Ok(<<0, 0, n>>)
      [] unit = "weeks"  -> IF FitsI32(7 * n) THEN Ok(<<0, 0, 7 * n>>) ELSE Error("invalid period")
      [] unit = "months" -> Ok(<<0, n, 0>>)
      [] unit = "years"  -> Ok(<<n, 0, 0>>)
ParsePeriod(split) ==
    IF /\ IsInteger(split.number) /\ FitsI32(Integer(split.number))
       /\ split.unit \in DOMAIN PeriodUnit
    THEN Period(Integer(split.number), PeriodUnit[split.unit])
    ELSE Error("invalid period")

OrDays(period, raw, ty) ==
    IF period.t = "error" /\ ty = "number" /\ IsInteger(raw) /\ FitsI32(Integer(raw))
    THEN Ok(<<0, 0, Integer(raw)>>) ELSE period
ReadPeriod(raw, ty) ==
    OrDays(ParsePeriod(SplitPeriod(Trim(raw), FirstNot(Trim(raw), Sign \cup DOMAIN DigitOf))), raw, ty)

\* get_i64: an integer as it stands, or whole_float_to_i64 of a text with a
\* point or an exponent, whose zeros in front count for nothing.
FitsI64(n)   == -MaxI64 - 1 <= n /\ n <= MaxI64
NotAnInteger == Error("not an integer")

Magnitude(minus, mag) ==
    IF mag > MaxU64 \/ mag > (IF minus THEN MaxI64 + 1 ELSE MaxI64) THEN NotAnInteger
    ELSE Ok(Signed(minus, mag))

\* The last digits are behind the point; no zeros are appended that an i64
\* cannot hold, and none is dropped that is not a zero.
Shifted(minus, digits, behind) ==
    IF digits = <<>> THEN Ok(0)
    ELSE IF behind <= 0
         THEN IF Len(digits) - behind > WholeDigits THEN NotAnInteger
              ELSE Magnitude(minus, Reading(digits \o [i \in 1 .. -behind |-> "0"], MaxU64 + 1))
    ELSE IF behind >= Len(digits) \/ ~AllIn(From(digits, Len(digits) - behind + 1), {"0"}) THEN NotAnInteger
    ELSE Magnitude(minus, Reading(UpTo(digits, Len(digits) - behind), MaxU64 + 1))

WithoutZeros(all) == IF AllIn(all, {"0"}) THEN <<>> ELSE From(all, FirstNot(all, {"0"}))
WholeFloat(n) ==
    IF ~Parses(n) \/ (n.scientific /\ ~FitsI32(Integer(n.e))) THEN NotAnInteger
    ELSE Shifted(n.minus, WithoutZeros(n.int \o n.frac),
                 Len(n.frac) - (IF n.scientific THEN Integer(n.e) ELSE 0))

ReadInteger(raw) ==
    IF IsInteger(raw) /\ FitsI64(UpToMax(raw, MaxI64 + 2)) THEN Ok(UpToMax(raw, MaxI64 + 2))
    ELSE IF Find(raw, Exponent \cup {"."}) = 0 THEN NotAnInteger
    ELSE WholeFloat(Notated(Trim(raw)))

(* ------------------------------- reading ------------------------------- *)
NoScalar == [raw |-> <<>>, ty |-> "none", as |-> "none"]

UnitsInit == scalar = NoScalar /\ answer = Waiting /\ Idle

\* A getter has found a scalar and hands it to a reader.
Request(raw, ty, as) == scalar' = [raw |-> raw, ty |-> ty, as |-> as] /\ UNCHANGED <<answer, decimalVars>>

Start(raw, ty, as) ==
    CASE as = "duration" -> StartDuration(Trim(raw), ty)
      [] as = "bytes"    -> StartBytes(Trim(raw), ty)
      [] as = "period"   -> ReadPeriod(raw, ty)
      [] as = "integer"  -> ReadInteger(raw)

Proceed(start) ==
    IF start.t = "product"
    THEN Multiply(start.number, start.factor) /\ UNCHANGED answer
    ELSE answer' = start /\ UNCHANGED decimalVars

Read ==
    /\ scalar # NoScalar /\ step = "idle" /\ answer = Waiting
    /\ Proceed(Start(scalar.raw, scalar.ty, scalar.as))
    /\ UNCHANGED scalar

Finish ==
    /\ step = "done" /\ answer = Waiting
    /\ answer' = IF scalar.as = "duration" THEN FinishDuration ELSE FinishBytes
    /\ UNCHANGED <<scalar, decimalVars>>

ReadScalar == Read \/ (Compute /\ UNCHANGED <<scalar, answer>>) \/ Finish

\* The answer is taken, and nothing of the scalar is kept.
Forget ==
    /\ answer # Waiting
    /\ scalar' = NoScalar /\ answer' = Waiting
    /\ number' = NoNumber /\ factor' = 0 /\ limbs' = <<>> /\ left' = 0 /\ at' = 1 /\ carry' = 0
    /\ step' = "idle" /\ product' = None

(* --------------------------- scalars in general ------------------------ *)
\* Any text at all, of any type and read as anything, one after the other. (No
\* text is as long as the exponents that saturate are large.)
RawText == {s \in Seq(STRING) : Len(s) + MaxDigits <= MaxExponent}

UnitsNext ==
    \/ /\ scalar = NoScalar
       /\ \E raw \in RawText, ty \in {"string", "number", "boolean", "null"},
             as \in {"duration", "bytes", "period", "integer"} : Request(raw, ty, as)
    \/ ReadScalar
    \/ Forget

UnitsSpec == UnitsInit /\ [][UnitsNext]_unitVars
=============================================================================
