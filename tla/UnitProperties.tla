--------------------------- MODULE UnitProperties ---------------------------
(***************************************************************************)
(* What the readers of scalars owe their callers.  The reference takes a   *)
(* text apart with one grammar for all of them, [ws] number [ws] [unit]    *)
(* [ws], over every way to cut it, and computes with the number itself.    *)
(***************************************************************************)
EXTENDS Units

UnitReaders == {"duration", "bytes", "period", "integer"}
Steps   == {"idle", "gather", "scale", "raise", "divide", "pack", "done"}

\* The type invariant: the loop stays within its digits and limbs, a limb is
\* below the base, and there is a product only when the loops are done.
UnitsTypeOK ==
    /\ scalar = NoScalar \/ (scalar.ty \in {"string", "number", "boolean", "null"} /\ scalar.as \in UnitReaders)
    /\ answer = Waiting \/ answer.t \in {"ok", "error"}
    /\ step \in Steps
    /\ number \in Numbers
    /\ \A i \in DOMAIN limbs : limbs[i] \in 0 .. Base - 1
    /\ left \in 0 .. Len(number.digits) /\ carry \in 0 .. MaxWord
    /\ step = "gather" => at \in 1 .. left + 1
    /\ step \in {"scale", "raise"} => at \in 1 .. Len(limbs) + 1
    /\ step \in {"divide", "pack"} => at \in 0 .. Len(limbs)
    /\ product # None => step = "done" /\ product.n \in 0 .. MaxWord

(* ---------------------------- the reference ---------------------------- *)
Value(digits) == Mantissa([i \in DOMAIN digits |-> DigitOf[digits[i]]])

\* The ways to cut s into sign, digits, point, digits, e, sign and digits: the
\* point and the e are at dot and e, past the end of their part if missing.
Cuts(s) ==
    {c \in [sign : 0 .. 1, dot : 1 .. Len(s) + 1, e : 1 .. Len(s) + 1] :
        /\ c.sign < c.dot /\ c.dot <= c.e
        /\ c.sign = 1 => s[1] \in Sign
        /\ c.dot < c.e => s[c.dot] = "."
        /\ Digits(SubSeq(s, c.sign + 1, c.dot - 1)) /\ Digits(SubSeq(s, c.dot + 1, c.e - 1))
        /\ c.dot - c.sign - 1 > 0 \/ c.e - c.dot - 1 > 0
        /\ c.e <= Len(s) =>
               /\ s[c.e] \in Exponent
               /\ IsInteger(From(s, c.e + 1))}

\* The exponent as it is written after the e.
Written(e) == IF e = <<>> THEN 0 ELSE IF Minus(e) THEN -Value(Unsigned(e)) ELSE Value(Unsigned(e))

\* The numbers s spells, as mantissa and exponent: {} when it spells none.
Spells(s) ==
    {[negative |-> Minus(s),
      mantissa |-> Value(SubSeq(s, c.sign + 1, c.dot - 1) \o SubSeq(s, c.dot + 1, c.e - 1)),
      written  |-> Written(From(s, c.e + 1)),
      exp      |-> Written(From(s, c.e + 1)) - (IF c.dot < c.e THEN c.e - c.dot - 1 ELSE 0)] :
        c \in Cuts(s)}

\* The ways to read raw as blanks, a number, blanks, one of units and blanks.
Means(raw, units) ==
    UNION {{[value |-> v, unit |-> u] :
                v \in Spells(Trim(UpTo(Trim(raw), Len(Trim(raw)) - Len(u))))} :
        u \in {w \in units : IsSuffix(w, Trim(raw))}}

BelowZero(v) == v.negative /\ v.mantissa # 0

\* What the text is worth to a reader, as the set of its possible answers:
\* with an empty set the reader has to refuse it.
WorthAsDuration(raw) ==
    {<<Exactly(m.value, DurationUnit[m.unit]).n \div Second,
       Exactly(m.value, DurationUnit[m.unit]).n % Second>> :
        m \in {w \in Means(raw, DOMAIN DurationUnit) :
                  /\ ~BelowZero(w.value)
                  /\ Exactly(w.value, DurationUnit[w.unit]) # None
                  /\ Exactly(w.value, DurationUnit[w.unit]).n <= MaxNanos}}

\* A number scalar names no unit; a negative size below one byte is none.
WorthAsBytes(raw, ty) ==
    {Exactly(m.value, BytesUnit[m.unit]).n :
        m \in {w \in Means(raw, IF ty = "number" THEN {<<>>} ELSE DOMAIN BytesUnit) :
                  /\ Exactly(w.value, BytesUnit[w.unit]) # None
                  /\ Exactly(w.value, BytesUnit[w.unit]).n <= IF BelowZero(w.value) THEN 0 ELSE MaxI64}}

Within(n, max) == -max - 1 <= n /\ n <= max

\* Years, months and days; an integer only, and seven days to the week.
Field == [u \in DOMAIN PeriodUnit |->
              CASE PeriodUnit[u] = "years" -> 1 [] PeriodUnit[u] = "months" -> 2 [] OTHER -> 3]
Times(u) == IF PeriodUnit[u] = "weeks" THEN 7 ELSE 1

WorthAsPeriod(raw) ==
    {[i \in 1 .. 3 |-> IF i = Field[m.unit] THEN Signed(m.value.negative, m.value.mantissa) * Times(m.unit) ELSE 0] :
        m \in {w \in Means(raw, DOMAIN PeriodUnit) :
                  /\ Find(Trim(UpTo(Trim(raw), Len(Trim(raw)) - Len(w.unit))), Exponent \cup {"."}) = 0
                  /\ w.value.mantissa <= MaxI32 + 1
                  /\ Within(Signed(w.value.negative, w.value.mantissa) * Times(w.unit), MaxI32)}}

\* Integers as they are, and whole numbers in any other notation, blanks
\* around them allowed, as long as the exponent is one an i32 holds.
IsWhole(v) ==
    \/ v.mantissa = 0
    \/ IF v.exp >= 0 THEN v.mantissa <= MaxI64 + 1 /\ v.exp <= WholeDigits
       ELSE (\A k \in 0 .. -v.exp : Ten(k) <= v.mantissa) /\ v.mantissa % Ten(-v.exp) = 0
Whole(v) ==
    IF v.mantissa = 0 THEN 0
    ELSE IF v.exp >= 0 THEN v.mantissa * Ten(v.exp) ELSE v.mantissa \div Ten(-v.exp)

WorthAsInteger(raw) ==
    {Signed(v.negative, Whole(v)) :
        v \in {w \in Spells(IF Find(raw, Exponent \cup {"."}) = 0 THEN raw ELSE Trim(raw)) :
                  IsWhole(w) /\ Within(w.written, MaxI32) /\ Within(Signed(w.negative, Whole(w)), MaxI64)}}

Worth ==
    CASE scalar.as = "duration" -> WorthAsDuration(scalar.raw)
      [] scalar.as = "bytes"    -> WorthAsBytes(scalar.raw, scalar.ty)
      [] scalar.as = "period"   -> WorthAsPeriod(scalar.raw)
      [] scalar.as = "integer"  -> WorthAsInteger(scalar.raw)

(* --------------------------- the properties ---------------------------- *)
\* A reader answers with what the text is worth and refuses a text that is
\* worth nothing to it (units.rs:75 to 134, config.rs:328): an exponent is never
\* taken for a unit or a unit for an exponent, a number scalar and a string
\* without a unit read the same, no cast wraps and no limit is off by one.
ReadsTheText ==
    answer # Waiting /\ scalar # NoScalar => Worth = IF answer.t = "ok" THEN {answer.n} ELSE {}
=============================================================================
