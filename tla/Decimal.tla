------------------------------ MODULE Decimal ------------------------------
(***************************************************************************)
(* units/decimal.rs: the product of an exact decimal and the factor of a   *)
(* unit, truncated toward zero.  The magnitude is kept in limbs of         *)
(* LimbDigits decimal digits, least significant first, and every loop over *)
(* the limbs is a sequence of steps here, in words that wrap past MaxWord. *)
(* The code has LimbDigits = 9, MaxDigits = 40 and MaxWord = 2^128 - 1.    *)
(***************************************************************************)
EXTENDS Integers, Sequences

CONSTANTS
    LimbDigits,  \* decimal digits in a limb
    Power,       \* Power[k] is ten to the k, for k up to LimbDigits
    MaxDigits,   \* a product with more integer digits is not attempted
    MaxWord,     \* the largest value of a word
    Factors      \* the factors of the units

Base == Power[LimbDigits]

ASSUME PowersAssumption ==
    /\ LimbDigits \in Nat \ {0}
    /\ Power \in [0 .. LimbDigits -> Nat]
    /\ Power[0] = 1
    /\ \A k \in 0 .. LimbDigits - 1 : Power[k + 1] = 10 * Power[k]
    /\ \A j, k \in 0 .. LimbDigits : j <= k => 1 <= Power[j] /\ Power[j] <= Power[k]

ASSUME WordAssumption ==
    /\ MaxWord \in Nat /\ MaxDigits \in Nat
    /\ Factors \subseteq Nat
    /\ \A f \in Factors : Base * f <= MaxWord + 1
    /\ Base * Power[LimbDigits - 1] <= MaxWord + 1

\* Horner's rule: z, taken n times by a and each time added the next of w.
Horner(z, a, w, n) ==
    LET h[i \in 0 .. n] == IF i = 0 THEN z ELSE a * h[i - 1] + w[i]
    IN  h[n]

Ten(n) == Horner(1, 10, [i \in Nat |-> 0], n)

\* No word holds what has more integer digits.
ASSUME DigitsAssumption == Ten(MaxDigits) > MaxWord

VARIABLES
    number,   \* the decimal: (-1)^negative * digits * 10^exp
    factor,   \* the unit's factor
    limbs,    \* the magnitude
    left,     \* digits not yet gathered into a limb
    at,       \* the digit or the limb the loop is at
    carry,    \* what the loop carries from one turn to the next
    step,     \* the loop that runs
    product   \* the product once it is known

decimalVars == <<number, factor, limbs, left, at, carry, step, product>>

None    == [t |-> "none"]
Some(n) == [t |-> "some", n |-> n]

IsZero(d)     == d.digits = <<>>
IsNegative(d) == d.negative /\ ~IsZero(d)

\* A word of the machine.
Word(n) == n % (MaxWord + 1)

\* A variant: one digit too many in a limb.
ChunkStartBefore(end) == IF end <= LimbDigits THEN 0 ELSE end - LimbDigits - 1

ChunkStart(end) == IF end < LimbDigits THEN 0 ELSE end - LimbDigits

Zeros(n) == [i \in 1 .. n |-> 0]

(* ------------------------------- mul_trunc ----------------------------- *)
\* The product of d and f is asked for: nothing to compute for a zero, and
\* nothing to try for a number with too many integer digits.
Multiply(d, f) ==
    /\ number' = d /\ factor' = f
    /\ limbs' = <<>> /\ carry' = 0
    /\ left' = Len(d.digits) /\ at' = ChunkStart(Len(d.digits)) + 1
    /\ \/ /\ IsZero(d) \/ f = 0
          /\ step' = "done" /\ product' = Some(0)
       \/ /\ ~IsZero(d) /\ f # 0
          /\ Len(d.digits) + d.exp > MaxDigits
          /\ step' = "done" /\ product' = None
       \/ /\ ~IsZero(d) /\ f # 0
          /\ Len(d.digits) + d.exp <= MaxDigits
          /\ step' = "gather" /\ product' = None

\* from_digits: a limb is gathered digit by digit, the last LimbDigits first.
GatherDigit ==
    /\ step = "gather" /\ at <= left
    /\ carry' = Word(carry * 10 + number.digits[at])
    /\ at' = at + 1
    /\ UNCHANGED <<number, factor, limbs, left, step, product>>

PushLimb ==
    /\ step = "gather" /\ at > left
    /\ limbs' = Append(limbs, carry)
    /\ carry' = 0
    /\ left' = ChunkStart(left)
    /\ IF left' = 0
       THEN step' = "scale" /\ at' = 1
       ELSE step' = step /\ at' = ChunkStart(left') + 1
    /\ UNCHANGED <<number, factor, product>>

\* mul_small: by the factor first, and by the odd power of ten later.
Multiplier == IF step = "scale" THEN factor ELSE Power[number.exp % LimbDigits]

\* A variant: the limb is not brought below the base.
MultiplyLimbWhole ==
    /\ step \in {"scale", "raise"} /\ at <= Len(limbs)
    /\ limbs' = [limbs EXCEPT ![at] = Word(limbs[at] * Multiplier + carry)]
    /\ carry' = 0
    /\ at' = at + 1
    /\ UNCHANGED <<number, factor, left, step, product>>

MultiplyLimb ==
    /\ step \in {"scale", "raise"} /\ at <= Len(limbs)
    /\ LET v == Word(limbs[at] * Multiplier + carry)
       IN  /\ limbs' = [limbs EXCEPT ![at] = v % Base]
           /\ carry' = v \div Base
    /\ at' = at + 1
    /\ UNCHANGED <<number, factor, left, step, product>>

\* A variant: only one limb is pushed for the carry.
PushCarryOnce ==
    /\ step \in {"scale", "raise"} /\ at > Len(limbs) /\ carry > 0
    /\ limbs' = Append(limbs, carry % Base)
    /\ carry' = 0
    /\ at' = at + 1
    /\ UNCHANGED <<number, factor, left, step, product>>

PushCarry ==
    /\ step \in {"scale", "raise"} /\ at > Len(limbs) /\ carry > 0
    /\ limbs' = Append(limbs, carry % Base)
    /\ carry' = carry \div Base
    /\ at' = at + 1
    /\ UNCHANGED <<number, factor, left, step, product>>

\* mul_pow10: whole limbs of zeros go in below, the rest is a multiplication.
Raise ==
    /\ step = "scale" /\ at > Len(limbs) /\ carry = 0 /\ number.exp >= 0
    /\ limbs' = Zeros(number.exp \div LimbDigits) \o limbs
    /\ step' = "raise" /\ at' = 1
    /\ UNCHANGED <<number, factor, left, carry, product>>

\* div_pow10_trunc: whole limbs go, and the rest is a division from the top.
Drop ==
    /\ step = "scale" /\ at > Len(limbs) /\ carry = 0 /\ number.exp < 0
    /\ LET whole == (-number.exp) \div LimbDigits
       IN  IF whole >= Len(limbs)
           THEN limbs' = <<>> /\ step' = "pack" /\ at' = 0
           ELSE /\ limbs' = SubSeq(limbs, whole + 1, Len(limbs))
                /\ step' = "divide" /\ at' = Len(limbs) - whole
    /\ UNCHANGED <<number, factor, left, carry, product>>

Divisor == Power[(-number.exp) % LimbDigits]

DivideLimb ==
    /\ step = "divide" /\ at > 0
    /\ LET v == Word(carry * Base + limbs[at])
       IN  /\ limbs' = [limbs EXCEPT ![at] = v \div Divisor]
           /\ carry' = v % Divisor
    /\ at' = at - 1
    /\ UNCHANGED <<number, factor, left, step, product>>

\* to_u128: the limbs as one word, checked.
Pack ==
    /\ \/ step = "raise" /\ at > Len(limbs) /\ carry = 0
       \/ step = "divide" /\ at = 0
    /\ step' = "pack" /\ at' = Len(limbs) /\ carry' = 0
    /\ UNCHANGED <<number, factor, limbs, left, product>>

PackLimb ==
    /\ step = "pack" /\ at > 0
    /\ LET v == carry * Base + limbs[at]
       IN  IF v > MaxWord
           THEN product' = None /\ step' = "done" /\ UNCHANGED <<at, carry>>
           ELSE carry' = v /\ at' = at - 1 /\ UNCHANGED <<step, product>>
    /\ UNCHANGED <<number, factor, limbs, left>>

Packed ==
    /\ step = "pack" /\ at = 0
    /\ product' = Some(carry) /\ step' = "done"
    /\ UNCHANGED <<number, factor, limbs, left, at, carry>>

Compute ==
    \/ GatherDigit \/ PushLimb
    \/ MultiplyLimb \/ PushCarry
    \/ Raise \/ Drop \/ DivideLimb
    \/ Pack \/ PackLimb \/ Packed

(* --------------------------- products in general ----------------------- *)
\* The digits of a decimal have no zero in front, and zero has none.
Numbers ==
    {d \in [negative : BOOLEAN, digits : Seq(0 .. 9), exp : Int] :
        ~IsZero(d) => d.digits[1] # 0}

NoNumber == [negative |-> FALSE, digits |-> <<>>, exp |-> 0]

Idle ==
    /\ number = NoNumber /\ factor = 0 /\ limbs = <<>>
    /\ left = 0 /\ at = 1 /\ carry = 0
    /\ step = "idle" /\ product = None

\* Any product at all, one after the other.
ProductNext ==
    \/ step \in {"idle", "done"} /\ \E d \in Numbers, f \in Factors : Multiply(d, f)
    \/ Compute

ProductSpec == Idle /\ [][ProductNext]_decimalVars

\* No sum or product the loops compute is beyond a word (decimal.rs:147: a
\* limb product plus carry stays below the width), whatever the digits, the
\* exponent and the factor: nothing wraps.
NeverWraps ==
    /\ step = "gather" /\ at <= left => carry * 10 + number.digits[at] <= MaxWord
    /\ step \in {"scale", "raise"} /\ at <= Len(limbs) =>
           limbs[at] * Multiplier + carry <= MaxWord
    /\ step = "divide" /\ at > 0 => carry * Base + limbs[at] <= MaxWord

(* ---------------------------- the reference ---------------------------- *)
Mantissa(digits) == Horner(0, 10, digits, Len(digits))

\* |v| * f, truncated toward zero: None when it is beyond a word.  (What is
\* below one or beyond a word is found without computing the whole power.)
Exactly(v, f) ==
    LET n     == v.mantissa * f
        whole == IF \E k \in 0 .. -v.exp - 1 : Ten(k) > n \div 10 THEN 0 ELSE n \div Ten(-v.exp)
    IN  IF n = 0 THEN Some(0)
        ELSE IF v.exp < 0
        THEN IF whole > MaxWord THEN None ELSE Some(whole)
        ELSE IF \E k \in 0 .. v.exp : n * Ten(k) > MaxWord THEN None
        ELSE Some(n * Ten(v.exp))

\* The product of limbs is the product of the numbers, truncated toward zero,
\* and refused only when no word holds it (decimal.rs:86, E20): the guard on
\* the number of digits never refuses what fits, and no carry is lost.
ProductExact ==
    step = "done" =>
        product = Exactly([mantissa |-> Mantissa(number.digits), exp |-> number.exp], factor)
=============================================================================
