--------------------------- MODULE Decimal_proofs ---------------------------
(***************************************************************************)
(* The arithmetic on limbs is right: for every width of a limb, every set  *)
(* of factors that leaves room for one limb, every number and every        *)
(* exponent no loop leaves a word, and the loops end with the product,     *)
(* truncated, or refuse it because no word holds it.                       *)
(*                                                                         *)
(* The first part, up to WordsSuffice, bounds what the loops carry.  The   *)
(* second says what they have computed so far: it rests on Horner's rule,  *)
(* which gives the digits, the powers of ten and the limbs their values.   *)
(***************************************************************************)
EXTENDS Decimal, WellFoundedInduction, TLAPS

LimbSeq == Seq(0 .. Base - 1)

\* How many digits of the current limb have been gathered.
Gathered == at - 1 - ChunkStart(left)

Typed ==
    /\ number \in Numbers
    /\ factor \in Nat /\ limbs \in LimbSeq
    /\ left \in 0 .. Len(number.digits)
    /\ at \in Nat /\ carry \in Nat

GatherSmall ==
    step = "gather" =>
        /\ factor \in Factors /\ factor # 0
        /\ at \in ChunkStart(left) + 1 .. left + 1
        /\ carry < Power[Gathered]

\* As long as limbs are left the carry is below the multiplier.
MultiplySmall ==
    step \in {"scale", "raise"} =>
        /\ factor \in Factors /\ factor # 0
        /\ at \in 1 .. Len(limbs) + 1
        /\ at <= Len(limbs) => carry < Multiplier
        /\ step = "raise" => number.exp >= 0

DivideSmall ==
    step = "divide" =>
        at \in 0 .. Len(limbs) /\ carry < Divisor /\ number.exp < 0

PackSmall == step = "pack" => at \in 0 .. Len(limbs)

IInv == Typed /\ GatherSmall /\ MultiplySmall /\ DivideSmall /\ PackSmall

(* ------------------------------ arithmetic ----------------------------- *)
\* A limb times a multiplier plus a smaller carry is below base * multiplier.
LEMMA ProductBelow ==
    ASSUME NEW b \in Nat \ {0}, NEW m \in Nat \ {0},
           NEW limb \in 0 .. b - 1, NEW c \in 0 .. m - 1
    PROVE  limb * m + c \in 0 .. b * m - 1
<1>1. limb * m <= (b - 1) * m /\ limb * m >= 0
  BY Z3
<1>2. (b - 1) * m = b * m - m
  BY Z3
<1>3. limb * m \in Nat /\ b * m \in Nat
  BY Z3
<1> QED
  BY <1>1, <1>2, <1>3

\* Dividing by one of two factors leaves less than the other.
LEMMA QuotientBelow ==
    ASSUME NEW b \in Nat \ {0}, NEW m \in Nat \ {0}, NEW v \in 0 .. b * m - 1
    PROVE  v \div b \in 0 .. m - 1 /\ v % b \in 0 .. b - 1
<1>1. b * m \in Nat
  BY Z3
<1>2. v \in Nat
  BY <1>1
<1>3. v % b \in 0 .. b - 1 /\ v \div b \in Nat /\ v = b * (v \div b) + (v % b)
  BY <1>2, Z3
<1>4. SUFFICES ASSUME v \div b >= m PROVE FALSE
  BY <1>3
<1>5. b * (v \div b) >= b * m
  BY <1>3, <1>4, Z3
<1>6. v < b * m
  BY <1>1
<1>7. b * (v \div b) \in Nat
  BY <1>3, Z3
<1> QED
  BY <1>1, <1>2, <1>3, <1>5, <1>6, <1>7

\* A power of ten is whole limbs and a rest below a limb.
LEMMA WholeAndRest ==
    ASSUME NEW n \in Nat, NEW d \in Nat \ {0} PROVE n \div d \in Nat /\ n % d \in 0 .. d - 1
BY Z3

\* The end of a sequence.
LEMMA SuffixOfSeq ==
    ASSUME NEW S, NEW s \in Seq(S), NEW w \in Nat, w < Len(s)
    PROVE  SubSeq(s, w + 1, Len(s)) \in Seq(S) /\ Len(SubSeq(s, w + 1, Len(s))) = Len(s) - w
OBVIOUS

\* What a word holds is kept as it is.
LEMMA WordKeeps ==
    ASSUME NEW v \in Nat, v <= MaxWord PROVE Word(v) = v
<1>1. MaxWord \in Nat
  BY WordAssumption
<1> QED
  BY <1>1, Z3 DEF Word

\* The base and the powers below it, and the room a word leaves for them.
LEMMA Powers ==
    /\ Base \in Nat \ {0} /\ LimbDigits \in Nat \ {0} /\ MaxWord \in Nat
    /\ Base <= MaxWord + 1
    /\ \A k \in 0 .. LimbDigits - 1 :
           /\ Power[k] \in Nat \ {0} /\ Power[k] <= Base
           /\ Base * Power[k] <= MaxWord + 1
    /\ \A f \in Factors : f \in Nat /\ Base * f <= MaxWord + 1
<1>1. LimbDigits \in Nat \ {0} /\ LimbDigits - 1 \in 0 .. LimbDigits
  BY PowersAssumption
<1>2. Base \in Nat \ {0}
  BY <1>1, PowersAssumption DEF Base
<1>3. \A k \in 0 .. LimbDigits - 1 : Power[k] \in Nat \ {0} /\ Power[k] <= Base /\ Power[k] <= Power[LimbDigits - 1]
  BY <1>1, PowersAssumption DEF Base
<1>4. ASSUME NEW k \in 0 .. LimbDigits - 1 PROVE Base * Power[k] <= MaxWord + 1
  <2>1. Power[k] \in Nat /\ Power[LimbDigits - 1] \in Nat /\ Power[k] <= Power[LimbDigits - 1]
    BY <1>1, <1>3, PowersAssumption
  <2>2. Base * Power[k] <= Base * Power[LimbDigits - 1]
    BY <1>2, <2>1, Z3
  <2>3. Base * Power[k] \in Nat /\ Base * Power[LimbDigits - 1] \in Nat
    BY <1>2, <2>1, Z3
  <2> QED
    BY <2>2, <2>3, WordAssumption
<1>5. Base <= MaxWord + 1
  <2>1. Base * Power[0] = Base
    BY <1>2, PowersAssumption, Z3
  <2> QED
    BY <2>1, <1>1, <1>4
<1> QED
  BY <1>1, <1>2, <1>3, <1>4, <1>5, WordAssumption

\* A multiplier in use is a factor or a small power of ten.
LEMMA MultiplierFits ==
    ASSUME Typed, MultiplySmall, step \in {"scale", "raise"}
    PROVE  Multiplier \in Nat \ {0} /\ Base * Multiplier <= MaxWord + 1
<1>1. CASE step = "scale"
  BY <1>1, Powers DEF Multiplier, MultiplySmall
<1>2. CASE step = "raise"
  <2>1. number.exp \in Nat
    BY <1>2 DEF MultiplySmall, Typed, Numbers
  <2>2. number.exp % LimbDigits \in 0 .. LimbDigits - 1
    BY <2>1, Powers
  <2> QED
    BY <1>2, <2>2, Powers DEF Multiplier
<1> QED
  BY <1>1, <1>2

\* A divisor is a small power of ten.
LEMMA DivisorFits ==
    ASSUME Typed, DivideSmall, step = "divide"
    PROVE  Divisor \in Nat \ {0} /\ Base * Divisor <= MaxWord + 1
<1>1. -number.exp \in Nat
  BY DEF DivideSmall, Typed, Numbers
<1>2. (-number.exp) % LimbDigits \in 0 .. LimbDigits - 1
  BY <1>1, Powers
<1> QED
  BY <1>2, Powers DEF Divisor

(* ----------------------------- what is computed ------------------------ *)
\* The three sums, each within what the next step relies on.
LEMMA GatherFits ==
    ASSUME Typed, GatherSmall, step = "gather", at <= left
    PROVE  /\ carry * 10 + number.digits[at] \in Nat
           /\ carry * 10 + number.digits[at] <= MaxWord
           /\ Gathered + 1 \in 0 .. LimbDigits
           /\ carry * 10 + number.digits[at] < Power[Gathered + 1]
<1>1. at \in 1 .. Len(number.digits) /\ number.digits \in Seq(0 .. 9)
  <2>1. ChunkStart(left) \in Nat
    BY Powers DEF ChunkStart, Typed
  <2> QED
    BY <2>1 DEF Typed, Numbers, GatherSmall
<1>2. number.digits[at] \in 0 .. 9
  BY <1>1
<1>3. Gathered \in 0 .. LimbDigits - 1
  BY Powers DEF Gathered, ChunkStart, Typed, GatherSmall
<1>4. Power[Gathered + 1] = 10 * Power[Gathered] /\ Power[Gathered] \in Nat
  BY <1>3, PowersAssumption
<1>5. Power[Gathered + 1] <= Base /\ Gathered + 1 \in 0 .. LimbDigits
  BY <1>3, PowersAssumption DEF Base
<1>6. carry \in Nat /\ carry < Power[Gathered]
  BY DEF Typed, GatherSmall
<1> QED
  BY <1>2, <1>4, <1>5, <1>6, Powers

\* A limb times the multiplier.
LEMMA MultiplyFits ==
    ASSUME Typed, MultiplySmall, step \in {"scale", "raise"}, at <= Len(limbs)
    PROVE  /\ limbs[at] * Multiplier + carry \in Nat
           /\ limbs[at] * Multiplier + carry <= MaxWord
           /\ (limbs[at] * Multiplier + carry) % Base \in 0 .. Base - 1
           /\ (limbs[at] * Multiplier + carry) \div Base \in 0 .. Multiplier - 1
<1>1. Multiplier \in Nat \ {0} /\ Base * Multiplier <= MaxWord + 1
  BY MultiplierFits
<1>2. Base \in Nat \ {0} /\ MaxWord \in Nat
  BY Powers
<1>3. limbs[at] \in 0 .. Base - 1
  BY <1>2 DEF Typed, LimbSeq, MultiplySmall
<1>4. carry \in 0 .. Multiplier - 1
  BY <1>1 DEF Typed, MultiplySmall
<1>5. limbs[at] * Multiplier + carry \in 0 .. Base * Multiplier - 1
  BY <1>1, <1>2, <1>3, <1>4, ProductBelow
<1>6. Base * Multiplier \in Nat
  BY <1>1, <1>2, Z3
<1>7. /\ (limbs[at] * Multiplier + carry) \div Base \in 0 .. Multiplier - 1
      /\ (limbs[at] * Multiplier + carry) % Base \in 0 .. Base - 1
  BY <1>1, <1>2, <1>5, QuotientBelow
<1> QED
  BY <1>1, <1>2, <1>5, <1>6, <1>7

\* A limb under the carry.
LEMMA DivideFits ==
    ASSUME Typed, DivideSmall, step = "divide", at > 0
    PROVE  /\ carry * Base + limbs[at] \in Nat
           /\ carry * Base + limbs[at] <= MaxWord
           /\ (carry * Base + limbs[at]) % Divisor \in 0 .. Divisor - 1
           /\ (carry * Base + limbs[at]) \div Divisor \in 0 .. Base - 1
<1>1. Divisor \in Nat \ {0} /\ Base * Divisor <= MaxWord + 1
  BY DivisorFits
<1>2. Base \in Nat \ {0} /\ MaxWord \in Nat
  BY Powers
<1>3. limbs[at] \in 0 .. Base - 1
  BY <1>2 DEF Typed, LimbSeq, DivideSmall
<1>4. carry \in 0 .. Divisor - 1
  BY <1>1 DEF Typed, DivideSmall
<1>5. carry * Base + limbs[at] \in 0 .. Divisor * Base - 1
  BY <1>1, <1>2, <1>3, <1>4, ProductBelow
<1>6. Divisor * Base \in Nat /\ Divisor * Base = Base * Divisor
  BY <1>1, <1>2, Z3
<1>7. /\ (carry * Base + limbs[at]) \div Divisor \in 0 .. Base - 1
      /\ (carry * Base + limbs[at]) % Divisor \in 0 .. Divisor - 1
  BY <1>1, <1>2, <1>5, QuotientBelow
<1> QED
  BY <1>1, <1>2, <1>5, <1>6, <1>7

(* ------------------------- the inductive invariant --------------------- *)
\* A new product starts with a chunk of digits and nothing carried.
LEMMA MultiplyKeeps ==
    ASSUME IInv, NEW d \in Numbers, NEW f \in Factors, Multiply(d, f)
    PROVE  IInv'
<1>1. Len(d.digits) \in Nat /\ ChunkStart(Len(d.digits)) \in 0 .. Len(d.digits)
  BY Powers DEF Numbers, ChunkStart
<1>2. Typed'
  BY <1>1, Powers DEF Multiply, Typed, LimbSeq
<1>3. step' \in {"gather", "done"} /\ (step' = "gather" => f # 0)
  BY DEF Multiply
<1>4. GatherSmall'
  <2>1. Gathered' = 0 /\ carry' = 0 /\ Power[0] = 1
    BY <1>1, PowersAssumption DEF Multiply, Gathered
  <2> QED
    BY <1>1, <1>3, <2>1 DEF Multiply, GatherSmall
<1> QED
  BY <1>2, <1>3, <1>4 DEF IInv, MultiplySmall, DivideSmall, PackSmall

LEMMA GatherDigitKeeps ==
    ASSUME IInv, GatherDigit PROVE IInv'
<1> USE DEF IInv
<1>1. carry' = carry * 10 + number.digits[at] /\ at' = at + 1
  BY GatherFits, WordKeeps DEF GatherDigit
<1>2. step = "gather" /\ step' = "gather" /\ left' = left
  BY DEF GatherDigit
<1>3. Typed'
  BY <1>1, GatherFits DEF GatherDigit, Typed
<1>4. GatherSmall'
  <2>1. Gathered' = Gathered + 1
    BY <1>1, <1>2, Powers DEF Gathered, Typed, ChunkStart
  <2> QED
    BY <1>1, <1>2, <2>1, GatherFits, Powers DEF GatherDigit, GatherSmall, Typed, ChunkStart
<1> QED
  BY <1>2, <1>3, <1>4 DEF MultiplySmall, DivideSmall, PackSmall

LEMMA PushLimbKeeps ==
    ASSUME IInv, PushLimb PROVE IInv'
<1> USE DEF IInv
<1>1. step = "gather" /\ at = left + 1 /\ left \in Nat
  BY DEF PushLimb, Typed, GatherSmall
<1>2. Gathered \in 0 .. LimbDigits
  BY <1>1, Powers DEF Gathered, ChunkStart
<1>3. Power[Gathered] <= Base /\ Power[Gathered] \in Nat
  BY <1>2, PowersAssumption, Powers DEF Base
<1>4. carry \in 0 .. Base - 1
  BY <1>1, <1>3, Powers DEF GatherSmall, Typed
<1>5. limbs' \in LimbSeq /\ carry' = 0 /\ Len(limbs') \in Nat
  BY <1>4 DEF PushLimb, Typed, LimbSeq
<1>6. left' = ChunkStart(left) /\ left' \in 0 .. left /\ ChunkStart(left') \in 0 .. left'
  BY <1>1, Powers DEF PushLimb, ChunkStart
<1>7. Typed'
  BY <1>1, <1>5, <1>6 DEF PushLimb, Typed
<1>8. CASE left' = 0
  <2>1. step' = "scale" /\ at' = 1 /\ carry' = 0 /\ factor' = factor
    BY <1>8 DEF PushLimb
  <2>2. factor \in Factors /\ factor # 0
    BY <1>1 DEF GatherSmall
  <2>3. Multiplier' = factor
    BY <2>1 DEF Multiplier
  <2>4. MultiplySmall'
    BY <1>5, <2>1, <2>2, <2>3, Powers DEF MultiplySmall
  <2> QED
    BY <1>7, <2>1, <2>4 DEF GatherSmall, DivideSmall, PackSmall
<1>9. CASE left' # 0
  <2>1. step' = "gather" /\ at' = ChunkStart(left') + 1 /\ carry' = 0 /\ factor' = factor
    BY <1>1, <1>9 DEF PushLimb
  <2>2. Gathered' = 0 /\ Power[0] = 1
    BY <1>6, <2>1, PowersAssumption DEF Gathered
  <2>3. GatherSmall'
    BY <1>1, <1>6, <2>1, <2>2 DEF GatherSmall
  <2> QED
    BY <1>7, <2>1, <2>3 DEF MultiplySmall, DivideSmall, PackSmall
<1> QED
  BY <1>8, <1>9

LEMMA MultiplyLimbKeeps ==
    ASSUME IInv, MultiplyLimb PROVE IInv'
<1> USE DEF IInv
<1> DEFINE v == limbs[at] * Multiplier + carry
<1>1. /\ step \in {"scale", "raise"} /\ at <= Len(limbs) /\ at \in 1 .. Len(limbs)
      /\ limbs \in LimbSeq /\ Len(limbs) \in Nat
  BY DEF MultiplyLimb, MultiplySmall, Typed, LimbSeq
<1>2. Word(v) = v /\ v % Base \in 0 .. Base - 1 /\ v \div Base \in 0 .. Multiplier - 1
  BY <1>1, MultiplyFits, WordKeeps
<1>3. limbs' = [limbs EXCEPT ![at] = v % Base] /\ carry' = v \div Base /\ at' = at + 1
  BY <1>2 DEF MultiplyLimb
<1>4. limbs' \in LimbSeq /\ Len(limbs') = Len(limbs)
  BY <1>1, <1>2, <1>3 DEF LimbSeq
<1>5. step' = step /\ number' = number /\ factor' = factor /\ Multiplier' = Multiplier
  BY DEF MultiplyLimb, Multiplier
<1>6. Multiplier \in Nat /\ carry' \in Nat /\ carry' < Multiplier
  BY <1>1, <1>2, <1>3, MultiplierFits
<1>7. Typed'
  BY <1>1, <1>3, <1>4, <1>5, <1>6 DEF MultiplyLimb, Typed
<1>8. MultiplySmall'
  BY <1>1, <1>3, <1>4, <1>5, <1>6 DEF MultiplySmall
<1> QED
  BY <1>1, <1>5, <1>7, <1>8 DEF GatherSmall, DivideSmall, PackSmall

LEMMA PushCarryKeeps ==
    ASSUME IInv, PushCarry PROVE IInv'
<1> USE DEF IInv
<1>1. /\ step \in {"scale", "raise"} /\ at = Len(limbs) + 1
      /\ limbs \in LimbSeq /\ Len(limbs) \in Nat /\ carry \in Nat
  BY DEF PushCarry, MultiplySmall, Typed, LimbSeq
<1>2. carry % Base \in 0 .. Base - 1 /\ carry \div Base \in Nat
  BY <1>1, Powers, Z3
<1>3. limbs' \in LimbSeq /\ Len(limbs') = Len(limbs) + 1 /\ at' = Len(limbs') + 1
  BY <1>1, <1>2 DEF PushCarry, LimbSeq
<1>4. Typed'
  BY <1>1, <1>2, <1>3 DEF PushCarry, Typed
<1>5. MultiplySmall'
  BY <1>1, <1>3 DEF PushCarry, MultiplySmall
<1> QED
  BY <1>1, <1>4, <1>5 DEF PushCarry, GatherSmall, DivideSmall, PackSmall

LEMMA RaiseKeeps ==
    ASSUME IInv, Raise PROVE IInv'
<1> USE DEF IInv
<1>1. number.exp \in Nat /\ limbs \in LimbSeq /\ carry = 0
  BY DEF Raise, Typed, Numbers
<1>2. number.exp \div LimbDigits \in Nat /\ number.exp % LimbDigits \in 0 .. LimbDigits - 1
  BY <1>1, Powers, Z3
<1>3. Zeros(number.exp \div LimbDigits) \in LimbSeq
  BY <1>2, Powers DEF Zeros, LimbSeq
<1>4. limbs' \in LimbSeq /\ Len(limbs') \in Nat
  BY <1>1, <1>3 DEF Raise, LimbSeq
<1>5. Typed'
  BY <1>1, <1>4 DEF Raise, Typed
<1>6. step = "scale" /\ step' = "raise" /\ at' = 1 /\ carry' = 0 /\ number' = number /\ factor' = factor
  BY <1>1 DEF Raise
<1>7. Multiplier' = Power[number.exp % LimbDigits]
  BY <1>6 DEF Multiplier
<1>8. carry' < Multiplier' /\ number'.exp >= 0 /\ at' \in 1 .. Len(limbs') + 1
  BY <1>1, <1>2, <1>4, <1>6, <1>7, Powers
<1>9. MultiplySmall'
  BY <1>6, <1>8 DEF MultiplySmall
<1> QED
  BY <1>5, <1>6, <1>9 DEF GatherSmall, DivideSmall, PackSmall

LEMMA DropKeeps ==
    ASSUME IInv, Drop PROVE IInv'
<1> USE DEF IInv
<1> DEFINE whole == (-number.exp) \div LimbDigits
<1>1. -number.exp \in Nat /\ limbs \in LimbSeq /\ carry = 0 /\ Len(limbs) \in Nat /\ number.exp < 0
  BY DEF Drop, Typed, Numbers, LimbSeq
<1>2. whole \in Nat /\ (-number.exp) % LimbDigits \in 0 .. LimbDigits - 1
  BY <1>1, Powers, WholeAndRest
<1>3. carry' = 0 /\ number' = number /\ factor' = factor /\ left' = left
  BY <1>1 DEF Drop
<1>4. CASE whole >= Len(limbs)
  <2>1. limbs' = <<>> /\ step' = "pack" /\ at' = 0
    BY <1>4 DEF Drop
  <2> QED
    BY <1>1, <1>3, <2>1 DEF Typed, LimbSeq, GatherSmall, MultiplySmall, DivideSmall, PackSmall
<1>5. CASE ~(whole >= Len(limbs))
  <2>1. /\ limbs' = SubSeq(limbs, whole + 1, Len(limbs))
        /\ step' = "divide" /\ at' = Len(limbs) - whole
    BY <1>5 DEF Drop
  <2>2. whole \in Nat /\ whole < Len(limbs)
    BY <1>1, <1>2, <1>5
  <2> HIDE DEF whole
  <2>3. limbs' \in LimbSeq /\ Len(limbs') = Len(limbs) - whole
    BY <1>1, <2>1, <2>2, SuffixOfSeq DEF LimbSeq
  <2>4. at' \in 0 .. Len(limbs')
    BY <1>1, <2>1, <2>2, <2>3
  <2>5. Typed'
    BY <1>1, <1>3, <2>3, <2>4 DEF Typed
  <2>6. Divisor' \in Nat \ {0}
    BY <1>2, <1>3, Powers DEF Divisor
  <2>7. DivideSmall'
    BY <1>1, <1>3, <2>4, <2>6 DEF DivideSmall
  <2> QED
    BY <2>1, <2>5, <2>7 DEF GatherSmall, MultiplySmall, PackSmall
<1> QED
  BY <1>4, <1>5

LEMMA DivideLimbKeeps ==
    ASSUME IInv, DivideLimb PROVE IInv'
<1> USE DEF IInv
<1> DEFINE v == carry * Base + limbs[at]
<1>1. step = "divide" /\ at \in 1 .. Len(limbs) /\ limbs \in LimbSeq /\ Len(limbs) \in Nat
  BY DEF DivideLimb, DivideSmall, Typed, LimbSeq
<1>2. Word(v) = v /\ v % Divisor \in 0 .. Divisor - 1 /\ v \div Divisor \in 0 .. Base - 1
  BY <1>1, DivideFits, WordKeeps
<1>3. limbs' = [limbs EXCEPT ![at] = v \div Divisor] /\ carry' = v % Divisor /\ at' = at - 1
  BY <1>2 DEF DivideLimb
<1>4. limbs' \in LimbSeq /\ Len(limbs') = Len(limbs)
  BY <1>1, <1>2, <1>3 DEF LimbSeq
<1>5. step' = step /\ number' = number /\ Divisor' = Divisor
  BY DEF DivideLimb, Divisor
<1>6. Divisor \in Nat /\ carry' \in Nat /\ carry' < Divisor
  BY <1>1, <1>2, <1>3, DivisorFits
<1>7. Typed'
  BY <1>1, <1>3, <1>4, <1>6 DEF DivideLimb, Typed
<1>8. DivideSmall'
  BY <1>1, <1>3, <1>4, <1>5, <1>6 DEF DivideSmall
<1> QED
  BY <1>1, <1>5, <1>7, <1>8 DEF GatherSmall, MultiplySmall, PackSmall

LEMMA PackKeeps ==
    ASSUME IInv, Pack \/ PackLimb \/ Packed PROVE IInv'
<1> USE DEF IInv
<1>1. limbs \in LimbSeq /\ Len(limbs) \in Nat /\ limbs' = limbs /\ number' = number
  BY DEF Typed, LimbSeq, Pack, PackLimb, Packed
<1>2. CASE Pack
  BY <1>1, <1>2 DEF Pack, Typed, GatherSmall, MultiplySmall, DivideSmall, PackSmall
<1>3. CASE PackLimb
  <2>1. at \in 1 .. Len(limbs) /\ limbs[at] \in 0 .. Base - 1
    BY <1>1, <1>3, Powers DEF PackLimb, PackSmall, LimbSeq
  <2>2. carry * Base + limbs[at] \in Nat
    <3>1. carry * Base \in Nat
      BY Powers, Z3 DEF Typed
    <3> QED
      BY <2>1, <3>1, Powers
  <2>3. carry' \in Nat /\ at' \in 0 .. Len(limbs) /\ step' \in {"pack", "done"}
    BY <1>1, <1>3, <2>1, <2>2 DEF PackLimb, Typed
  <2> QED
    BY <1>1, <1>3, <2>3 DEF PackLimb, Typed, GatherSmall, MultiplySmall, DivideSmall, PackSmall
<1>4. CASE Packed
  BY <1>1, <1>4 DEF Packed, Typed, GatherSmall, MultiplySmall, DivideSmall, PackSmall
<1> QED
  BY <1>2, <1>3, <1>4

\* No step leaves the invariant.
LEMMA Kept ==
    ASSUME IInv, [ProductNext]_decimalVars PROVE IInv'
<1>1. CASE \E d \in Numbers, f \in Factors : Multiply(d, f)
  BY <1>1, MultiplyKeeps
<1>2. CASE Compute
  BY <1>2, GatherDigitKeeps, PushLimbKeeps, MultiplyLimbKeeps, PushCarryKeeps, RaiseKeeps,
     DropKeeps, DivideLimbKeeps, PackKeeps DEF Compute
<1>3. CASE UNCHANGED decimalVars
  BY <1>3 DEF decimalVars, IInv, Typed, GatherSmall, MultiplySmall, DivideSmall, PackSmall,
     Gathered, Multiplier, Divisor
<1> QED
  BY <1>1, <1>2, <1>3 DEF ProductNext

(* ----------------------------- the theorem ----------------------------- *)
\* Whatever the digits, the exponent and the factor, no sum or product of the
\* loops over the limbs (decimal.rs:133 to 183) is beyond a word.
THEOREM WordsSuffice == ProductSpec => []NeverWraps
<1>1. Idle => IInv
  BY DEF Idle, IInv, Typed, Numbers, NoNumber, IsZero, LimbSeq, GatherSmall, MultiplySmall, DivideSmall, PackSmall
<1>2. IInv /\ [ProductNext]_decimalVars => IInv'
  BY Kept
<1>3. IInv => NeverWraps
  BY GatherFits, MultiplyFits, DivideFits DEF IInv, NeverWraps
<1> QED
  BY <1>1, <1>2, <1>3, PTL DEF ProductSpec

(* ------------------------------ induction ------------------------------ *)
\* A set with zero and with the successor of each natural in it has them all:
\* the least of the others would have a predecessor.
LEMMA Induct ==
    ASSUME NEW S, 0 \in S, \A k \in Nat : k \in S => k + 1 \in S
    PROVE  \A k \in Nat : k \in S
<1> DEFINE R == OpToRel(<, Nat)
           T == {k \in Nat : k \notin S}
<1>1. IsWellFoundedOn(R, Nat)
  BY NatLessThanWellFounded
<1>2. \A i, k \in Nat : <<k, i>> \in R <=> k < i
  BY DEF OpToRel
<1> HIDE DEF R
<1>3. SUFFICES ASSUME T # {} PROVE FALSE
  OBVIOUS
<1>4. PICK i \in T : \A k \in T : ~(<<k, i>> \in R)
  BY <1>1, <1>3, WFMin
<1>5. i \in Nat /\ i # 0 /\ i - 1 \in Nat /\ (i - 1) + 1 = i
  BY <1>4
<1>6. i - 1 \in T
  BY <1>4, <1>5
<1>7. <<i - 1, i>> \in R
  BY <1>2, <1>5, SMT
<1> QED
  BY <1>4, <1>6, <1>7

\* The turns of Horner's rule up to n.
Turns(z, a, w, n, h) == h = [i \in 0 .. n |-> IF i = 0 THEN z ELSE a * h[i - 1] + w[i]]

\* What the turns are.
LEMMA TurnsMeaning ==
    ASSUME NEW z, NEW a, NEW w, NEW n \in Nat, NEW h, Turns(z, a, w, n, h)
    PROVE  /\ DOMAIN h = 0 .. n
           /\ h[0] = z
           /\ \A i \in 1 .. n : h[i] = a * h[i - 1] + w[i]
<1>1. h = [i \in 0 .. n |-> IF i = 0 THEN z ELSE a * h[i - 1] + w[i]]
  BY DEF Turns
<1>2. \A i \in 0 .. n : h[i] = IF i = 0 THEN z ELSE a * h[i - 1] + w[i]
  BY <1>1, Zenon
<1>3. DOMAIN h = 0 .. n
  BY <1>1, Zenon
<1> QED
  BY <1>2, <1>3

\* There are turns up to every n,
LEMMA TurnsExist ==
    ASSUME NEW z, NEW a, NEW w
    PROVE  \A n \in Nat : \E h : Turns(z, a, w, n, h)
<1> DEFINE S == {n \in Nat : \E h : Turns(z, a, w, n, h)}
<1>1. 0 \in S
  <2> DEFINE h == [i \in 0 .. 0 |-> z]
  <2>1. Turns(z, a, w, 0, h)
    BY DEF Turns
  <2> QED
    BY <2>1
<1>2. ASSUME NEW n \in Nat, n \in S PROVE n + 1 \in S
  <2>1. PICK h : Turns(z, a, w, n, h)
    BY <1>2
  <2>2. /\ DOMAIN h = 0 .. n
        /\ h[0] = z
        /\ \A i \in 1 .. n : h[i] = a * h[i - 1] + w[i]
    BY <2>1, TurnsMeaning
  <2> DEFINE g == [i \in 0 .. n + 1 |-> IF i = n + 1 THEN a * h[n] + w[n + 1] ELSE h[i]]
  <2>3. \A i \in 0 .. n + 1 : g[i] = IF i = 0 THEN z ELSE a * g[i - 1] + w[i]
    <3> TAKE i \in 0 .. n + 1
    <3>1. CASE i = 0
      BY <3>1, <2>2
    <3>2. CASE i = n + 1
      <4>1. i # 0 /\ i - 1 = n /\ n \in 0 .. n + 1 /\ n # n + 1
        BY <3>2
      <4>2. g[n] = h[n]
        BY <4>1
      <4> QED
        BY <3>2, <4>1, <4>2
    <3>3. CASE i # 0 /\ i # n + 1
      <4>1. i \in 1 .. n /\ i - 1 \in 0 .. n + 1 /\ i - 1 # n + 1
        BY <3>3
      <4>2. g[i - 1] = h[i - 1] /\ g[i] = h[i]
        BY <3>3, <4>1
      <4> QED
        BY <2>2, <3>3, <4>1, <4>2
    <3> QED
      BY <3>1, <3>2, <3>3
  <2>4. g = [i \in 0 .. n + 1 |-> IF i = 0 THEN z ELSE a * g[i - 1] + w[i]]
    <3>1. g = [i \in 0 .. n + 1 |-> g[i]]
      OBVIOUS
    <3> HIDE DEF g
    <3> QED
      BY <2>3, <3>1
  <2>5. Turns(z, a, w, n + 1, g)
    BY <2>4 DEF Turns
  <2> QED
    BY <2>5
<1> HIDE DEF S
<1>4. \A k \in Nat : k \in S
  BY <1>1, <1>2, Induct
<1> QED
  BY <1>4 DEF S

\* and only one way to take them.
LEMMA TurnsUnique ==
    ASSUME NEW z, NEW a, NEW w, NEW m \in Nat, NEW n \in Nat, NEW g, NEW h,
           Turns(z, a, w, m, g), Turns(z, a, w, n, h)
    PROVE  \A k \in Nat : k <= m /\ k <= n => g[k] = h[k]
<1> DEFINE S == {k \in Nat : k <= m /\ k <= n => g[k] = h[k]}
<1>1. /\ g[0] = z /\ \A i \in 1 .. m : g[i] = a * g[i - 1] + w[i]
      /\ h[0] = z /\ \A i \in 1 .. n : h[i] = a * h[i - 1] + w[i]
  BY TurnsMeaning
<1>2. 0 \in S
  BY <1>1
<1>3. ASSUME NEW k \in Nat, k \in S PROVE k + 1 \in S
  <2>1. SUFFICES ASSUME k + 1 <= m, k + 1 <= n PROVE g[k + 1] = h[k + 1]
    OBVIOUS
  <2>2. k + 1 \in 1 .. m /\ k + 1 \in 1 .. n /\ (k + 1) - 1 = k
    BY <2>1
  <2>3. g[k] = h[k]
    BY <1>3, <2>1
  <2>4. g[k + 1] = a * g[k] + w[k + 1] /\ h[k + 1] = a * h[k] + w[k + 1]
    BY <1>1, <2>2, Zenon
  <2> QED
    BY <2>3, <2>4
<1> HIDE DEF S
<1>4. \A k \in Nat : k \in S
  BY <1>2, <1>3, Induct
<1> QED
  BY <1>4 DEF S

\* Horner's rule, a turn at a time.
LEMMA HornerTurns ==
    ASSUME NEW z, NEW a, NEW w, NEW n \in Nat
    PROVE  /\ Horner(z, a, w, 0) = z
           /\ Horner(z, a, w, n + 1) = a * Horner(z, a, w, n) + w[n + 1]
<1> DEFINE F(k) == CHOOSE h : Turns(z, a, w, k, h)
<1>1. ASSUME NEW k \in Nat PROVE Turns(z, a, w, k, F(k))
  BY TurnsExist, Zenon
<1>2. ASSUME NEW k \in Nat PROVE Horner(z, a, w, k) = F(k)[k]
  BY DEF Horner, Turns
<1> HIDE DEF F
<1>3. F(0)[0] = z
  BY <1>1, TurnsMeaning
<1>4. F(n + 1)[n + 1] = a * F(n + 1)[n] + w[n + 1]
  <2>1. n + 1 \in Nat /\ n + 1 \in 1 .. n + 1 /\ (n + 1) - 1 = n
    OBVIOUS
  <2> DEFINE f == F(n + 1)
  <2>2. Turns(z, a, w, n + 1, f)
    BY <1>1, <2>1
  <2> HIDE DEF f
  <2> DEFINE m == n + 1
  <2>5. m \in Nat /\ Turns(z, a, w, m, f)
    BY <2>1, <2>2
  <2> HIDE DEF m
  <2>6. \A i \in 1 .. m : f[i] = a * f[i - 1] + w[i]
    BY <2>5, TurnsMeaning
  <2>3. \A i \in 1 .. n + 1 : f[i] = a * f[i - 1] + w[i]
    BY <2>6 DEF m
  <2>4. f[n + 1] = a * f[n] + w[n + 1]
    BY <2>1, <2>3
  <2> QED
    BY <2>4 DEF f
<1>5. F(n + 1)[n] = F(n)[n]
  <2>1. n + 1 \in Nat /\ n <= n + 1
    OBVIOUS
  <2>2. Turns(z, a, w, n + 1, F(n + 1)) /\ Turns(z, a, w, n, F(n))
    BY <1>1, <2>1
  <2> QED
    BY <2>1, <2>2, TurnsUnique
<1> QED
  BY <1>2, <1>3, <1>4, <1>5

\* With naturals only a natural comes out.
LEMMA HornerTyped ==
    ASSUME NEW z \in Nat, NEW a \in Nat, NEW w, NEW n \in Nat, \A i \in 1 .. n : w[i] \in Nat
    PROVE  \A k \in 0 .. n : Horner(z, a, w, k) \in Nat
<1> DEFINE S == {k \in Nat : k <= n => Horner(z, a, w, k) \in Nat}
<1>1. 0 \in S
  BY HornerTurns
<1>2. ASSUME NEW k \in Nat, k \in S PROVE k + 1 \in S
  <2>1. SUFFICES ASSUME k + 1 <= n PROVE Horner(z, a, w, k + 1) \in Nat
    OBVIOUS
  <2>2. Horner(z, a, w, k) \in Nat /\ w[k + 1] \in Nat
    BY <1>2, <2>1
  <2>3. Horner(z, a, w, k + 1) = a * Horner(z, a, w, k) + w[k + 1]
    BY HornerTurns
  <2>4. a * Horner(z, a, w, k) \in Nat
    BY <2>2, Z3
  <2> QED
    BY <2>2, <2>3, <2>4
<1> HIDE DEF S
<1>3. \A k \in Nat : k \in S
  BY <1>1, <1>2, Induct
<1> QED
  BY <1>3 DEF S

(* ----------------------------- powers of ten --------------------------- *)
\* A power of ten is ten times the one before.
LEMMA TenTurns ==
    ASSUME NEW n \in Nat
    PROVE  Ten(0) = 1 /\ Ten(n + 1) = 10 * Ten(n) /\ Ten(n) \in Nat \ {0}
<1> DEFINE w == [i \in Nat |-> 0]
<1>1. ASSUME NEW k \in Nat PROVE Ten(k) = Horner(1, 10, w, k)
  BY DEF Ten
<1>2. \A k \in Nat : w[k + 1] = 0
  OBVIOUS
<1> HIDE DEF w
<1>3. Ten(0) = 1
  BY <1>1, HornerTurns
<1>4. ASSUME NEW k \in Nat, Ten(k) \in Nat PROVE Ten(k + 1) = 10 * Ten(k)
  <2>1. Horner(1, 10, w, k + 1) = 10 * Horner(1, 10, w, k) + w[k + 1]
    BY HornerTurns
  <2>2. Ten(k + 1) = 10 * Ten(k) + 0
    BY <1>1, <1>2, <2>1
  <2> QED
    BY <1>4, <2>2
<1> DEFINE S == {k \in Nat : Ten(k) \in Nat \ {0}}
<1>5. 0 \in S
  BY <1>3
<1>6. ASSUME NEW k \in Nat, k \in S PROVE k + 1 \in S
  BY <1>4, <1>6
<1> HIDE DEF S
<1>7. \A k \in Nat : k \in S
  BY <1>5, <1>6, Induct
<1> QED
  BY <1>3, <1>4, <1>7 DEF S

\* Products of integers, for the leaves that are not linear.
LEMMA TimesSwap ==
    ASSUME NEW a \in Int, NEW b \in Int, NEW c \in Int
    PROVE  /\ a * b \in Int /\ a * b = b * a
           /\ a * (b * c) = (a * b) * c
           /\ a * (b + c) = a * b + a * c
           /\ a * (b - c) = a * b - a * c
BY Z3

\* A product of naturals is one.
LEMMA TimesNat ==
    ASSUME NEW a \in Nat, NEW b \in Nat PROVE a * b \in Nat
BY Z3

\* A larger factor makes no smaller product.
LEMMA TimesGrows ==
    ASSUME NEW a \in Nat, NEW b \in Int, NEW c \in Int, b <= c
    PROVE  a * b <= a * c
BY Z3

\* Powers of ten are multiplied by adding their exponents.
LEMMA TenSum ==
    ASSUME NEW m \in Nat, NEW n \in Nat
    PROVE  Ten(m + n) = Ten(m) * Ten(n)
<1> DEFINE S == {k \in Nat : Ten(m + k) = Ten(m) * Ten(k)}
<1>1. Ten(m) \in Nat
  BY TenTurns
<1>2. 0 \in S
  BY <1>1, TenTurns
<1>3. ASSUME NEW k \in Nat, k \in S PROVE k + 1 \in S
  <2>1. m + k \in Nat /\ m + (k + 1) = (m + k) + 1
    OBVIOUS
  <2>2. Ten(m + (k + 1)) = 10 * Ten(m + k) /\ Ten(k + 1) = 10 * Ten(k) /\ Ten(k) \in Nat
    BY <2>1, TenTurns
  <2>3. Ten(m + k) = Ten(m) * Ten(k)
    BY <1>3
  <2> DEFINE x == Ten(m)
             y == Ten(k)
  <2> HIDE DEF x, y
  <2>4. x \in Nat /\ y \in Nat
    BY <1>1, <2>2 DEF x, y
  <2>5. 10 * (x * y) = x * (10 * y)
    BY <2>4, Z3
  <2> QED
    BY <2>2, <2>3, <2>5 DEF x, y
<1> HIDE DEF S
<1>4. \A k \in Nat : k \in S
  BY <1>2, <1>3, Induct
<1> QED
  BY <1>4 DEF S

\* A larger exponent makes no smaller power.
LEMMA TenGrows ==
    ASSUME NEW m \in Nat, NEW n \in Nat, m <= n
    PROVE  Ten(m) <= Ten(n)
<1>1. n - m \in Nat /\ m + (n - m) = n
  OBVIOUS
<1>2. Ten(n) = Ten(m) * Ten(n - m)
  BY <1>1, TenSum
<1>3. Ten(m) \in Nat /\ Ten(n - m) \in Nat /\ 1 <= Ten(n - m)
  BY <1>1, TenTurns
<1>4. Ten(m) * 1 <= Ten(m) * Ten(n - m)
  BY <1>3, TimesGrows
<1> QED
  BY <1>2, <1>3, <1>4

\* The table the code reads is a table of the powers of ten.
LEMMA PowerIsTen ==
    \A k \in 0 .. LimbDigits : Power[k] = Ten(k)
<1> DEFINE S == {k \in Nat : k <= LimbDigits => Power[k] = Ten(k)}
<1>1. 0 \in S
  BY TenTurns, PowersAssumption
<1>2. ASSUME NEW k \in Nat, k \in S PROVE k + 1 \in S
  <2>1. SUFFICES ASSUME k + 1 <= LimbDigits PROVE Power[k + 1] = Ten(k + 1)
    OBVIOUS
  <2>2. k \in 0 .. LimbDigits - 1 /\ k <= LimbDigits
    BY <2>1, PowersAssumption
  <2> QED
    BY <1>2, <2>2, TenTurns, PowersAssumption
<1> HIDE DEF S
<1>3. \A k \in Nat : k \in S
  BY <1>1, <1>2, Induct
<1> QED
  BY <1>3, PowersAssumption DEF S

\* The place of limb i + 1.
Place(i) == Ten(LimbDigits * i)

\* A place is the base times the one below.
LEMMA PlaceTurns ==
    ASSUME NEW i \in Nat
    PROVE  Place(0) = 1 /\ Place(i + 1) = Base * Place(i) /\ Place(i) \in Nat \ {0}
<1>1. LimbDigits \in Nat /\ LimbDigits * 0 = 0
  BY PowersAssumption
<1>2. LimbDigits * i \in Nat /\ LimbDigits * (i + 1) = LimbDigits + LimbDigits * i
  BY <1>1, Z3
<1>3. Base = Ten(LimbDigits)
  BY <1>1, PowerIsTen DEF Base
<1>4. Place(0) = 1
  BY <1>1, TenTurns DEF Place
<1>5. Ten(LimbDigits * i) \in Nat \ {0}
  BY <1>2, TenTurns
<1>6. Ten(LimbDigits + LimbDigits * i) = Ten(LimbDigits) * Ten(LimbDigits * i)
  BY <1>1, <1>2, TenSum
<1>7. Place(i + 1) = Base * Place(i)
  BY <1>2, <1>3, <1>6 DEF Place
<1> QED
  BY <1>4, <1>5, <1>7 DEF Place

\* The value of the first k limbs of s.
Low(s, k) == Horner(0, 1, [i \in Nat |-> s[i] * Place(i - 1)], k)

\* One limb more adds that limb at its place.
LEMMA LowTurns ==
    ASSUME NEW s \in Seq(Nat)
    PROVE  /\ Low(s, 0) = 0
           /\ \A k \in 0 .. Len(s) : Low(s, k) \in Nat
           /\ \A k \in 0 .. Len(s) - 1 : Low(s, k + 1) = Low(s, k) + s[k + 1] * Place(k)
<1> DEFINE w == [i \in Nat |-> s[i] * Place(i - 1)]
<1>1. ASSUME NEW k \in Nat PROVE Low(s, k) = Horner(0, 1, w, k)
  BY DEF Low
<1>2. ASSUME NEW i \in 1 .. Len(s) PROVE w[i] = s[i] * Place(i - 1) /\ w[i] \in Nat
  <2>1. i \in Nat /\ i - 1 \in Nat /\ s[i] \in Nat
    OBVIOUS
  <2>2. w[i] = s[i] * Place(i - 1)
    BY <2>1
  <2>3. Place(i - 1) \in Nat
    BY <2>1, PlaceTurns
  <2>4. s[i] * Place(i - 1) \in Nat
    BY <2>1, <2>3, Z3
  <2> QED
    BY <2>2, <2>4
<1> HIDE DEF w
<1>3. Low(s, 0) = 0
  BY <1>1, HornerTurns
<1>4. Len(s) \in Nat
  OBVIOUS
<1>5. \A k \in 0 .. Len(s) : Horner(0, 1, w, k) \in Nat
  BY <1>2, <1>4, HornerTyped
<1>6. \A k \in 0 .. Len(s) : Low(s, k) \in Nat
  BY <1>1, <1>4, <1>5
<1>7. ASSUME NEW k \in 0 .. Len(s) - 1 PROVE Low(s, k + 1) = Low(s, k) + s[k + 1] * Place(k)
  <2>1. k \in Nat /\ k + 1 \in 1 .. Len(s) /\ (k + 1) - 1 = k /\ k \in 0 .. Len(s)
    BY <1>4
  <2>2. Horner(0, 1, w, k + 1) = 1 * Horner(0, 1, w, k) + w[k + 1]
    BY <2>1, HornerTurns
  <2>3. w[k + 1] = s[k + 1] * Place(k)
    BY <1>2, <2>1
  <2>4. Low(s, k + 1) = 1 * Low(s, k) + s[k + 1] * Place(k)
    BY <1>1, <2>1, <2>2, <2>3
  <2> QED
    BY <1>6, <2>1, <2>4
<1> QED
  BY <1>3, <1>6, <1>7

\* An element of a sequence.
LEMMA ElementOf ==
    ASSUME NEW S, NEW s \in Seq(S), NEW i \in 1 .. Len(s) PROVE s[i] \in S
OBVIOUS

\* Places are multiplied by adding their positions.
LEMMA PlaceSum ==
    ASSUME NEW i \in Nat, NEW j \in Nat
    PROVE  Place(i + j) = Place(i) * Place(j)
<1>1. LimbDigits \in Nat
  BY PowersAssumption
<1>2. LimbDigits * i \in Nat /\ LimbDigits * j \in Nat /\ LimbDigits * (i + j) = LimbDigits * i + LimbDigits * j
  BY <1>1, Z3
<1> QED
  BY <1>2, TenSum DEF Place

\* Limbs j + 1 to j + n of s are in t q places higher,
Shifts(s, t, q, j, n) ==
    /\ j + n <= Len(s) /\ q + j + n <= Len(t)
    /\ \A i \in j + 1 .. j + n : t[q + i] = s[i]

\* and so they are worth Place(q) times as much in t.
LEMMA LowShift ==
    ASSUME NEW s \in Seq(Nat), NEW t \in Seq(Nat), NEW q \in Nat, NEW j \in Nat, NEW n \in Nat,
           Shifts(s, t, q, j, n)
    PROVE  Low(t, q + j + n) - Low(t, q + j) = Place(q) * (Low(s, j + n) - Low(s, j))
<1>0. /\ j + n <= Len(s) /\ q + j + n <= Len(t)
      /\ \A i \in j + 1 .. j + n : t[q + i] = s[i]
  BY DEF Shifts
<1> DEFINE S == {k \in Nat : k <= n =>
                    Low(t, q + j + k) - Low(t, q + j) = Place(q) * (Low(s, j + k) - Low(s, j))}
<1>1. Len(s) \in Nat /\ Len(t) \in Nat /\ Place(q) \in Nat
  <2>1. Place(q) \in Nat
    BY PlaceTurns
  <2> QED
    BY <2>1
<1>2. 0 \in S
  <2>1. j \in 0 .. Len(s) /\ q + j \in 0 .. Len(t) /\ q + j + 0 = q + j /\ j + 0 = j
    BY <1>0, <1>1
  <2>2. Low(s, j) \in Nat /\ Low(t, q + j) \in Nat
    BY <2>1, LowTurns
  <2>3. Low(t, q + j + 0) - Low(t, q + j) = 0 /\ Low(s, j + 0) - Low(s, j) = 0
    BY <2>1, <2>2
  <2> QED
    BY <1>1, <2>3
<1>3. ASSUME NEW k \in Nat, k \in S PROVE k + 1 \in S
  <2>1. SUFFICES ASSUME k + 1 <= n
        PROVE  Low(t, q + j + (k + 1)) - Low(t, q + j) = Place(q) * (Low(s, j + (k + 1)) - Low(s, j))
    OBVIOUS
  <2>2. /\ j + k \in 0 .. Len(s) - 1 /\ q + j + k \in 0 .. Len(t) - 1
        /\ j + k \in 0 .. Len(s) /\ q + j + k \in 0 .. Len(t) /\ j \in 0 .. Len(s) /\ q + j \in 0 .. Len(t)
        /\ (j + k) + 1 \in j + 1 .. j + n /\ q + ((j + k) + 1) = (q + j + k) + 1
        /\ j + (k + 1) = (j + k) + 1 /\ q + j + (k + 1) = (q + j + k) + 1 /\ q + (j + k) = q + j + k
        /\ (j + k) + 1 \in 1 .. Len(s) /\ j + k \in Nat
    BY <1>0, <1>1, <2>1
  <2> DEFINE e == s[(j + k) + 1]
             p == Place(q)
             r == Place(j + k)
             a == Low(s, j + k)
             b == Low(s, j)
             c == Low(t, q + j + k)
             d == Low(t, q + j)
  <2>3. e \in Nat
    BY <2>2, ElementOf
  <2>4. t[(q + j + k) + 1] = e
    <3>1. t[q + ((j + k) + 1)] = s[(j + k) + 1]
      BY <1>0, <2>2, Zenon
    <3> QED
      BY <2>2, <3>1, Zenon
  <2>5. p \in Nat /\ r \in Nat /\ Place(q + j + k) = p * r
    BY <2>2, PlaceTurns, PlaceSum
  <2>6. a \in Nat /\ b \in Nat /\ c \in Nat /\ d \in Nat
    BY <2>2, LowTurns
  <2> DEFINE x == Low(s, j + (k + 1))
             y == Low(t, q + j + (k + 1))
  <2>7. x = a + e * r
    <3>1. Low(s, (j + k) + 1) = Low(s, j + k) + s[(j + k) + 1] * Place(j + k)
      BY <2>2, LowTurns
    <3> QED
      BY <2>2, <3>1
  <2>8. y = c + e * (p * r)
    <3>1. Low(t, (q + j + k) + 1) = Low(t, q + j + k) + t[(q + j + k) + 1] * Place(q + j + k)
      BY <2>2, LowTurns
    <3> QED
      BY <2>2, <2>4, <2>5, <3>1
  <2>9. c - d = p * (a - b)
    <3>1. k <= n
      BY <2>1
    <3> QED
      BY <1>3, <3>1
  <2> HIDE DEF a, b, c, d, e, p, r, x, y
  <2>10. (c + e * (p * r)) - d = p * ((a + e * r) - b)
    <3>1. e * (p * r) = p * (e * r) /\ e * r \in Int /\ p * (e * r) \in Int
      BY <2>3, <2>5, Z3
    <3>2. p * ((a - b) + e * r) = p * (a - b) + p * (e * r)
      BY <2>3, <2>5, <2>6, <3>1, TimesSwap
    <3>3. (a + e * r) - b = (a - b) + e * r
      BY <2>6, <3>1
    <3>4. (c + p * (e * r)) - d = (c - d) + p * (e * r)
      BY <2>6, <3>1
    <3> QED
      BY <2>9, <3>1, <3>2, <3>3, <3>4, Zenon
  <2>11. y - d = p * (x - b)
    BY <2>7, <2>8, <2>10, Zenon
  <2> QED
    BY <2>11 DEF b, d, p, x, y
<1> HIDE DEF S
<1>4. \A k \in Nat : k \in S
  BY <1>2, <1>3, Induct
<1>5. n \in S /\ n <= n
  BY <1>4
<1> QED
  BY <1>5 DEF S

\* Limbs below the base are together below the place of the next one.
LEMMA LowBelow ==
    ASSUME NEW s \in Seq(0 .. Base - 1)
    PROVE  \A k \in 0 .. Len(s) : Low(s, k) < Place(k)
<1> DEFINE S == {k \in Nat : k <= Len(s) => Low(s, k) < Place(k)}
<1>1. s \in Seq(Nat) /\ Len(s) \in Nat /\ Base \in Nat
  BY Powers
<1>2. 0 \in S
  BY <1>1, LowTurns, PlaceTurns
<1>3. ASSUME NEW k \in Nat, k \in S PROVE k + 1 \in S
  <2>1. SUFFICES ASSUME k + 1 <= Len(s) PROVE Low(s, k + 1) < Place(k + 1)
    OBVIOUS
  <2>2. k \in 0 .. Len(s) - 1 /\ k \in 0 .. Len(s) /\ k + 1 \in 1 .. Len(s)
    BY <1>1, <2>1
  <2>3. Low(s, k + 1) = Low(s, k) + s[k + 1] * Place(k) /\ Low(s, k) \in Nat
    BY <1>1, <2>2, LowTurns
  <2>4. Low(s, k) < Place(k)
    BY <1>3, <2>2
  <2>5. Place(k) \in Nat \ {0} /\ Place(k + 1) = Base * Place(k)
    BY PlaceTurns
  <2>6. s[k + 1] \in 0 .. Base - 1
    BY <1>1, <2>2
  <2>9. Low(s, k) \in 0 .. Place(k) - 1 /\ Base \in Nat \ {0}
    BY <2>3, <2>4, <2>5, Powers
  <2>7. s[k + 1] * Place(k) + Low(s, k) \in 0 .. Base * Place(k) - 1
    BY <2>5, <2>6, <2>9, ProductBelow
  <2>8. s[k + 1] * Place(k) \in Nat /\ Base * Place(k) \in Nat
    BY <1>1, <2>5, <2>6, TimesNat
  <2> QED
    BY <2>3, <2>5, <2>7, <2>8
<1> HIDE DEF S
<1>4. \A k \in Nat : k \in S
  BY <1>2, <1>3, Induct
<1> QED
  BY <1>1, <1>4 DEF S

(* ------------------------------- mantissas ----------------------------- *)
\* The value of the first k digits.
Upto(digits, k) == Horner(0, 10, digits, k)

\* One digit more is ten times the value, and that digit.
LEMMA UptoTurns ==
    ASSUME NEW digits \in Seq(0 .. 9)
    PROVE  /\ Upto(digits, 0) = 0
           /\ \A k \in 0 .. Len(digits) : Upto(digits, k) \in Nat
           /\ \A k \in 0 .. Len(digits) - 1 : Upto(digits, k + 1) = 10 * Upto(digits, k) + digits[k + 1]
<1>1. Len(digits) \in Nat /\ \A i \in 1 .. Len(digits) : digits[i] \in Nat
  OBVIOUS
<1>2. \A k \in 0 .. Len(digits) : Horner(0, 10, digits, k) \in Nat
  BY <1>1, HornerTyped
<1>3. \A k \in Nat : Horner(0, 10, digits, 0) = 0 /\ Horner(0, 10, digits, k + 1) = 10 * Horner(0, 10, digits, k) + digits[k + 1]
  BY HornerTurns
<1> QED
  BY <1>1, <1>2, <1>3 DEF Upto

\* With no zero in front k digits are worth ten to the k - 1 at least.
LEMMA UptoGrows ==
    ASSUME NEW digits \in Seq(0 .. 9), digits # <<>>, digits[1] # 0
    PROVE  \A k \in 1 .. Len(digits) : Upto(digits, k) >= Ten(k - 1)
<1> DEFINE S == {k \in Nat : k + 1 <= Len(digits) => Upto(digits, k + 1) >= Ten(k)}
<1>1. Len(digits) \in Nat \ {0} /\ digits[1] \in 1 .. 9
  OBVIOUS
<1>2. 0 \in S
  <2>1. 0 \in 0 .. Len(digits) - 1
    BY <1>1
  <2>2. Upto(digits, 0 + 1) = 10 * Upto(digits, 0) + digits[0 + 1] /\ Upto(digits, 0) = 0
    BY <2>1, UptoTurns
  <2>3. Upto(digits, 1) = digits[1]
    BY <1>1, <2>2
  <2>4. Ten(0) = 1
    BY TenTurns
  <2> QED
    BY <1>1, <2>3, <2>4
<1>3. ASSUME NEW k \in Nat, k \in S PROVE k + 1 \in S
  <2>1. SUFFICES ASSUME (k + 1) + 1 <= Len(digits) PROVE Upto(digits, (k + 1) + 1) >= Ten(k + 1)
    OBVIOUS
  <2>2. k + 1 \in 0 .. Len(digits) - 1 /\ k + 1 \in 0 .. Len(digits) /\ (k + 1) + 1 \in 1 .. Len(digits)
    BY <1>1, <2>1
  <2>3. Upto(digits, (k + 1) + 1) = 10 * Upto(digits, k + 1) + digits[(k + 1) + 1]
    BY <2>2, UptoTurns
  <2>4. Upto(digits, k + 1) \in Nat /\ digits[(k + 1) + 1] \in 0 .. 9
    BY <2>2, UptoTurns
  <2>5. Upto(digits, k + 1) >= Ten(k)
    BY <1>3, <2>2
  <2>6. Ten(k + 1) = 10 * Ten(k) /\ Ten(k) \in Nat
    BY TenTurns
  <2> QED
    BY <2>3, <2>4, <2>5, <2>6
<1> HIDE DEF S
<1>4. \A k \in Nat : k \in S
  BY <1>2, <1>3, Induct
<1>5. ASSUME NEW k \in 1 .. Len(digits) PROVE Upto(digits, k) >= Ten(k - 1)
  <2>1. k - 1 \in Nat /\ (k - 1) + 1 = k /\ k <= Len(digits)
    BY <1>1
  <2>2. k - 1 \in S
    BY <1>4, <2>1
  <2> QED
    BY <2>1, <2>2 DEF S
<1> QED
  BY <1>5

(* ---------------------------- the reference ---------------------------- *)
\* A quotient is known by what it is between.
LEMMA QuotientIs ==
    ASSUME NEW n \in Nat, NEW d \in Nat \ {0}, NEW r \in Nat, r * d <= n, n < (r + 1) * d
    PROVE  n \div d = r
<1>1. n \div d \in Nat /\ n % d \in 0 .. d - 1 /\ n = d * (n \div d) + (n % d)
  BY Z3
<1> DEFINE q == n \div d
<1> HIDE DEF q
<1>2. q \in Nat /\ d * q <= n /\ n < d * (q + 1)
  <2>1. q \in Nat /\ d * q \in Nat /\ d * (q + 1) = d * q + d
    BY <1>1, Z3 DEF q
  <2> QED
    BY <1>1, <2>1 DEF q
<1>3. ~(q < r)
  <2>1. SUFFICES ASSUME q + 1 <= r PROVE FALSE
    BY <1>2
  <2>2. d * (q + 1) <= d * r /\ d * r = r * d /\ r * d \in Nat /\ d * (q + 1) \in Nat
    BY <1>2, <2>1, Z3
  <2> QED
    BY <1>2, <2>2
<1>4. ~(r < q)
  <2>1. SUFFICES ASSUME r + 1 <= q PROVE FALSE
    BY <1>2
  <2>2. d * (r + 1) <= d * q /\ d * (r + 1) = (r + 1) * d /\ (r + 1) * d \in Nat /\ d * q \in Nat
    BY <1>2, <2>1, Z3
  <2> QED
    BY <1>2, <2>2
<1> QED
  BY <1>2, <1>3, <1>4 DEF q

\* r is n times ten to the e, truncated.
Truncated(n, e, r) ==
    IF e >= 0 THEN r = n * Ten(e)
    ELSE r * Ten(-e) <= n /\ n < (r + 1) * Ten(-e)

\* The reference is the truncated product, as long as a word holds it.
LEMMA ExactlyTruncated ==
    ASSUME NEW m \in Nat, NEW e \in Int, NEW f \in Nat, m * f # 0,
           NEW r \in Nat, Truncated(m * f, e, r)
    PROVE  Exactly([mantissa |-> m, exp |-> e], f) = IF r > MaxWord THEN None ELSE Some(r)
<1> DEFINE n == m * f
           whole == IF \E k \in 0 .. -e - 1 : Ten(k) > n \div 10 THEN 0 ELSE n \div Ten(-e)
<1>1. Exactly([mantissa |-> m, exp |-> e], f) =
          IF n = 0 THEN Some(0)
          ELSE IF e < 0 THEN IF whole > MaxWord THEN None ELSE Some(whole)
          ELSE IF \E k \in 0 .. e : n * Ten(k) > MaxWord THEN None
          ELSE Some(n * Ten(e))
  BY DEF Exactly
<1>2. n \in Nat /\ n # 0
  BY TimesNat
<1>3. MaxWord \in Nat
  BY WordAssumption
<1>4. CASE e < 0
  <2>1. -e \in Nat /\ ~(e >= 0)
    BY <1>4
  <2>2. Ten(-e) \in Nat \ {0}
    BY <2>1, TenTurns
  <2>3. r * Ten(-e) <= n /\ n < (r + 1) * Ten(-e)
    BY <2>1 DEF Truncated
  <2>4. n \div Ten(-e) = r
    BY <1>2, <2>2, <2>3, QuotientIs
  <2>5. ASSUME NEW k \in 0 .. -e - 1, Ten(k) > n \div 10 PROVE r = 0
    <3>1. k \in Nat /\ k + 1 \in Nat /\ k + 1 <= -e
      BY <2>1
    <3>2. Ten(k + 1) <= Ten(-e) /\ Ten(k) \in Nat /\ Ten(k + 1) = 10 * Ten(k)
      BY <2>1, <3>1, TenGrows, TenTurns
    <3>6. n < Ten(-e)
      <4>1. n = 10 * (n \div 10) + (n % 10) /\ n % 10 \in 0 .. 9 /\ n \div 10 \in Nat
        BY <1>2, Z3
      <4> QED
        BY <1>2, <2>2, <2>5, <3>2, <4>1
    <3>3. SUFFICES ASSUME 1 <= r PROVE FALSE
      OBVIOUS
    <3>4. Ten(-e) * 1 <= Ten(-e) * r
      BY <2>2, <3>3, TimesGrows
    <3>5. Ten(-e) * r = r * Ten(-e) /\ r * Ten(-e) \in Nat
      BY <2>2, TimesSwap, TimesNat
    <3> QED
      BY <1>2, <2>2, <2>3, <3>4, <3>5, <3>6
  <2>6. whole = r
    BY <2>4, <2>5, Zenon
  <2> QED
    BY <1>1, <1>2, <1>4, <2>6, Zenon
<1>5. CASE ~(e < 0)
  <2>1. e \in Nat /\ e >= 0
    BY <1>5
  <2>2. r = n * Ten(e)
    BY <2>1 DEF Truncated
  <2>3. ASSUME NEW k \in 0 .. e, n * Ten(k) > MaxWord PROVE r > MaxWord
    <3>1. k \in Nat /\ k <= e
      BY <2>1
    <3>2. Ten(k) <= Ten(e) /\ Ten(k) \in Nat /\ Ten(e) \in Nat
      BY <2>1, <3>1, TenGrows, TenTurns
    <3>3. n * Ten(k) <= n * Ten(e) /\ n * Ten(k) \in Nat /\ n * Ten(e) \in Nat
      BY <1>2, <3>2, TimesGrows, TimesNat
    <3> QED
      BY <1>3, <2>2, <2>3, <3>3
  <2>4. (\E k \in 0 .. e : n * Ten(k) > MaxWord) <=> r > MaxWord
    <3>1. e \in 0 .. e
      BY <2>1
    <3> QED
      BY <2>2, <2>3, <3>1, Zenon
  <2> QED
    BY <1>1, <1>2, <1>5, <2>2, <2>4, Zenon
<1> QED
  BY <1>4, <1>5

\* A product is never zero unless a factor is.
LEMMA MantissaGrows ==
    ASSUME NEW d \in Numbers, ~IsZero(d), NEW f \in Nat \ {0}
    PROVE  /\ Mantissa(d.digits) \in Nat
           /\ Len(d.digits) - 1 \in Nat
           /\ Mantissa(d.digits) * f \in Nat \ {0}
           /\ Ten(Len(d.digits) - 1) <= Mantissa(d.digits) * f
<1> DEFINE s == d.digits
<1>1. s \in Seq(0 .. 9) /\ s # <<>> /\ s[1] # 0
  BY DEF Numbers, IsZero
<1> HIDE DEF s
<1>2. Len(s) \in 1 .. Len(s) /\ Len(s) \in 0 .. Len(s) /\ Len(s) - 1 \in Nat
  BY <1>1
<1>3. Mantissa(s) = Upto(s, Len(s))
  BY DEF Mantissa, Upto
<1>4. Mantissa(s) \in Nat /\ Mantissa(s) >= Ten(Len(s) - 1)
  BY <1>1, <1>2, <1>3, UptoTurns, UptoGrows
<1>5. Ten(Len(s) - 1) \in Nat \ {0}
  BY <1>2, TenTurns
<1>6. Mantissa(s) * 1 <= Mantissa(s) * f /\ Mantissa(s) * f \in Nat
  BY <1>4, TimesGrows, TimesNat
<1>7. Mantissa(s) * f \in Nat \ {0} /\ Ten(Len(s) - 1) <= Mantissa(s) * f
  BY <1>4, <1>5, <1>6
<1> QED
  BY <1>2, <1>4, <1>7 DEF s

\* The guard on the digits refuses only what no word holds.
LEMMA RefusedIsBeyond ==
    ASSUME NEW d \in Numbers, ~IsZero(d), NEW f \in Nat \ {0}, Len(d.digits) + d.exp > MaxDigits
    PROVE  Exactly([mantissa |-> Mantissa(d.digits), exp |-> d.exp], f) = None
<1> DEFINE n == Mantissa(d.digits) * f
           e == d.exp
           l == Len(d.digits) - 1
<1>1. e \in Int /\ l \in Nat /\ n \in Nat \ {0} /\ Ten(l) <= n /\ Mantissa(d.digits) \in Nat
  BY MantissaGrows DEF Numbers
<1>2. Len(d.digits) \in Nat /\ MaxDigits \in Nat /\ MaxWord \in Nat
  BY WordAssumption DEF Numbers
<1>3. l + e \in Nat /\ MaxDigits <= l + e
  BY <1>1, <1>2
<1> HIDE DEF n, e, l
<1>4. Ten(MaxDigits) <= Ten(l + e) /\ Ten(l + e) \in Nat /\ Ten(MaxDigits) \in Nat
  BY <1>2, <1>3, TenGrows, TenTurns
<1>5. Ten(l + e) > MaxWord
  BY <1>2, <1>4, DigitsAssumption
<1>6. \E r \in Nat : Truncated(n, e, r) /\ r > MaxWord
  <2>1. CASE e >= 0
    <3>1. e \in Nat
      BY <1>1, <2>1
    <3>2. Ten(l + e) = Ten(l) * Ten(e) /\ Ten(l) \in Nat /\ Ten(e) \in Nat
      BY <1>1, <3>1, TenSum, TenTurns
    <3>3. Ten(e) * Ten(l) <= Ten(e) * n /\ n * Ten(e) \in Nat
      BY <1>1, <3>2, TimesGrows, TimesNat
    <3>4. Ten(e) * Ten(l) = Ten(l) * Ten(e) /\ Ten(e) * n = n * Ten(e)
      BY <1>1, <3>2, TimesSwap
    <3>5. n * Ten(e) > MaxWord
      BY <1>2, <1>4, <1>5, <3>2, <3>3, <3>4
    <3> QED
      BY <2>1, <3>3, <3>5 DEF Truncated
  <2>2. CASE ~(e >= 0)
    <3>1. -e \in Nat /\ l = (l + e) + (-e)
      BY <1>1, <2>2
    <3> DEFINE p == Ten(-e)
               t == Ten(l + e)
               r == n \div p
    <3>2. p \in Nat \ {0} /\ Ten(l) = t * p
      BY <1>3, <3>1, TenSum, TenTurns
    <3>3. t \in Nat /\ t > MaxWord
      BY <1>4, <1>5
    <3> HIDE DEF p, t
    <3>4. n = p * r + (n % p) /\ n % p \in 0 .. p - 1 /\ r \in Nat
      BY <1>1, <3>2, Z3
    <3> HIDE DEF r
    <3>5. p * r \in Nat /\ p * (r + 1) = p * r + p /\ p * r = r * p /\ p * (r + 1) = (r + 1) * p
      BY <3>2, <3>4, Z3
    <3> DEFINE x == n % p
               y == p * r
    <3>9. n = y + x /\ x \in 0 .. p - 1 /\ y \in Nat /\ r * p = y /\ (r + 1) * p = y + p
      BY <3>4, <3>5
    <3> HIDE DEF x, y
    <3>6. r * p <= n /\ n < (r + 1) * p
      BY <3>2, <3>9
    <3>7. ~(r < t)
      <4>1. SUFFICES ASSUME r + 1 <= t PROVE FALSE
        BY <3>3, <3>4
      <4>2. p * (r + 1) <= p * t /\ p * t = t * p /\ t * p \in Nat
        BY <3>2, <3>3, <3>4, <4>1, TimesGrows, TimesSwap, TimesNat
      <4> QED
        BY <1>1, <3>2, <3>5, <3>6, <4>2
    <3>8. r > MaxWord
      BY <1>2, <3>3, <3>4, <3>7
    <3> QED
      BY <2>2, <3>4, <3>6, <3>8 DEF Truncated, p
  <2> QED
    BY <2>1, <2>2
<1>7. PICK r \in Nat : Truncated(n, e, r) /\ r > MaxWord
  BY <1>6
<1>8. Exactly([mantissa |-> Mantissa(d.digits), exp |-> e], f) = IF r > MaxWord THEN None ELSE Some(r)
  BY <1>1, <1>7, ExactlyTruncated DEF n
<1> QED
  BY <1>7, <1>8 DEF e

(* ------------------------- the limbs as they change --------------------- *)
\* Limbs that s and t share between j and m are worth the same in both.
LEMMA LowSame ==
    ASSUME NEW s \in Seq(Nat), NEW t \in Seq(Nat), NEW j \in Nat, NEW m \in Nat,
           j <= m, m <= Len(s), m <= Len(t), \A i \in j + 1 .. m : t[i] = s[i]
    PROVE  Low(t, m) - Low(t, j) = Low(s, m) - Low(s, j)
<1> DEFINE q == 0
           n == m - j
<1>1. /\ q \in Nat /\ n \in Nat /\ q + j + n = m /\ j + n = m /\ q + j = j
      /\ \A i \in Nat : q + i = i
  OBVIOUS
<1>2. Place(q) = 1
  BY PlaceTurns
<1> HIDE DEF q, n
<1>3. \A i \in j + 1 .. j + n : t[q + i] = s[i]
  BY <1>1
<1>10. q \in Nat /\ j \in Nat /\ n \in Nat /\ Shifts(s, t, q, j, n)
  BY <1>1, <1>3 DEF Shifts
<1>4. Low(t, q + j + n) - Low(t, q + j) = Place(q) * (Low(s, j + n) - Low(s, j))
  BY <1>10, LowShift
<1>5. Low(t, m) - Low(t, j) = 1 * (Low(s, m) - Low(s, j))
  BY <1>1, <1>2, <1>4, Zenon
<1>6. Len(s) \in Nat /\ m \in 0 .. Len(s) /\ j \in 0 .. Len(s)
  OBVIOUS
<1>7. Low(s, m) \in Nat /\ Low(s, j) \in Nat
  BY <1>6, LowTurns
<1> QED
  BY <1>5, <1>7

\* All limbs of s, q places higher.
LEMMA LowAbove ==
    ASSUME NEW s \in Seq(Nat), NEW t \in Seq(Nat), NEW q \in Nat, Len(t) = q + Len(s),
           \A i \in 1 .. Len(s) : t[q + i] = s[i]
    PROVE  Low(t, Len(t)) = Low(t, q) + Place(q) * Low(s, Len(s))
<1> DEFINE j == 0
           n == Len(s)
<1>1. /\ j \in Nat /\ n \in Nat /\ q + j + n = Len(t) /\ j + n = Len(s) /\ q + j = q
      /\ j + 1 = 1 /\ j = 0 /\ q + j + n <= Len(t) /\ j + n <= Len(s)
      /\ q \in 0 .. Len(t) /\ Len(t) \in 0 .. Len(t) /\ Len(s) \in 0 .. Len(s)
  OBVIOUS
<1> HIDE DEF j, n
<1>3. \A i \in j + 1 .. j + n : t[q + i] = s[i]
  BY <1>1
<1>10. q \in Nat /\ j \in Nat /\ n \in Nat /\ Shifts(s, t, q, j, n)
  BY <1>1, <1>3 DEF Shifts
<1>4. Low(t, q + j + n) - Low(t, q + j) = Place(q) * (Low(s, j + n) - Low(s, j))
  BY <1>10, LowShift
<1>5. Low(t, Len(t)) - Low(t, q) = Place(q) * (Low(s, Len(s)) - Low(s, 0))
  BY <1>1, <1>4, Zenon
<1>6. Low(s, 0) = 0 /\ Low(s, Len(s)) \in Nat /\ Low(t, Len(t)) \in Nat /\ Low(t, q) \in Nat
  BY <1>1, LowTurns
<1>7. Low(s, Len(s)) - Low(s, 0) = Low(s, Len(s))
  BY <1>6
<1>8. Low(t, Len(t)) - Low(t, q) = Place(q) * Low(s, Len(s))
  BY <1>5, <1>7, Zenon
<1>9. Place(q) * Low(s, Len(s)) \in Nat
  BY <1>6, PlaceTurns, TimesNat
<1> QED
  BY <1>6, <1>8, <1>9

\* The same limbs are worth the same.
LEMMA LowPrefix ==
    ASSUME NEW s \in Seq(Nat), NEW t \in Seq(Nat), NEW n \in Nat, n <= Len(s), n <= Len(t),
           \A i \in 1 .. n : t[i] = s[i]
    PROVE  Low(t, n) = Low(s, n)
<1>1. 0 \in Nat /\ 0 <= n /\ \A i \in 0 + 1 .. n : t[i] = s[i]
  OBVIOUS
<1>2. Low(t, n) - Low(t, 0) = Low(s, n) - Low(s, 0)
  BY <1>1, LowSame
<1>3. n \in 0 .. Len(s) /\ n \in 0 .. Len(t)
  OBVIOUS
<1>4. Low(t, 0) = 0 /\ Low(s, 0) = 0 /\ Low(t, n) \in Nat /\ Low(s, n) \in Nat
  BY <1>3, LowTurns
<1> QED
  BY <1>2, <1>4

\* A limb is replaced.
LEMMA LowReplaced ==
    ASSUME NEW s \in Seq(Nat), NEW i \in 1 .. Len(s), NEW x \in Nat
    PROVE  LET t == [s EXCEPT ![i] = x] IN
           /\ t \in Seq(Nat) /\ Len(t) = Len(s)
           /\ Low(t, i - 1) = Low(s, i - 1)
           /\ Low(t, i) = Low(s, i - 1) + x * Place(i - 1)
           /\ Low(t, Len(s)) - Low(t, i) = Low(s, Len(s)) - Low(s, i)
<1> DEFINE t == [s EXCEPT ![i] = x]
<1>1. /\ t \in Seq(Nat) /\ Len(t) = Len(s) /\ Len(s) \in Nat /\ t[i] = x
      /\ \A k \in 1 .. Len(s) : k # i => t[k] = s[k]
  OBVIOUS
<1> HIDE DEF t
<1>2. i \in Nat /\ i - 1 \in Nat /\ i <= Len(s) /\ Len(s) - i \in Nat /\ (i - 1) + 1 = i
  BY <1>1
<1>3. Low(t, i - 1) = Low(s, i - 1)
  <2>1. i - 1 <= Len(s) /\ i - 1 <= Len(t) /\ \A k \in 1 .. i - 1 : t[k] = s[k]
    BY <1>1, <1>2
  <2> QED
    BY <1>1, <1>2, <2>1, LowPrefix
<1>4. Low(t, i) = Low(s, i - 1) + x * Place(i - 1)
  <2>1. i - 1 \in 0 .. Len(t) - 1
    BY <1>1, <1>2
  <2>2. Low(t, (i - 1) + 1) = Low(t, i - 1) + t[(i - 1) + 1] * Place(i - 1)
    BY <1>1, <2>1, LowTurns
  <2> QED
    BY <1>1, <1>2, <1>3, <2>2
<1>5. Low(t, Len(s)) - Low(t, i) = Low(s, Len(s)) - Low(s, i)
  <2>1. Len(s) <= Len(s) /\ Len(s) <= Len(t) /\ \A k \in i + 1 .. Len(s) : t[k] = s[k]
    BY <1>1, <1>2
  <2> QED
    BY <1>1, <1>2, <2>1, LowSame
<1> QED
  BY <1>1, <1>3, <1>4, <1>5 DEF t

\* A limb is put on top.
LEMMA LowAppended ==
    ASSUME NEW s \in Seq(Nat), NEW x \in Nat
    PROVE  LET t == Append(s, x) IN
           /\ t \in Seq(Nat) /\ Len(t) = Len(s) + 1
           /\ Low(t, Len(s)) = Low(s, Len(s))
           /\ Low(t, Len(t)) = Low(s, Len(s)) + x * Place(Len(s))
<1> DEFINE t == Append(s, x)
<1>1. /\ t \in Seq(Nat) /\ Len(t) = Len(s) + 1 /\ Len(s) \in Nat /\ t[Len(s) + 1] = x
      /\ \A k \in 1 .. Len(s) : t[k] = s[k]
  OBVIOUS
<1> HIDE DEF t
<1>2. Len(s) <= Len(s) /\ Len(s) <= Len(t) /\ Len(s) \in 0 .. Len(t) - 1
  BY <1>1
<1>3. Low(t, Len(s)) = Low(s, Len(s))
  BY <1>1, <1>2, LowPrefix
<1>4. Low(t, Len(s) + 1) = Low(t, Len(s)) + t[Len(s) + 1] * Place(Len(s))
  BY <1>1, <1>2, LowTurns
<1> QED
  BY <1>1, <1>3, <1>4 DEF t

\* Zeros are put below.
LEMMA LowRaised ==
    ASSUME NEW s \in Seq(Nat), NEW q \in Nat
    PROVE  LET t == Zeros(q) \o s IN
           /\ t \in Seq(Nat)
           /\ Low(t, Len(t)) = Place(q) * Low(s, Len(s))
<1> DEFINE t == Zeros(q) \o s
<1>1. Zeros(q) \in Seq(Nat) /\ Len(Zeros(q)) = q /\ \A k \in 1 .. q : Zeros(q)[k] = 0
  BY DEF Zeros
<1>2. /\ t \in Seq(Nat) /\ Len(t) = q + Len(s) /\ Len(s) \in Nat
      /\ \A k \in 1 .. q : t[k] = 0
      /\ \A k \in 1 .. Len(s) : t[q + k] = s[k]
  <2> DEFINE z == Zeros(q)
  <2> HIDE DEF z
  <2>1. z \in Seq(Nat) /\ Len(z) = q /\ \A k \in 1 .. q : z[k] = 0
    BY <1>1 DEF z
  <2>2. z \o s \in Seq(Nat) /\ Len(z \o s) = q + Len(s) /\ Len(s) \in Nat
    BY <2>1
  <2>3. \A k \in 1 .. q : (z \o s)[k] = 0
    BY <2>1, <2>2
  <2>4. \A k \in 1 .. Len(s) : (z \o s)[q + k] = s[k]
    BY <2>1, <2>2
  <2> QED
    BY <2>2, <2>3, <2>4 DEF z
<1> HIDE DEF t
<1>3. Low(t, q) = 0
  <2> DEFINE S == {k \in Nat : k <= q => Low(t, k) = 0}
  <2>1. 0 \in S
    BY <1>2, LowTurns
  <2>2. ASSUME NEW k \in Nat, k \in S PROVE k + 1 \in S
    <3>1. SUFFICES ASSUME k + 1 <= q PROVE Low(t, k + 1) = 0
      OBVIOUS
    <3>2. k \in 0 .. Len(t) - 1 /\ k + 1 \in 1 .. q /\ k <= q
      BY <1>2, <3>1
    <3>3. Low(t, k + 1) = Low(t, k) + t[k + 1] * Place(k)
      BY <1>2, <3>2, LowTurns
    <3>4. Low(t, k) = 0 /\ t[k + 1] = 0 /\ Place(k) \in Nat
      BY <1>2, <2>2, <3>2, PlaceTurns
    <3> QED
      BY <3>3, <3>4
  <2> HIDE DEF S
  <2>3. \A k \in Nat : k \in S
    BY <2>1, <2>2, Induct
  <2>4. q \in S /\ q <= q
    BY <2>3
  <2> QED
    BY <2>4 DEF S
<1>4. Low(t, Len(t)) = 0 + Place(q) * Low(s, Len(s))
  BY <1>2, <1>3, LowAbove
<1>5. Len(s) \in 0 .. Len(s)
  BY <1>2
<1>6. Place(q) * Low(s, Len(s)) \in Nat
  BY <1>5, LowTurns, PlaceTurns, TimesNat
<1> QED
  BY <1>2, <1>4, <1>6 DEF t

\* The lowest limbs go.
LEMMA LowDropped ==
    ASSUME NEW s \in Seq(Nat), NEW w \in Nat, w < Len(s)
    PROVE  LET t == SubSeq(s, w + 1, Len(s)) IN
           /\ t \in Seq(Nat) /\ Len(t) = Len(s) - w
           /\ Low(s, Len(s)) = Low(s, w) + Place(w) * Low(t, Len(t))
<1> DEFINE t == SubSeq(s, w + 1, Len(s))
<1>1. t \in Seq(Nat) /\ Len(t) = Len(s) - w
  BY SuffixOfSeq
<1>2. \A k \in 1 .. Len(t) : s[w + k] = t[k]
  BY <1>1
<1> HIDE DEF t
<1>3. Len(s) \in Nat /\ Len(s) = w + Len(t)
  BY <1>1
<1>4. Low(s, Len(s)) = Low(s, w) + Place(w) * Low(t, Len(t))
  BY <1>1, <1>2, <1>3, LowAbove
<1> QED
  BY <1>1, <1>4 DEF t

(* --------------------------- what is computed so far ------------------- *)
\* What is to come out, before the power of ten.
Total == Mantissa(number.digits) * factor

\* Nothing is computed for a zero.
Nonzero == step \notin {"idle", "done"} => ~IsZero(number) /\ factor # 0

\* The digits not yet gathered, the digits in the limb being gathered and the
\* limbs are together the mantissa.
GatherValue ==
    step = "gather" =>
        /\ left > 0
        /\ Len(number.digits) - left = LimbDigits * Len(limbs)
        /\ Mantissa(number.digits) =
               Upto(number.digits, left) * Ten(Len(number.digits) - left) + Low(limbs, Len(limbs))
        /\ Upto(number.digits, at - 1) =
               Upto(number.digits, ChunkStart(left)) * Ten(Gathered) + carry

\* The limbs below at are multiplied, those from at on are not.
MultiplyValue ==
    step \in {"scale", "raise"} =>
        (Low(limbs, at - 1) + carry * Place(at - 1))
            + Multiplier * (Low(limbs, Len(limbs)) - Low(limbs, at - 1))
        = IF step = "scale" THEN Total ELSE Total * Ten(number.exp)

\* The limbs above at are divided, those up to at and the carry are not.
Undivided ==
    (carry * Place(at) + Low(limbs, at)) + Divisor * (Low(limbs, Len(limbs)) - Low(limbs, at))

DivideValue ==
    step = "divide" =>
        LET dropped == Place((-number.exp) \div LimbDigits)
        IN  Undivided * dropped <= Total /\ Total < (Undivided + 1) * dropped

PackValue ==
    step = "pack" =>
        carry <= MaxWord /\ Truncated(Total, number.exp, carry * Place(at) + Low(limbs, at))

Exact == Nonzero /\ GatherValue /\ MultiplyValue /\ DivideValue /\ PackValue /\ ProductExact

\* The parts of the state, each with its type.
LEMMA StateTyped ==
    ASSUME Typed
    PROVE  /\ limbs \in Seq(Nat) /\ limbs \in Seq(0 .. Base - 1) /\ Len(limbs) \in Nat
           /\ carry \in Nat /\ at \in Nat /\ factor \in Nat /\ left \in 0 .. Len(number.digits)
           /\ number.digits \in Seq(0 .. 9) /\ Len(number.digits) \in Nat /\ number.exp \in Int
           /\ Mantissa(number.digits) = Upto(number.digits, Len(number.digits))
           /\ Mantissa(number.digits) \in Nat /\ Total \in Nat
<1>1. Base \in Nat \ {0}
  BY Powers
<1>2. limbs \in Seq(0 .. Base - 1)
  BY DEF Typed, LimbSeq
<1>3. limbs \in Seq(Nat) /\ Len(limbs) \in Nat
  BY <1>1, <1>2
<1>4. /\ carry \in Nat /\ at \in Nat /\ factor \in Nat /\ left \in 0 .. Len(number.digits)
      /\ number.digits \in Seq(0 .. 9) /\ Len(number.digits) \in Nat /\ number.exp \in Int
  BY DEF Typed, Numbers
<1>5. Mantissa(number.digits) = Upto(number.digits, Len(number.digits))
  BY DEF Mantissa, Upto
<1>6. Len(number.digits) \in 0 .. Len(number.digits)
  BY <1>4
<1>7. Mantissa(number.digits) \in Nat
  BY <1>4, <1>5, <1>6, UptoTurns
<1>8. Total \in Nat
  BY <1>4, <1>7, TimesNat DEF Total
<1> QED
  BY <1>2, <1>3, <1>4, <1>5, <1>7, <1>8

\* A product with zero is zero.
LEMMA ZeroExact ==
    ASSUME NEW d \in Numbers, NEW f \in Nat, IsZero(d) \/ f = 0
    PROVE  Exactly([mantissa |-> Mantissa(d.digits), exp |-> d.exp], f) = Some(0)
<1>1. Mantissa(d.digits) \in Nat
  <2>1. d.digits \in Seq(0 .. 9) /\ Len(d.digits) \in 0 .. Len(d.digits)
    BY DEF Numbers
  <2> QED
    BY <2>1, UptoTurns DEF Mantissa, Upto
<1>2. Mantissa(d.digits) * f = 0
  <2>1. CASE f = 0
    BY <1>1, <2>1
  <2>2. CASE IsZero(d)
    <3>1. d.digits = <<>> /\ Len(<<>>) = 0
      BY <2>2 DEF IsZero
    <3>2. Horner(0, 10, <<>>, 0) = 0
      BY HornerTurns
    <3>3. Mantissa(d.digits) = 0
      BY <3>1, <3>2 DEF Mantissa
    <3> QED
      BY <3>3
  <2> QED
    BY <2>1, <2>2
<1> QED
  BY <1>2, Zenon DEF Exactly

\* A new product is known at once or starts with nothing gathered.
LEMMA MultiplyExact ==
    ASSUME NEW d \in Numbers, NEW f \in Factors, Multiply(d, f)
    PROVE  Exact'
<1>1. f \in Nat /\ number' = d /\ factor' = f
  BY Powers DEF Multiply
<1>2. CASE IsZero(d) \/ f = 0
  <2>1. step' = "done" /\ product' = Some(0)
    BY <1>2 DEF Multiply
  <2>2. Exactly([mantissa |-> Mantissa(d.digits), exp |-> d.exp], f) = Some(0)
    BY <1>1, <1>2, ZeroExact
  <2>3. ProductExact'
    BY <1>1, <2>1, <2>2 DEF ProductExact
  <2> QED
    BY <2>1, <2>3 DEF Exact, Nonzero, GatherValue, MultiplyValue, DivideValue, PackValue
<1>3. CASE ~IsZero(d) /\ f # 0 /\ Len(d.digits) + d.exp > MaxDigits
  <2>0. Len(d.digits) \in Nat /\ d.exp \in Int /\ MaxDigits \in Nat
    BY WordAssumption DEF Numbers
  <2>1. step' = "done" /\ product' = None
    BY <1>3, <2>0 DEF Multiply
  <2>2. Exactly([mantissa |-> Mantissa(d.digits), exp |-> d.exp], f) = None
    BY <1>1, <1>3, RefusedIsBeyond
  <2>3. ProductExact'
    BY <1>1, <2>1, <2>2 DEF ProductExact
  <2> QED
    BY <2>1, <2>3 DEF Exact, Nonzero, GatherValue, MultiplyValue, DivideValue, PackValue
<1>4. CASE ~IsZero(d) /\ f # 0 /\ ~(Len(d.digits) + d.exp > MaxDigits)
  <2> DEFINE n == Len(d.digits)
             c == ChunkStart(n)
  <2>1. /\ step' = "gather" /\ limbs' = <<>> /\ carry' = 0
        /\ left' = n /\ at' = c + 1
    BY <1>4 DEF Multiply
  <2>2. d.digits \in Seq(0 .. 9) /\ d.digits # <<>>
    BY <1>4 DEF Numbers, IsZero
  <2>3. n \in Nat \ {0} /\ n \in 0 .. n
    BY <2>2
  <2>4. c \in 0 .. n
    BY <2>3, Powers DEF ChunkStart
  <2>5. Mantissa(d.digits) = Upto(d.digits, n)
    BY DEF Mantissa, Upto
  <2> HIDE DEF n
  <2>6. Gathered' = ((c + 1) - 1) - c
    BY <2>1 DEF Gathered
  <2> HIDE DEF c
  <2>7. Gathered' = 0 /\ at' - 1 = c /\ c \in Nat
    BY <2>1, <2>3, <2>4, <2>6
  <2>8. Upto(d.digits, n) \in Nat /\ Upto(d.digits, c) \in Nat
    BY <2>2, <2>3, <2>4, UptoTurns DEF n
  <2>9. Ten(0) = 1 /\ Low(<<>>, 0) = 0 /\ Len(<<>>) = 0
    <3>1. <<>> \in Seq(Nat) /\ Len(<<>>) = 0
      OBVIOUS
    <3>2. Low(<<>>, 0) = 0
      BY <3>1, LowTurns
    <3>3. Ten(0) = 1
      BY TenTurns
    <3> QED
      BY <3>1, <3>2, <3>3
  <2>10. left' > 0 /\ Len(d.digits) - left' = 0 /\ LimbDigits * Len(limbs') = 0
    BY <2>1, <2>3, <2>9, PowersAssumption DEF n
  <2>11. Mantissa(d.digits) = Upto(d.digits, left') * Ten(0) + Low(limbs', Len(limbs'))
    BY <2>1, <2>5, <2>8, <2>9
  <2>12. Upto(d.digits, c) = Upto(d.digits, c) * Ten(0) + 0
    BY <2>8, <2>9
  <2>13. GatherValue'
    BY <1>1, <2>1, <2>7, <2>10, <2>11, <2>12 DEF GatherValue, c
  <2>14. Nonzero'
    BY <1>1, <1>4 DEF Nonzero
  <2> QED
    BY <2>1, <2>13, <2>14 DEF Exact, MultiplyValue, DivideValue, PackValue, ProductExact
<1> QED
  BY <1>2, <1>3, <1>4

(* -------------------------------- the steps ---------------------------- *)
\* A digit gathered is a digit less to gather.
LEMMA GatherDigitExact ==
    ASSUME IInv, Exact, GatherDigit PROVE Exact'
<1>1. /\ step = "gather" /\ step' = "gather" /\ at <= left /\ at' = at + 1
      /\ number' = number /\ factor' = factor /\ limbs' = limbs /\ left' = left
  BY DEF GatherDigit
<1>2. carry' = carry * 10 + number.digits[at]
  BY GatherFits, WordKeeps DEF GatherDigit, IInv
<1>3. Typed
  BY DEF IInv
<1>4. left \in 0 .. Len(number.digits) /\ Len(number.digits) \in Nat /\ carry \in Nat /\ number.digits \in Seq(0 .. 9)
  BY <1>3, StateTyped
<1>5. ChunkStart(left) \in Nat
  BY <1>4, Powers DEF ChunkStart
<1>6. at \in Nat /\ at >= ChunkStart(left) + 1
  BY <1>1, <1>4, <1>5 DEF IInv, GatherSmall
<1>7. at - 1 \in 0 .. Len(number.digits) - 1 /\ at' - 1 = at /\ (at - 1) + 1 = at
  BY <1>1, <1>4, <1>5, <1>6
<1>8. Upto(number.digits, at) = 10 * Upto(number.digits, at - 1) + number.digits[at]
  <2>1. Upto(number.digits, (at - 1) + 1) = 10 * Upto(number.digits, at - 1) + number.digits[(at - 1) + 1]
    BY <1>4, <1>7, UptoTurns
  <2> QED
    BY <1>7, <2>1
<1>9. Gathered \in Nat /\ Gathered' = Gathered + 1
  BY <1>1, <1>5, <1>6 DEF Gathered, ChunkStart
<1>10. /\ left > 0
       /\ Len(number.digits) - left = LimbDigits * Len(limbs)
       /\ Mantissa(number.digits) =
              Upto(number.digits, left) * Ten(Len(number.digits) - left) + Low(limbs, Len(limbs))
       /\ Upto(number.digits, at - 1) = Upto(number.digits, ChunkStart(left)) * Ten(Gathered) + carry
  BY <1>1 DEF Exact, GatherValue
<1>11. Upto(number.digits, at) =
           Upto(number.digits, ChunkStart(left)) * Ten(Gathered + 1) + (carry * 10 + number.digits[at])
  <2> DEFINE u == Upto(number.digits, ChunkStart(left))
             p == Ten(Gathered)
             x == number.digits[at]
             y == Upto(number.digits, at - 1)
  <2>1. Ten(Gathered + 1) = 10 * p /\ p \in Nat
    BY <1>9, TenTurns
  <2>2. u \in Nat
    <3>1. ChunkStart(left) \in 0 .. Len(number.digits)
      BY <1>4, <1>5, Powers DEF ChunkStart
    <3> QED
      BY <1>4, <3>1, UptoTurns
  <2>3. x \in Nat
    BY <1>4, <1>7
  <2>4. y = u * p + carry
    BY <1>10
  <2> HIDE DEF u, p, x, y
  <2>5. u * p \in Nat /\ u * (10 * p) = 10 * (u * p)
    BY <2>1, <2>2, Z3
  <2>6. 10 * y + x = u * (10 * p) + (carry * 10 + x)
    BY <1>4, <2>3, <2>4, <2>5
  <2> QED
    BY <1>8, <2>1, <2>6 DEF u, x, y
<1>12. Nonzero'
  BY <1>1 DEF Exact, Nonzero
<1>13. GatherValue'
  BY <1>1, <1>2, <1>7, <1>9, <1>10, <1>11 DEF GatherValue
<1> QED
  BY <1>1, <1>12, <1>13 DEF Exact, MultiplyValue, DivideValue, PackValue, ProductExact

\* A limb gathered is a chunk of digits less to gather.
LEMMA PushLimbExact ==
    ASSUME IInv, Exact, PushLimb PROVE Exact'
<1> DEFINE D == number.digits
           l == Len(limbs)
           c == ChunkStart(left)
           n == Len(D)
           low == Low(limbs, l)
<1>1. Typed
  BY DEF IInv
<1>2. /\ limbs \in Seq(Nat) /\ l \in Nat /\ left \in 0 .. n /\ n \in Nat /\ carry \in Nat
      /\ D \in Seq(0 .. 9)
  BY <1>1, StateTyped
<1>3. /\ step = "gather" /\ limbs' = Append(limbs, carry) /\ carry' = 0
      /\ left' = c /\ number' = number /\ factor' = factor /\ at > left
  BY DEF PushLimb
<1>4. c \in 0 .. left /\ c \in 0 .. n /\ (c # 0 => left - c = LimbDigits)
  BY <1>2, Powers DEF ChunkStart
<1>5. at = left + 1 /\ at - 1 = left
  <2>1. at \in c + 1 .. left + 1 /\ at > left
    BY <1>3 DEF IInv, GatherSmall
  <2>2. c \in Nat /\ left \in Nat
    BY <1>2, <1>4
  <2> HIDE DEF c
  <2> QED
    BY <2>1, <2>2
<1>6. Gathered = left - c
  BY <1>5 DEF Gathered
<1>7. /\ left > 0 /\ n - left = LimbDigits * l
      /\ Mantissa(D) = Upto(D, left) * Ten(n - left) + low
      /\ Upto(D, left) = Upto(D, c) * Ten(left - c) + carry
  BY <1>3, <1>5, <1>6 DEF Exact, GatherValue
<1>8. low \in Nat
  <2>1. l \in 0 .. Len(limbs)
    BY <1>2
  <2> QED
    BY <1>2, <2>1, LowTurns
<1>9. Len(limbs') = l + 1 /\ Low(limbs', Len(limbs')) = low + carry * Place(l) /\ limbs' \in Seq(Nat)
  BY <1>2, <1>3, LowAppended
<1>10. Place(l) = Ten(n - left)
  BY <1>7 DEF Place
<1>11. Mantissa(D) = Upto(D, c) * Ten(n - c) + Low(limbs', Len(limbs'))
  <2> DEFINE u == Upto(D, c)
             p == Ten(left - c)
             q == Ten(n - left)
  <2>1. u \in Nat
    BY <1>2, <1>4, UptoTurns
  <2>2. n - left \in Nat /\ left - c \in Nat /\ (left - c) + (n - left) = n - c
    BY <1>2, <1>4
  <2>3. p \in Nat /\ q \in Nat /\ Ten(n - c) = p * q
    BY <2>2, TenTurns, TenSum
  <2> HIDE DEF u, p, q, low
  <2>4. Mantissa(D) = (u * p + carry) * q + low
    BY <1>7 DEF u, p, q
  <2>5. (u * p + carry) * q = u * (p * q) + carry * q /\ u * (p * q) \in Nat /\ carry * q \in Nat
    BY <1>2, <2>1, <2>3, Z3
  <2>6. (u * (p * q) + carry * q) + low = u * (p * q) + (low + carry * q)
    BY <1>8, <2>5
  <2>7. Low(limbs', Len(limbs')) = low + carry * q
    BY <1>9, <1>10 DEF q
  <2> QED
    BY <2>3, <2>4, <2>5, <2>6, <2>7, Zenon DEF u
<1>12. Nonzero /\ ~IsZero(number) /\ factor # 0
  BY <1>3 DEF Exact, Nonzero
<1>13. CASE c = 0
  <2>1. step' = "scale" /\ at' = 1
    BY <1>3, <1>13 DEF PushLimb
  <2> DEFINE w == Low(limbs', Len(limbs'))
  <2>2. Mantissa(D) = w /\ w \in Nat
    <3>0. n - c \in Nat
      BY <1>2, <1>4
    <3>5. Ten(n - c) \in Nat
      BY <3>0, TenTurns
    <3>6. Upto(D, 0) = 0
      BY <1>2, UptoTurns
    <3>1. Upto(D, 0) = 0 /\ Ten(n - c) \in Nat
      BY <3>5, <3>6
    <3>2. 0 * Ten(n - c) = 0
      BY <3>1
    <3>3. Len(limbs') \in 0 .. Len(limbs')
      BY <1>2, <1>9
    <3>4. w \in Nat
      BY <1>9, <3>3, LowTurns
    <3> HIDE DEF w
    <3> QED
      BY <1>11, <1>13, <3>1, <3>2, <3>4 DEF w
  <2>3. Low(limbs', 0) = 0 /\ Place(0) = 1
    BY <1>9, LowTurns, PlaceTurns
  <2>4. Multiplier' = factor /\ Total' = w * factor /\ at' - 1 = 0
    BY <1>3, <2>1, <2>2 DEF Multiplier, Total
  <2>5. factor \in Nat
    BY <1>1, StateTyped
  <2> HIDE DEF w
  <2>6. (0 + 0 * 1) + factor * (w - 0) = w * factor
    <3>1. factor * w = w * factor /\ factor * w \in Nat
      BY <2>2, <2>5, Z3
    <3> QED
      BY <2>2, <2>5, <3>1
  <2>7. (Low(limbs', at' - 1) + carry' * Place(at' - 1)) + Multiplier' * (w - Low(limbs', at' - 1)) = Total'
    BY <1>3, <2>3, <2>4, <2>6
  <2>8. MultiplyValue'
    BY <2>1, <2>7 DEF MultiplyValue, w
  <2> QED
    BY <1>3, <1>12, <2>1, <2>8 DEF Exact, Nonzero, GatherValue, DivideValue, PackValue, ProductExact
<1>14. CASE c # 0
  <2>1. step' = "gather" /\ at' = ChunkStart(c) + 1
    BY <1>3, <1>14 DEF PushLimb
  <2>2. ChunkStart(c) \in 0 .. n
    BY <1>2, <1>4, Powers DEF ChunkStart
  <2> DEFINE b == ChunkStart(c)
             u == Upto(D, b)
  <2>3. Gathered' = at' - 1 - b
    BY <1>3 DEF Gathered
  <2>4. u \in Nat
    BY <1>2, <2>2, UptoTurns
  <2> HIDE DEF b, u
  <2>5. at' - 1 = b /\ Gathered' = 0
    BY <1>2, <2>1, <2>2, <2>3 DEF b
  <2>6. u = u * Ten(0) + 0
    <3>1. Ten(0) = 1
      BY TenTurns
    <3> QED
      BY <2>4, <3>1
  <2>7. c > 0 /\ n - c = LimbDigits * (l + 1)
    <3>1. l \in Nat /\ LimbDigits \in Nat /\ n \in Nat /\ left \in Nat /\ c \in Nat
      BY <1>2, <1>4, Powers
    <3>2. n - left = LimbDigits * l /\ left - c = LimbDigits /\ c # 0
      BY <1>4, <1>7, <1>14
    <3> HIDE DEF l, n, c
    <3>3. LimbDigits * (l + 1) = LimbDigits * l + LimbDigits /\ LimbDigits * l \in Nat
      BY <3>1, Z3
    <3> QED
      BY <3>1, <3>2, <3>3
  <2>8. Upto(D, at' - 1) = Upto(D, ChunkStart(left')) * Ten(Gathered') + carry'
    BY <1>3, <2>5, <2>6 DEF b, u
  <2>9. GatherValue'
    BY <1>3, <1>9, <1>11, <2>7, <2>8 DEF GatherValue
  <2> QED
    BY <1>3, <1>12, <2>1, <2>9 DEF Exact, Nonzero, MultiplyValue, DivideValue, PackValue, ProductExact
<1> QED
  BY <1>13, <1>14

\* The last limbs, from at on, in the terms of the steps.
LEMMA LowAt ==
    ASSUME Typed, at \in 1 .. Len(limbs)
    PROVE  /\ limbs[at] \in Nat /\ at - 1 \in Nat /\ (at - 1) + 1 = at
           /\ Low(limbs, at - 1) \in Nat /\ Place(at - 1) \in Nat
           /\ Low(limbs, at) = Low(limbs, at - 1) + limbs[at] * Place(at - 1)
           /\ Low(limbs, at) \in Nat /\ Low(limbs, Len(limbs)) \in Nat
           /\ Place(at) = Base * Place(at - 1)
<1>1. limbs \in Seq(Nat) /\ Len(limbs) \in Nat
  BY StateTyped
<1>2. /\ at - 1 \in Nat /\ (at - 1) + 1 = at /\ at - 1 \in 0 .. Len(limbs) - 1
      /\ at - 1 \in 0 .. Len(limbs) /\ at \in 0 .. Len(limbs) /\ Len(limbs) \in 0 .. Len(limbs)
  BY <1>1
<1>3. limbs[at] \in Nat
  BY <1>1, ElementOf
<1>4. Low(limbs, at - 1) \in Nat /\ Low(limbs, at) \in Nat /\ Low(limbs, Len(limbs)) \in Nat
  BY <1>1, <1>2, LowTurns
<1>5. Low(limbs, (at - 1) + 1) = Low(limbs, at - 1) + limbs[(at - 1) + 1] * Place(at - 1)
  BY <1>1, <1>2, LowTurns
<1>6. Place((at - 1) + 1) = Base * Place(at - 1) /\ Place(at - 1) \in Nat
  BY <1>2, PlaceTurns
<1> QED
  BY <1>2, <1>3, <1>4, <1>5, <1>6

\* A turn of the multiplication: the limb l and the carry c become what is
\* below the base b and what is not; a is below the limb, h above it.
LEMMA MultiplyTurn ==
    ASSUME NEW a \in Nat, NEW c \in Nat, NEW p \in Nat, NEW m \in Nat, NEW l \in Nat,
           NEW h \in Int, NEW b \in Nat, NEW q \in Nat, NEW r \in Nat, l * m + c = b * q + r
    PROVE  ((a + r * p) + q * (b * p)) + m * h = (a + c * p) + m * (l * p + h)
<1>1. m * (l * p + h) = (l * m) * p + m * h
  BY Z3
<1>2. (l * m) * p + c * p = (l * m + c) * p
  BY Z3
<1>3. (b * q + r) * p = q * (b * p) + r * p
  BY Z3
<1>4. (l * m) * p \in Nat /\ c * p \in Nat /\ m * h \in Int /\ q * (b * p) \in Nat /\ r * p \in Nat
  BY Z3
<1>5. (l * m) * p + c * p = q * (b * p) + r * p
  BY <1>2, <1>3
<1> QED
  BY <1>1, <1>4, <1>5

\* A turn of mul_small.
LEMMA MultiplyLimbExact ==
    ASSUME IInv, Exact, MultiplyLimb PROVE Exact'
<1> DEFINE v == limbs[at] * Multiplier + carry
           a == Low(limbs, at - 1)
           p == Place(at - 1)
           m == Multiplier
           h == Low(limbs, Len(limbs)) - Low(limbs, at)
           q == v \div Base
           r == v % Base
           T == IF step = "scale" THEN Total ELSE Total * Ten(number.exp)
<1>1. Typed /\ MultiplySmall /\ step \in {"scale", "raise"} /\ at <= Len(limbs)
  BY DEF IInv, MultiplyLimb
<1>2. at \in 1 .. Len(limbs) /\ limbs \in Seq(Nat) /\ carry \in Nat /\ Len(limbs) \in Nat
  BY <1>1, StateTyped DEF MultiplySmall
<1>3. v \in Nat /\ Word(v) = v
  BY <1>1, MultiplyFits, WordKeeps
<1>4. m \in Nat /\ Base \in Nat \ {0}
  BY <1>1, MultiplierFits, Powers
<1>5. q \in Nat /\ r \in Nat /\ v = Base * q + r
  <2>1. v = Base * (v \div Base) + (v % Base) /\ v \div Base \in Nat /\ v % Base \in Nat
    <3> HIDE DEF v
    <3> QED
      BY <1>3, <1>4, Z3
  <2> QED
    BY <2>1
<1>6. /\ limbs' = [limbs EXCEPT ![at] = r] /\ carry' = q /\ at' = at + 1
      /\ number' = number /\ factor' = factor /\ step' = step
  BY <1>3 DEF MultiplyLimb
<1> DEFINE l == limbs[at]
<1>7. /\ l \in Nat /\ a \in Nat /\ p \in Nat /\ h \in Int
      /\ Low(limbs, at) = a + l * p /\ Place(at) = Base * p
      /\ Low(limbs, at) \in Nat /\ Low(limbs, Len(limbs)) \in Nat
  BY <1>1, <1>2, LowAt
<1>8. (a + carry * p) + m * (Low(limbs, Len(limbs)) - a) = T
  BY <1>1 DEF Exact, MultiplyValue
<1>9. l * m + carry = Base * q + r
  BY <1>5
<1>13. T' = T /\ m' = m
  BY <1>6 DEF Total, Multiplier
<1>14. /\ Len(limbs') = Len(limbs)
       /\ Low(limbs', at) = a + r * p
       /\ Low(limbs', Len(limbs)) - Low(limbs', at) = h
  <2> HIDE DEF r
  <2> QED
    BY <1>2, <1>5, <1>6, LowReplaced
<1> HIDE DEF v, a, p, m, h, q, r, l, T
<1>10. Low(limbs, Len(limbs)) - a = l * p + h
  <2>1. l * p \in Nat
    BY <1>7, TimesNat
  <2> QED
    BY <1>7, <2>1 DEF h
<1>11. ((a + r * p) + q * (Base * p)) + m * h = T
  <2>1. ((a + r * p) + q * (Base * p)) + m * h = (a + carry * p) + m * (l * p + h)
    BY <1>2, <1>4, <1>5, <1>7, <1>9, MultiplyTurn
  <2> QED
    BY <1>8, <1>10, <2>1
<1>15. at' - 1 = at /\ Place(at' - 1) = Base * p
  BY <1>2, <1>6, <1>7
<1>16. (Low(limbs', at' - 1) + carry' * Place(at' - 1))
           + Multiplier' * (Low(limbs', Len(limbs')) - Low(limbs', at' - 1)) = T'
  <2>1. Low(limbs', at' - 1) = a + r * p
    BY <1>14, <1>15
  <2>2. Low(limbs', Len(limbs')) - Low(limbs', at' - 1) = h
    BY <1>14, <1>15
  <2>3. carry' * Place(at' - 1) = q * (Base * p)
    BY <1>6, <1>15
  <2>4. Multiplier' = m
    BY <1>13 DEF m
  <2> QED
    BY <1>11, <1>13, <2>1, <2>2, <2>3, <2>4
<1>17. MultiplyValue'
  BY <1>16 DEF MultiplyValue, T
<1>18. Nonzero'
  BY <1>1, <1>6 DEF Exact, Nonzero
<1> QED
  BY <1>1, <1>6, <1>17, <1>18 DEF Exact, GatherValue, DivideValue, PackValue, ProductExact

\* Past the last limb only the carry is left to add.
LEMMA MultipliedValue ==
    ASSUME Typed, MultiplySmall, MultiplyValue, step \in {"scale", "raise"}, at > Len(limbs)
    PROVE  /\ at - 1 = Len(limbs) /\ Low(limbs, Len(limbs)) \in Nat
           /\ Low(limbs, Len(limbs)) + carry * Place(Len(limbs)) =
                  IF step = "scale" THEN Total ELSE Total * Ten(number.exp)
<1> DEFINE a == Low(limbs, Len(limbs))
           c == carry * Place(Len(limbs))
           T == IF step = "scale" THEN Total ELSE Total * Ten(number.exp)
<1>1. at - 1 = Len(limbs) /\ Len(limbs) \in Nat /\ limbs \in Seq(Nat) /\ carry \in Nat
  BY StateTyped DEF MultiplySmall
<1>2. a \in Nat
  <2>1. Len(limbs) \in 0 .. Len(limbs)
    BY <1>1
  <2> QED
    BY <1>1, <2>1, LowTurns
<1>3. c \in Nat
  BY <1>1, PlaceTurns, TimesNat
<1>4. (Low(limbs, at - 1) + carry * Place(at - 1))
          + Multiplier * (Low(limbs, Len(limbs)) - Low(limbs, at - 1)) = T
  BY DEF MultiplyValue
<1>5. (a + c) + Multiplier * (a - a) = T
  BY <1>1, <1>4
<1>6. Multiplier \in Nat
  BY MultiplierFits
<1> HIDE DEF a, c, T
<1>7. a + c = T
  BY <1>2, <1>3, <1>5, <1>6
<1> QED
  BY <1>1, <1>2, <1>7 DEF a, c, T

\* What is left of the carry goes one place higher.
LEMMA PushCarryExact ==
    ASSUME IInv, Exact, PushCarry PROVE Exact'
<1> DEFINE q == carry \div Base
           r == carry % Base
           T == IF step = "scale" THEN Total ELSE Total * Ten(number.exp)
           p == Place(Len(limbs))
           a == Low(limbs, Len(limbs))
<1>1. /\ Typed /\ MultiplySmall /\ MultiplyValue
      /\ step \in {"scale", "raise"} /\ at > Len(limbs)
  BY DEF IInv, Exact, PushCarry
<1>2. at - 1 = Len(limbs) /\ a \in Nat /\ a + carry * p = T
  BY <1>1, MultipliedValue
<1>3. limbs \in Seq(Nat) /\ carry \in Nat /\ Len(limbs) \in Nat /\ Base \in Nat \ {0} /\ at \in Nat
  BY <1>1, StateTyped, Powers
<1>4. q \in Nat /\ r \in Nat /\ carry = Base * q + r
  BY <1>3, Z3
<1>5. /\ limbs' = Append(limbs, r) /\ carry' = q /\ at' = at + 1
      /\ number' = number /\ factor' = factor /\ step' = step
  BY DEF PushCarry
<1>6. p \in Nat /\ Place(Len(limbs) + 1) = Base * p
  BY <1>3, PlaceTurns
<1>7. Len(limbs') = Len(limbs) + 1 /\ limbs' \in Seq(Nat) /\ Low(limbs', Len(limbs')) = a + r * p
  <2> HIDE DEF r
  <2> QED
    BY <1>3, <1>4, <1>5, LowAppended
<1>8. at' - 1 = Len(limbs')
  BY <1>2, <1>3, <1>5, <1>7
<1>9. T' = T /\ Multiplier' = Multiplier
  BY <1>5 DEF Total, Multiplier
<1>10. Multiplier \in Nat
  BY <1>1, MultiplierFits
<1> HIDE DEF q, r, T, p, a
<1> DEFINE x == a + r * p
<1>11. x \in Nat /\ x + q * (Base * p) = T
  <2>1. carry * p = (Base * q + r) * p /\ (Base * q + r) * p = q * (Base * p) + r * p
    BY <1>3, <1>4, <1>6, Z3
  <2>2. q * (Base * p) \in Nat /\ r * p \in Nat /\ carry * p \in Nat
    BY <1>3, <1>4, <1>6, Z3
  <2> QED
    BY <1>2, <2>1, <2>2
<1> HIDE DEF x
<1>12. (x + q * (Base * p)) + Multiplier * (x - x) = T
  <2>1. q * (Base * p) \in Nat
    BY <1>3, <1>4, <1>6, Z3
  <2>2. Multiplier * (x - x) = 0
    BY <1>10, <1>11
  <2> QED
    BY <1>11, <2>1, <2>2
<1>13. (Low(limbs', at' - 1) + carry' * Place(at' - 1))
           + Multiplier' * (Low(limbs', Len(limbs')) - Low(limbs', at' - 1)) = T'
  <2>1. Low(limbs', Len(limbs')) = x
    BY <1>7 DEF x
  <2>2. Place(Len(limbs')) = Base * p
    BY <1>6, <1>7
  <2> QED
    BY <1>5, <1>8, <1>9, <1>12, <2>1, <2>2
<1>14. MultiplyValue'
  BY <1>13 DEF MultiplyValue, T
<1>15. Nonzero'
  BY <1>1, <1>5 DEF Exact, Nonzero
<1> QED
  BY <1>1, <1>5, <1>14, <1>15 DEF Exact, GatherValue, DivideValue, PackValue, ProductExact

\* A power of ten is one of whole limbs and one below the base.
LEMMA ExponentSplit ==
    ASSUME NEW e \in Nat
    PROVE  /\ e \div LimbDigits \in Nat
           /\ Power[e % LimbDigits] \in Nat \ {0}
           /\ Place(e \div LimbDigits) \in Nat \ {0}
           /\ Ten(e) = Place(e \div LimbDigits) * Power[e % LimbDigits]
<1> DEFINE q == e \div LimbDigits
           r == e % LimbDigits
<1>1. q \in Nat /\ r \in 0 .. LimbDigits - 1 /\ e = LimbDigits * q + r /\ LimbDigits * q \in Nat
  BY Powers, Z3
<1> HIDE DEF q, r
<1>2. r \in Nat /\ r \in 0 .. LimbDigits
  BY <1>1, Powers
<1>3. Power[r] = Ten(r) /\ Ten(r) \in Nat \ {0}
  BY <1>2, PowerIsTen, TenTurns
<1>4. Place(q) \in Nat \ {0}
  BY <1>1, PlaceTurns
<1>5. Ten(LimbDigits * q + r) = Ten(LimbDigits * q) * Ten(r)
  BY <1>1, <1>2, TenSum
<1>6. Ten(e) = Place(q) * Power[r]
  BY <1>1, <1>3, <1>5 DEF Place
<1> QED
  BY <1>1, <1>3, <1>4, <1>6 DEF q, r

\* mul_pow10 starts with the limbs whole places higher.
LEMMA RaiseExact ==
    ASSUME IInv, Exact, Raise PROVE Exact'
<1> DEFINE q == number.exp \div LimbDigits
           w == Low(limbs', Len(limbs'))
<1>1. /\ Typed /\ MultiplySmall /\ MultiplyValue /\ step = "scale"
      /\ step \in {"scale", "raise"} /\ at > Len(limbs) /\ carry = 0
  BY DEF IInv, Exact, Raise
<1>2. number.exp \in Nat /\ limbs \in Seq(Nat) /\ Len(limbs) \in Nat /\ Total \in Nat
  BY <1>1, StateTyped DEF Raise
<1>3. Low(limbs, Len(limbs)) = Total
  <2>1. Low(limbs, Len(limbs)) \in Nat /\ Low(limbs, Len(limbs)) + carry * Place(Len(limbs)) = Total
    BY <1>1, MultipliedValue
  <2>2. carry * Place(Len(limbs)) = 0
    BY <1>1, <1>2, PlaceTurns
  <2> QED
    BY <2>1, <2>2
<1>4. /\ q \in Nat /\ Power[number.exp % LimbDigits] \in Nat /\ Place(q) \in Nat
      /\ Ten(number.exp) = Place(q) * Power[number.exp % LimbDigits]
  BY <1>2, ExponentSplit
<1>5. /\ limbs' = Zeros(q) \o limbs /\ step' = "raise" /\ at' = 1 /\ carry' = 0
      /\ number' = number /\ factor' = factor
  BY <1>1 DEF Raise
<1> HIDE DEF q
<1>6. limbs' \in Seq(Nat) /\ w = Place(q) * Total
  BY <1>2, <1>3, <1>4, <1>5, LowRaised
<1>7. Low(limbs', 0) = 0 /\ Place(0) = 1 /\ at' - 1 = 0
  <2>1. Low(limbs', 0) = 0
    BY <1>6, LowTurns
  <2>2. Place(0) = 1
    BY PlaceTurns
  <2>3. at' - 1 = 0
    BY <1>5
  <2> QED
    BY <2>1, <2>2, <2>3
<1> DEFINE m == Power[number.exp % LimbDigits]
<1>8. Multiplier' = m /\ Total' = Total
  BY <1>5 DEF Multiplier, Total
<1> HIDE DEF w, m
<1>9. (0 + 0 * 1) + m * (w - 0) = Total * Ten(number.exp)
  <2>1. m \in Nat /\ Place(q) \in Nat /\ Ten(number.exp) = Place(q) * m
    BY <1>4 DEF m
  <2> DEFINE p == Place(q)
             t == Total
  <2>2. p \in Nat /\ t \in Nat /\ w = p * t /\ Ten(number.exp) = p * m
    BY <1>2, <1>6, <2>1
  <2> HIDE DEF p, t
  <2>3. m * (p * t) = t * (p * m) /\ p * t \in Nat /\ m * (p * t) \in Nat
    BY <2>1, <2>2, Z3
  <2>4. w - 0 = w /\ 0 + 0 * 1 = 0
    BY <2>2, <2>3
  <2>5. 0 + m * w = t * (p * m)
    BY <2>2, <2>3
  <2> QED
    BY <2>2, <2>4, <2>5 DEF t
<1>10. (Low(limbs', at' - 1) + carry' * Place(at' - 1))
           + Multiplier' * (Low(limbs', Len(limbs')) - Low(limbs', at' - 1)) = Total' * Ten(number'.exp)
  BY <1>5, <1>7, <1>8, <1>9 DEF w
<1>11. MultiplyValue'
  BY <1>5, <1>10 DEF MultiplyValue
<1>12. Nonzero'
  BY <1>1, <1>5 DEF Exact, Nonzero
<1> QED
  BY <1>5, <1>11, <1>12 DEF Exact, GatherValue, DivideValue, PackValue, ProductExact

\* div_pow10_trunc starts without the limbs below the power's whole places.
LEMMA DropExact ==
    ASSUME IInv, Exact, Drop PROVE Exact'
<1> DEFINE e == -number.exp
           w == e \div LimbDigits
           p == Place(w)
<1>1. /\ Typed /\ MultiplySmall /\ MultiplyValue /\ step = "scale"
      /\ step \in {"scale", "raise"} /\ at > Len(limbs) /\ carry = 0
  BY DEF IInv, Exact, Drop
<1>2. /\ e \in Nat /\ ~(number.exp >= 0) /\ limbs \in Seq(Nat) /\ limbs \in Seq(0 .. Base - 1)
      /\ Len(limbs) \in Nat /\ Total \in Nat
  BY <1>1, StateTyped DEF Drop
<1>3. Low(limbs, Len(limbs)) = Total
  <2>1. Low(limbs, Len(limbs)) \in Nat /\ Low(limbs, Len(limbs)) + carry * Place(Len(limbs)) = Total
    BY <1>1, MultipliedValue
  <2>2. carry * Place(Len(limbs)) = 0
    BY <1>1, <1>2, PlaceTurns
  <2> QED
    BY <2>1, <2>2
<1>4. w \in Nat /\ p \in Nat \ {0} /\ Power[e % LimbDigits] \in Nat \ {0} /\ Ten(e) = p * Power[e % LimbDigits]
  BY <1>2, ExponentSplit
<1>5. carry' = 0 /\ number' = number /\ factor' = factor
  BY <1>1 DEF Drop
<1>6. Total' = Total
  BY <1>5 DEF Total
<1>7. Nonzero'
  BY <1>1, <1>5 DEF Exact, Nonzero
<1>8. CASE w >= Len(limbs)
  <2>1. limbs' = <<>> /\ step' = "pack" /\ at' = 0
    BY <1>8 DEF Drop
  <2>2. Total < Ten(e)
    <3>1. Total < Place(Len(limbs))
      <4>1. Len(limbs) \in 0 .. Len(limbs)
        BY <1>2
      <4> QED
        BY <1>2, <1>3, <4>1, LowBelow
    <3>2. Place(Len(limbs)) <= p
      <4>1. LimbDigits * Len(limbs) <= LimbDigits * w /\ LimbDigits * Len(limbs) \in Nat /\ LimbDigits * w \in Nat
        <5> DEFINE l == Len(limbs)
        <5>1. l \in Nat /\ w \in Nat /\ l <= w /\ LimbDigits \in Nat
          BY <1>2, <1>4, <1>8, Powers
        <5> HIDE DEF w, l
        <5>2. LimbDigits * l <= LimbDigits * w
          BY <5>1, TimesGrows
        <5>3. LimbDigits * l \in Nat /\ LimbDigits * w \in Nat
          BY <5>1, TimesNat
        <5> QED
          BY <5>2, <5>3 DEF l
      <4> QED
        BY <4>1, TenGrows DEF Place
    <3>3. p * 1 <= p * Power[e % LimbDigits]
      <4> DEFINE x == Power[e % LimbDigits]
      <4>1. x \in Nat /\ 1 <= x /\ p \in Nat
        BY <1>4
      <4> HIDE DEF x, p
      <4> QED
        BY <4>1, TimesGrows DEF x
    <3>4. Ten(e) \in Nat /\ Place(Len(limbs)) \in Nat /\ p \in Nat
      BY <1>2, <1>4, TenTurns, PlaceTurns
    <3> HIDE DEF p, e
    <3>5. p <= Ten(e)
      BY <1>4, <3>3, <3>4
    <3> QED
      BY <1>2, <3>1, <3>2, <3>4, <3>5
  <2>3. Low(limbs', at') = 0 /\ Place(at') = 1
    <3>1. <<>> \in Seq(Nat)
      OBVIOUS
    <3> QED
      BY <2>1, <3>1, LowTurns, PlaceTurns
  <2>4. carry' * Place(at') + Low(limbs', at') = 0
    BY <1>5, <2>3
  <2>5. 0 * Ten(e) <= Total /\ Total < (0 + 1) * Ten(e)
    <3>1. Ten(e) \in Nat
      BY <1>2, TenTurns
    <3> HIDE DEF e
    <3> QED
      BY <1>2, <2>2, <3>1
  <2>6. Truncated(Total, number.exp, 0)
    BY <1>2, <2>5 DEF Truncated
  <2>7. PackValue'
    BY <1>5, <1>6, <2>4, <2>6, WordAssumption DEF PackValue
  <2> QED
    BY <1>7, <2>1, <2>7 DEF Exact, GatherValue, MultiplyValue, DivideValue, ProductExact
<1>9. CASE ~(w >= Len(limbs))
  <2>1. limbs' = SubSeq(limbs, w + 1, Len(limbs)) /\ step' = "divide" /\ at' = Len(limbs) - w
    BY <1>9 DEF Drop
  <2>2. w < Len(limbs)
    BY <1>2, <1>4, <1>9
  <2> DEFINE n == Low(limbs', Len(limbs'))
             a == Low(limbs, w)
  <2>3. limbs' \in Seq(Nat) /\ Len(limbs') = Len(limbs) - w /\ Low(limbs, Len(limbs)) = a + p * n
    <3> HIDE DEF w
    <3> QED
      BY <1>2, <1>4, <2>1, <2>2, LowDropped
  <2>4. a \in Nat /\ a < p
    <3>1. w \in 0 .. Len(limbs)
      BY <1>2, <1>4, <2>2
    <3> QED
      BY <1>2, <3>1, LowTurns, LowBelow
  <2>5. n \in Nat /\ at' = Len(limbs')
    <3>1. Len(limbs') \in 0 .. Len(limbs')
      BY <2>3
    <3> QED
      BY <2>1, <2>3, <3>1, LowTurns
  <2>6. Divisor' = Power[e % LimbDigits]
    BY <1>5 DEF Divisor
  <2>7. Undivided' = n
    <3>1. carry' * Place(at') = 0
      <4>1. at' \in Nat
        BY <2>3, <2>5
      <4> QED
        BY <1>5, <4>1, PlaceTurns
    <3> DEFINE x == Power[e % LimbDigits]
    <3>2. Undivided' = (0 + n) + x * (n - n)
      BY <2>5, <2>6, <3>1 DEF Undivided
    <3>3. x \in Nat /\ n \in Nat
      BY <1>4, <2>5
    <3> HIDE DEF n, x
    <3>4. (0 + n) + x * (n - n) = n
      BY <3>3
    <3> QED
      BY <3>2, <3>4
  <2> DEFINE d == Place((-number'.exp) \div LimbDigits)
  <2>8. d = p
    BY <1>5
  <2>9. n * p <= Total /\ Total < (n + 1) * p
    <3> HIDE DEF n, p, a
    <3>1. p * n = n * p /\ (n + 1) * p = n * p + p /\ n * p \in Nat
      BY <1>4, <2>5, Z3
    <3> QED
      BY <1>2, <1>3, <1>4, <2>3, <2>4, <3>1
  <2>10. Undivided' * d <= Total' /\ Total' < (Undivided' + 1) * d
    BY <1>6, <2>7, <2>8, <2>9
  <2>11. DivideValue'
    BY <2>10 DEF DivideValue
  <2> QED
    BY <1>7, <2>1, <2>11 DEF Exact, GatherValue, MultiplyValue, PackValue, ProductExact
<1> QED
  BY <1>8, <1>9

\* A turn of the division: the carry c and the limb l become a limb q and a
\* carry r; a is below the limb, h above it.
LEMMA DivideTurn ==
    ASSUME NEW a \in Nat, NEW c \in Nat, NEW p \in Nat, NEW d \in Nat, NEW l \in Nat,
           NEW h \in Int, NEW b \in Nat, NEW q \in Nat, NEW r \in Nat, c * b + l = d * q + r
    PROVE  (r * p + a) + d * (q * p + h) = (c * (b * p) + (a + l * p)) + d * h
<1>1. d * (q * p + h) = (d * q) * p + d * h
  BY Z3
<1>2. (d * q + r) * p = (d * q) * p + r * p
  BY Z3
<1>3. (c * b + l) * p = c * (b * p) + l * p
  BY Z3
<1>4. (d * q) * p \in Nat /\ c * (b * p) \in Nat /\ d * h \in Int /\ l * p \in Nat /\ r * p \in Nat
  BY Z3
<1>5. c * (b * p) + l * p = (d * q) * p + r * p
  BY <1>2, <1>3
<1> QED
  BY <1>1, <1>4, <1>5

\* A turn of the division.
LEMMA DivideLimbExact ==
    ASSUME IInv, Exact, DivideLimb PROVE Exact'
<1> DEFINE v == carry * Base + limbs[at]
           a == Low(limbs, at - 1)
           p == Place(at - 1)
           d == Divisor
           h == Low(limbs, Len(limbs)) - Low(limbs, at)
           q == v \div Divisor
           r == v % Divisor
           l == limbs[at]
<1>1. Typed /\ DivideSmall /\ step = "divide" /\ at > 0
  BY DEF IInv, DivideLimb
<1>2. at \in 1 .. Len(limbs) /\ limbs \in Seq(Nat) /\ carry \in Nat /\ Len(limbs) \in Nat
  <2>1. at \in 0 .. Len(limbs)
    BY <1>1 DEF DivideSmall
  <2> QED
    BY <1>1, <2>1, StateTyped
<1>3. v \in Nat /\ Word(v) = v
  BY <1>1, DivideFits, WordKeeps
<1>4. d \in Nat \ {0} /\ Base \in Nat \ {0}
  BY <1>1, DivisorFits, Powers
<1>5. q \in Nat /\ r \in Nat /\ v = d * q + r
  <2> HIDE DEF v
  <2> QED
    BY <1>3, <1>4, Z3
<1>6. /\ limbs' = [limbs EXCEPT ![at] = q] /\ carry' = r /\ at' = at - 1
      /\ number' = number /\ factor' = factor /\ step' = step
  BY <1>3 DEF DivideLimb
<1>7. /\ l \in Nat /\ a \in Nat /\ p \in Nat /\ h \in Int
      /\ Low(limbs, at) = a + l * p /\ Place(at) = Base * p
  BY <1>1, <1>2, LowAt
<1>8. /\ Len(limbs') = Len(limbs) /\ Low(limbs', at - 1) = a
      /\ Low(limbs', at) = a + q * p
      /\ Low(limbs', Len(limbs)) - Low(limbs', at) = h
      /\ limbs' \in Seq(Nat)
  <2> HIDE DEF q
  <2> QED
    BY <1>2, <1>5, <1>6, LowReplaced
<1>9. Low(limbs', Len(limbs)) \in Nat
  <2>1. Len(limbs) \in 0 .. Len(limbs')
    BY <1>2, <1>8
  <2> QED
    BY <1>8, <2>1, LowTurns
<1>10. carry * Base + l = d * q + r
  BY <1>5
<1>11. Divisor' = d /\ Total' = Total
  BY <1>6 DEF Divisor, Total
<1>12. Undivided = (carry * (Base * p) + (a + l * p)) + d * h
  BY <1>7 DEF Undivided
<1> HIDE DEF v, a, p, d, h, q, r, l
<1>13. Low(limbs', Len(limbs')) - Low(limbs', at') = q * p + h
  <2>1. q * p \in Nat
    BY <1>5, <1>7, TimesNat
  <2> QED
    BY <1>6, <1>7, <1>8, <1>9, <2>1
<1>14. Undivided' = (r * p + a) + d * (q * p + h)
  <2>1. Low(limbs', at') = a /\ carry' * Place(at') = r * p
    BY <1>6, <1>8 DEF p
  <2> QED
    BY <1>11, <1>13, <2>1 DEF Undivided
<1>15. Undivided' = Undivided
  BY <1>2, <1>4, <1>5, <1>7, <1>10, <1>12, <1>14, DivideTurn
<1>16. DivideValue'
  BY <1>1, <1>6, <1>11, <1>15 DEF Exact, DivideValue
<1>17. Nonzero'
  BY <1>1, <1>6 DEF Exact, Nonzero
<1> QED
  BY <1>1, <1>6, <1>16, <1>17 DEF Exact, GatherValue, MultiplyValue, PackValue, ProductExact

\* Dropping the lowest limbs and dividing the others is dividing.
LEMMA DividedTwice ==
    ASSUME NEW t \in Nat, NEW u \in Nat, NEW p \in Nat \ {0}, NEW d \in Nat \ {0},
           NEW r \in Nat, NEW c \in 0 .. d - 1,
           u = c + d * r, u * p <= t, t < (u + 1) * p
    PROVE  r * (p * d) <= t /\ t < (r + 1) * (p * d)
<1>1. r * (p * d) = (d * r) * p /\ (r + 1) * (p * d) = (d * r + d) * p
  BY Z3
<1>2. d * r \in Nat /\ d * r <= u /\ u + 1 <= d * r + d
  BY Z3
<1>3. p * (d * r) <= p * u /\ p * (u + 1) <= p * (d * r + d)
  BY <1>2, TimesGrows
<1>4. /\ p * (d * r) = (d * r) * p /\ p * u = u * p /\ p * (u + 1) = (u + 1) * p
      /\ p * (d * r + d) = (d * r + d) * p
  BY <1>2, Z3
<1>5. (d * r) * p \in Nat /\ u * p \in Nat /\ (u + 1) * p \in Nat /\ (d * r + d) * p \in Nat
  BY <1>2, Z3
<1>6. (d * r) * p <= t /\ t < (d * r + d) * p
  BY <1>3, <1>4, <1>5
<1> QED
  BY <1>1, <1>6

\* After the last loop the limbs are the truncated product.
LEMMA PackExact ==
    ASSUME IInv, Exact, Pack PROVE Exact'
<1> DEFINE r == Low(limbs, Len(limbs))
<1>1. /\ Typed /\ step' = "pack" /\ at' = Len(limbs) /\ carry' = 0
      /\ limbs' = limbs /\ number' = number /\ factor' = factor
  BY DEF IInv, Pack
<1>2. limbs \in Seq(Nat) /\ Len(limbs) \in Nat /\ Total \in Nat /\ carry \in Nat /\ number.exp \in Int
  BY <1>1, StateTyped
<1>3. r \in Nat
  <2>1. Len(limbs) \in 0 .. Len(limbs)
    BY <1>2
  <2> QED
    BY <1>2, <2>1, LowTurns
<1>4. Truncated(Total, number.exp, r)
  <2>1. CASE step = "raise" /\ at > Len(limbs) /\ carry = 0
    <3>1. MultiplySmall /\ MultiplyValue /\ step \in {"scale", "raise"} /\ number.exp >= 0
      BY <2>1 DEF IInv, Exact, MultiplySmall
    <3>2. r + carry * Place(Len(limbs)) = Total * Ten(number.exp)
      BY <1>1, <2>1, <3>1, MultipliedValue
    <3>3. carry * Place(Len(limbs)) = 0
      BY <1>2, <2>1, PlaceTurns
    <3> HIDE DEF r
    <3>4. r = Total * Ten(number.exp)
      BY <1>3, <3>2, <3>3
    <3> QED
      BY <3>1, <3>4 DEF Truncated
  <2>2. CASE step = "divide" /\ at = 0
    <3> DEFINE e == -number.exp
               p == Place(e \div LimbDigits)
               d == Power[e % LimbDigits]
    <3>1. DivideSmall /\ number.exp < 0 /\ carry < Divisor
      BY <2>2 DEF IInv, DivideSmall
    <3>2. e \in Nat /\ ~(number.exp >= 0)
      BY <1>2, <3>1
    <3>3. p \in Nat \ {0} /\ d \in Nat \ {0} /\ Ten(e) = p * d
      BY <3>2, ExponentSplit
    <3>4. Divisor = d
      BY DEF Divisor
    <3>5. Undivided * p <= Total /\ Total < (Undivided + 1) * p
      BY <2>2 DEF Exact, DivideValue
    <3>6. Low(limbs, 0) = 0 /\ Place(0) = 1
      BY <1>2, LowTurns, PlaceTurns
    <3>7. Undivided = (carry * 1 + 0) + d * (r - 0)
      BY <2>2, <3>4, <3>6 DEF Undivided
    <3> HIDE DEF r, p, d
    <3>8. Undivided = carry + d * r /\ d * r \in Nat
      <4>1. d * r \in Nat
        BY <1>3, <3>3, TimesNat
      <4>2. r - 0 = r /\ carry * 1 + 0 = carry
        BY <1>2, <1>3
      <4> QED
        BY <3>7, <4>1, <4>2
    <3>9. carry \in 0 .. d - 1 /\ Undivided \in Nat
      BY <1>2, <3>1, <3>3, <3>4, <3>8
    <3>10. r * (p * d) <= Total /\ Total < (r + 1) * (p * d)
      BY <1>2, <1>3, <3>3, <3>5, <3>8, <3>9, DividedTwice
    <3> QED
      BY <3>2, <3>3, <3>10 DEF Truncated
  <2> QED
    BY <2>1, <2>2 DEF Pack
<1>5. carry' * Place(at') + Low(limbs', at') = r
  <2>1. carry' * Place(at') = 0
    BY <1>1, <1>2, PlaceTurns
  <2> QED
    BY <1>1, <1>3, <2>1
<1>6. Total' = Total
  BY <1>1 DEF Total
<1>7. PackValue'
  BY <1>1, <1>4, <1>5, <1>6, WordAssumption DEF PackValue
<1>8. Nonzero'
  BY <1>1 DEF Exact, Nonzero, Pack
<1> QED
  BY <1>1, <1>7, <1>8 DEF Exact, GatherValue, MultiplyValue, DivideValue, ProductExact

\* The reference, in the terms of the state.
LEMMA ExactlyTotal ==
    ASSUME Typed, ~IsZero(number), factor # 0, NEW r \in Nat, Truncated(Total, number.exp, r)
    PROVE  Exactly([mantissa |-> Mantissa(number.digits), exp |-> number.exp], factor)
               = IF r > MaxWord THEN None ELSE Some(r)
<1>1. number \in Numbers /\ factor \in Nat \ {0} /\ number.exp \in Int
  BY StateTyped DEF Typed
<1>2. Mantissa(number.digits) \in Nat /\ Mantissa(number.digits) * factor \in Nat \ {0}
  BY <1>1, MantissaGrows
<1> QED
  BY <1>1, <1>2, ExactlyTruncated DEF Total

\* A limb packed is a limb less to pack, unless the word is full.
LEMMA PackLimbExact ==
    ASSUME IInv, Exact, PackLimb PROVE Exact'
<1> DEFINE v == carry * Base + limbs[at]
           a == Low(limbs, at - 1)
           p == Place(at - 1)
           l == limbs[at]
<1>1. /\ Typed /\ step = "pack" /\ at > 0
      /\ limbs' = limbs /\ number' = number /\ factor' = factor
  BY DEF IInv, PackLimb
<1>2. at \in 1 .. Len(limbs) /\ limbs \in Seq(Nat) /\ carry \in Nat /\ Len(limbs) \in Nat
  <2>1. at \in 0 .. Len(limbs)
    BY <1>1 DEF IInv, PackSmall
  <2> QED
    BY <1>1, <2>1, StateTyped
<1>3. Base \in Nat /\ MaxWord \in Nat
  BY Powers
<1>4. /\ l \in Nat /\ a \in Nat /\ p \in Nat
      /\ Low(limbs, at) = a + l * p /\ Place(at) = Base * p
  BY <1>1, <1>2, LowAt
<1>5. p \in Nat \ {0}
  <2>1. at - 1 \in Nat
    BY <1>2
  <2> QED
    BY <2>1, PlaceTurns
<1>6. carry <= MaxWord /\ Truncated(Total, number.exp, carry * Place(at) + Low(limbs, at))
  BY <1>1 DEF Exact, PackValue
<1>7. v \in Nat
  <2>1. carry * Base \in Nat
    BY <1>2, <1>3, TimesNat
  <2> QED
    BY <1>4, <2>1
<1>8. carry * Place(at) + Low(limbs, at) = v * p + a /\ v * p \in Nat /\ v <= v * p
  <2>1. (carry * Base + l) * p = carry * (Base * p) + l * p
    <3> HIDE DEF l, p
    <3> QED
      BY <1>2, <1>3, <1>4, Z3
  <2>2. carry * (Base * p) \in Nat /\ l * p \in Nat
    <3> HIDE DEF l, p
    <3> QED
      BY <1>2, <1>3, <1>4, Z3
  <2>3. v * p = carry * (Base * p) + l * p
    BY <2>1
  <2>4. v * p \in Nat /\ v <= v * p
    <3> HIDE DEF v, p
    <3>1. v * 1 <= v * p
      BY <1>5, <1>7, TimesGrows
    <3> QED
      BY <1>4, <1>7, <3>1, TimesNat
  <2>5. carry * Place(at) + Low(limbs, at) = carry * (Base * p) + (a + l * p)
    BY <1>4
  <2> HIDE DEF v, p, a, l
  <2> QED
    BY <1>4, <2>2, <2>3, <2>4, <2>5
<1>9. ~IsZero(number) /\ factor # 0
  BY <1>1 DEF Exact, Nonzero
<1>10. Total' = Total
  BY <1>1 DEF Total
<1>11. CASE v > MaxWord
  <2>1. step' = "done" /\ product' = None
    BY <1>11 DEF PackLimb
  <2> DEFINE r == v * p + a
  <2>2. r \in Nat /\ r > MaxWord
    <3> HIDE DEF v, p, a
    <3> QED
      BY <1>3, <1>4, <1>7, <1>8, <1>11
  <2>3. Truncated(Total, number.exp, r)
    BY <1>6, <1>8
  <2> HIDE DEF r
  <2>4. Exactly([mantissa |-> Mantissa(number.digits), exp |-> number.exp], factor) = None
    BY <1>1, <1>9, <2>2, <2>3, ExactlyTotal
  <2>5. ProductExact'
    BY <1>1, <2>1, <2>4 DEF ProductExact
  <2> QED
    BY <2>1, <2>5 DEF Exact, Nonzero, GatherValue, MultiplyValue, DivideValue, PackValue
<1>12. CASE ~(v > MaxWord)
  <2>1. carry' = v /\ at' = at - 1 /\ step' = "pack"
    BY <1>1, <1>12 DEF PackLimb
  <2>2. v <= MaxWord
    <3> HIDE DEF v
    <3> QED
      BY <1>3, <1>7, <1>12
  <2>3. carry' * Place(at') + Low(limbs', at') = v * p + a
    BY <1>1, <2>1
  <2>4. PackValue'
    BY <1>1, <1>6, <1>8, <1>10, <2>1, <2>2, <2>3 DEF PackValue
  <2> QED
    BY <1>1, <1>9, <2>1, <2>4 DEF Exact, Nonzero, GatherValue, MultiplyValue, DivideValue, ProductExact
<1> QED
  BY <1>11, <1>12

\* With no limb left the word is the product.
LEMMA PackedExact ==
    ASSUME IInv, Exact, Packed PROVE Exact'
<1>1. /\ Typed /\ step = "pack" /\ at = 0 /\ step' = "done" /\ product' = Some(carry)
      /\ number' = number /\ factor' = factor
  BY DEF IInv, Packed
<1>2. limbs \in Seq(Nat) /\ carry \in Nat
  BY <1>1, StateTyped
<1>3. Low(limbs, 0) = 0 /\ Place(0) = 1
  BY <1>2, LowTurns, PlaceTurns
<1>4. carry <= MaxWord /\ Truncated(Total, number.exp, carry * Place(at) + Low(limbs, at))
  BY <1>1 DEF Exact, PackValue
<1>5. carry * Place(at) + Low(limbs, at) = carry
  BY <1>1, <1>2, <1>3
<1>6. ~IsZero(number) /\ factor # 0
  BY <1>1 DEF Exact, Nonzero
<1>7. Truncated(Total, number.exp, carry)
  BY <1>4, <1>5
<1>8. ~(carry > MaxWord)
  BY <1>2, <1>4, Powers
<1>9. Exactly([mantissa |-> Mantissa(number.digits), exp |-> number.exp], factor) = Some(carry)
  BY <1>1, <1>2, <1>6, <1>7, <1>8, ExactlyTotal
<1>10. ProductExact'
  BY <1>1, <1>9 DEF ProductExact
<1> QED
  BY <1>1, <1>10 DEF Exact, Nonzero, GatherValue, MultiplyValue, DivideValue, PackValue

\* Whatever the digits, the exponent and the factor, the loops over the limbs
\* (decimal.rs:86 to 183) end with the exact product, truncated, or refuse it
\* because no word holds it.
THEOREM ProductsExact == ProductSpec => []ProductExact
<1>1. Idle => IInv /\ Exact
  BY DEF Idle, IInv, Typed, Numbers, NoNumber, IsZero, LimbSeq, GatherSmall, MultiplySmall, DivideSmall, PackSmall,
     Exact, Nonzero, GatherValue, MultiplyValue, DivideValue, PackValue, ProductExact
<1>2. IInv /\ Exact /\ [ProductNext]_decimalVars => (IInv /\ Exact)'
  <2> SUFFICES ASSUME IInv, Exact, [ProductNext]_decimalVars PROVE IInv' /\ Exact'
    OBVIOUS
  <2>1. IInv'
    BY Kept
  <2>2. CASE \E d \in Numbers, f \in Factors : Multiply(d, f)
    BY <2>2, <2>1, MultiplyExact
  <2>3. CASE Compute
    BY <2>3, <2>1, GatherDigitExact, PushLimbExact, MultiplyLimbExact, PushCarryExact, RaiseExact, DropExact,
       DivideLimbExact, PackExact, PackLimbExact, PackedExact DEF Compute
  <2>4. CASE UNCHANGED decimalVars
    <3>1. Total' = Total /\ Undivided' = Undivided /\ Multiplier' = Multiplier /\ Gathered' = Gathered
      BY <2>4 DEF decimalVars, Total, Undivided, Multiplier, Gathered, Divisor
    <3>2. Exact'
      BY <2>4, <3>1 DEF decimalVars, Exact, Nonzero, GatherValue, MultiplyValue, DivideValue, PackValue, ProductExact
    <3> QED
      BY <2>1, <3>2
  <2> QED
    BY <2>1, <2>2, <2>3, <2>4 DEF ProductNext
<1>3. Exact => ProductExact
  BY DEF Exact
<1> QED
  BY <1>1, <1>2, <1>3, PTL DEF ProductSpec
=============================================================================
