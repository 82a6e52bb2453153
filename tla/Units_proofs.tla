---------------------------- MODULE Units_proofs ----------------------------
(***************************************************************************)
(* The readers of scalars answer with what a text is worth, for every      *)
(* text, type and reader, and for every width of a word and of a limb.     *)
(*                                                                         *)
(* The reference (Worth) takes every way to cut a text into a number and a *)
(* unit; the code takes one, from the left or from the right.  So the      *)
(* proof shows first what the searches of the code find (up to AroundTrim) *)
(* and what the characters of a number are worth, whichever digits are     *)
(* stripped and however the exponent saturates (up to NumberIs); then that *)
(* there is one way only to cut what each reader accepts (SplitIs,         *)
(* ShapePeriod, SameCut); then that durations, byte sizes, periods and     *)
(* integers start, or answer, with what that cut is worth.  The last part  *)
(* follows a scalar through its reader: while the loops of Decimal run,    *)
(* the text is worth what their product is (Computes).                     *)
(***************************************************************************)
EXTENDS UnitProperties, Decimal_proofs

(* -------------------------------- texts -------------------------------- *)
\* The letters and the zero are strings, which no prover here knows.
Char == STRING \cup Letter \cup {"0"}
Text == Seq(Char)

\* The least and the largest of a set of numbers up to n.
LEMMA LeastIs ==
    ASSUME NEW n \in Nat, NEW I \in SUBSET (1 .. n), I # {}
    PROVE  Min(I) \in I /\ \A j \in I : Min(I) <= j
<1> DEFINE R == OpToRel(<, Nat)
<1>1. IsWellFoundedOn(R, Nat)
  BY NatLessThanWellFounded
<1>2. \A i, k \in Nat : <<k, i>> \in R <=> k < i
  BY DEF OpToRel
<1> HIDE DEF R
<1>6. I \subseteq Nat /\ I # {}
  OBVIOUS
<1>3. PICK i \in I : \A k \in I : ~(<<k, i>> \in R)
  BY <1>1, <1>6, WFMin
<1>4. \A k \in I : i =< k
  <2>1. ASSUME NEW k \in I PROVE ~(k < i)
    BY <1>2, <1>3, <1>6
  <2> QED
    BY <1>6, <2>1
<1>5. \E x \in I : \A y \in I : x =< y
  BY <1>4
<1> QED
  BY <1>5 DEF Min

LEMMA LargestIs ==
    ASSUME NEW n \in Nat, NEW I \in SUBSET (1 .. n), I # {}
    PROVE  Max(I) \in I /\ \A j \in I : Max(I) >= j
<1> DEFINE J == {i \in 1 .. n : n + 1 - i \in I}
<1>1. J \in SUBSET (1 .. n) /\ J # {}
  <2>1. PICK i \in I : TRUE
    OBVIOUS
  <2>2. n + 1 - i \in 1 .. n /\ n + 1 - (n + 1 - i) = i
    OBVIOUS
  <2> QED
    BY <2>1, <2>2
<1> DEFINE m == Min(J)
<1>2. m \in J /\ \A j \in J : m <= j
  BY <1>1, LeastIs
<1> HIDE DEF m
<1>3. n + 1 - m \in I
  BY <1>2
<1> HIDE DEF J
<1>4. ASSUME NEW j \in I PROVE n + 1 - m >= j
  <2>1. n + 1 - j \in J
    <3>1. n + 1 - j \in 1 .. n /\ n + 1 - (n + 1 - j) = j
      OBVIOUS
    <3> QED
      BY <3>1 DEF J
  <2>2. m <= n + 1 - j /\ m \in 1 .. n
    BY <1>2, <2>1 DEF J
  <2> QED
    BY <2>2
<1>5. \E x \in I : \A y \in I : x >= y
  BY <1>3, <1>4
<1> QED
  BY <1>5 DEF Max

\* The first character in a set, or outside of it, and the last one outside.
LEMMA FindIs ==
    ASSUME NEW s \in Text, NEW S
    PROVE  /\ Find(s, S) \in 0 .. Len(s)
           /\ Find(s, S) = 0 => \A i \in 1 .. Len(s) : s[i] \notin S
           /\ Find(s, S) # 0 => s[Find(s, S)] \in S /\ \A i \in 1 .. Find(s, S) - 1 : s[i] \notin S
<1> DEFINE I == {i \in 1 .. Len(s) : s[i] \in S}
<1>1. Find(s, S) = IF I # {} THEN Min(I) ELSE 0
  BY DEF Find, SelectInSeq
<1>2. Len(s) \in Nat /\ I \in SUBSET (1 .. Len(s))
  BY DEF Text
<1>3. CASE I = {}
  BY <1>1, <1>2, <1>3
<1>4. CASE I # {}
  <2> DEFINE m == Min(I)
  <2>1. m \in I /\ \A j \in I : m <= j
    BY <1>2, <1>4, LeastIs
  <2>2. Find(s, S) = m
    BY <1>1, <1>4
  <2> HIDE DEF m
  <2>3. m \in 1 .. Len(s) /\ s[m] \in S
    BY <2>1
  <2>4. ASSUME NEW i \in 1 .. m - 1 PROVE s[i] \notin S
    BY <1>2, <2>1, <2>3
  <2> QED
    BY <1>2, <2>2, <2>3, <2>4
<1> QED
  BY <1>3, <1>4

LEMMA FirstNotIs ==
    ASSUME NEW s \in Text, NEW S
    PROVE  /\ FirstNot(s, S) \in 0 .. Len(s)
           /\ FirstNot(s, S) = 0 => \A i \in 1 .. Len(s) : s[i] \in S
           /\ FirstNot(s, S) # 0 => s[FirstNot(s, S)] \notin S /\ \A i \in 1 .. FirstNot(s, S) - 1 : s[i] \in S
<1> DEFINE I == {i \in 1 .. Len(s) : s[i] \notin S}
<1>1. FirstNot(s, S) = IF I # {} THEN Min(I) ELSE 0
  BY DEF FirstNot, SelectInSeq
<1>2. Len(s) \in Nat /\ I \in SUBSET (1 .. Len(s))
  BY DEF Text
<1>3. CASE I = {}
  BY <1>1, <1>2, <1>3
<1>4. CASE I # {}
  <2> DEFINE m == Min(I)
  <2>1. m \in I /\ \A j \in I : m <= j
    BY <1>2, <1>4, LeastIs
  <2>2. FirstNot(s, S) = m
    BY <1>1, <1>4
  <2> HIDE DEF m
  <2>3. m \in 1 .. Len(s) /\ s[m] \notin S
    BY <2>1
  <2>4. ASSUME NEW i \in 1 .. m - 1 PROVE s[i] \in S
    BY <1>2, <2>1, <2>3
  <2> QED
    BY <1>2, <2>2, <2>3, <2>4
<1> QED
  BY <1>3, <1>4

LEMMA LastNotIs ==
    ASSUME NEW s \in Text, NEW S
    PROVE  /\ LastNot(s, S) \in 0 .. Len(s)
           /\ LastNot(s, S) # 0 => s[LastNot(s, S)] \notin S
           /\ \A i \in LastNot(s, S) + 1 .. Len(s) : s[i] \in S
<1> DEFINE I == {i \in 1 .. Len(s) : s[i] \notin S}
<1>1. LastNot(s, S) = IF I # {} THEN Max(I) ELSE 0
  BY DEF LastNot, SelectLastInSeq
<1>2. Len(s) \in Nat /\ I \in SUBSET (1 .. Len(s))
  BY DEF Text
<1>3. CASE I = {}
  BY <1>1, <1>2, <1>3
<1>4. CASE I # {}
  <2> DEFINE m == Max(I)
  <2>1. m \in I /\ \A j \in I : m >= j
    BY <1>2, <1>4, LargestIs
  <2>2. LastNot(s, S) = m
    BY <1>1, <1>4
  <2> HIDE DEF m
  <2>3. m \in 1 .. Len(s) /\ s[m] \notin S
    BY <2>1
  <2>4. ASSUME NEW i \in m + 1 .. Len(s) PROVE s[i] \in S
    BY <1>2, <2>1, <2>3
  <2> QED
    BY <1>2, <2>2, <2>3, <2>4
<1> QED
  BY <1>3, <1>4

\* What they are when it is known where to look.
LEMMA FindAt ==
    ASSUME NEW s \in Text, NEW S, NEW k \in 1 .. Len(s), s[k] \in S, \A i \in 1 .. k - 1 : s[i] \notin S
    PROVE  Find(s, S) = k
<1>1. Len(s) \in Nat
  BY DEF Text
<1> DEFINE f == Find(s, S)
<1>2. /\ f \in 0 .. Len(s)
      /\ f = 0 => \A i \in 1 .. Len(s) : s[i] \notin S
      /\ f # 0 => s[f] \in S /\ \A i \in 1 .. f - 1 : s[i] \notin S
  BY FindIs
<1> HIDE DEF f
<1>3. f # 0
  BY <1>2
<1>4. ~(k < f) /\ ~(f < k)
  BY <1>1, <1>2, <1>3
<1>5. f = k
  BY <1>1, <1>2, <1>4
<1> QED
  BY <1>5 DEF f

\* To find the first or the last one outside of a set it is enough that it is that one.
LEMMA FirstNotAt ==
    ASSUME NEW s \in Text, NEW S, NEW k \in 1 .. Len(s), s[k] \notin S, \A i \in 1 .. k - 1 : s[i] \in S
    PROVE  FirstNot(s, S) = k
<1>1. Len(s) \in Nat
  BY DEF Text
<1> DEFINE f == FirstNot(s, S)
<1>2. /\ f \in 0 .. Len(s)
      /\ f = 0 => \A i \in 1 .. Len(s) : s[i] \in S
      /\ f # 0 => s[f] \notin S /\ \A i \in 1 .. f - 1 : s[i] \in S
  BY FirstNotIs
<1> HIDE DEF f
<1>3. f # 0
  BY <1>2
<1>4. ~(k < f) /\ ~(f < k)
  BY <1>1, <1>2, <1>3
<1>5. f = k
  BY <1>1, <1>2, <1>4
<1> QED
  BY <1>5 DEF f

LEMMA LastNotAt ==
    ASSUME NEW s \in Text, NEW S, NEW k \in 1 .. Len(s), s[k] \notin S, \A i \in k + 1 .. Len(s) : s[i] \in S
    PROVE  LastNot(s, S) = k
<1>1. Len(s) \in Nat
  BY DEF Text
<1> DEFINE f == LastNot(s, S)
<1>2. /\ f \in 0 .. Len(s)
      /\ f # 0 => s[f] \notin S
      /\ \A i \in f + 1 .. Len(s) : s[i] \in S
  BY LastNotIs
<1> HIDE DEF f
<1>4. ~(k < f) /\ ~(f < k)
  BY <1>1, <1>2
<1>5. f = k
  BY <1>1, <1>2, <1>4
<1> QED
  BY <1>5 DEF f

\* A search for what is not there finds nothing.
LEMMA FindNone ==
    ASSUME NEW s \in Text, NEW S, \A i \in 1 .. Len(s) : s[i] \notin S
    PROVE  Find(s, S) = 0
<1> DEFINE f == Find(s, S)
<1>2. f \in 0 .. Len(s) /\ (f # 0 => s[f] \in S)
  BY FindIs
<1> HIDE DEF f
<1>3. f = 0
  BY <1>2
<1> QED
  BY <1>3 DEF f

\* A piece of a text.
LEMMA Piece ==
    ASSUME NEW s \in Text, NEW i \in Nat \ {0}, NEW j \in 0 .. Len(s)
    PROVE  /\ SubSeq(s, i, j) \in Text
           /\ Len(SubSeq(s, i, j)) = IF i <= j THEN j - i + 1 ELSE 0
           /\ \A k \in 1 .. Len(SubSeq(s, i, j)) : SubSeq(s, i, j)[k] = s[i + k - 1]
<1>1. Len(s) \in Nat
  BY DEF Text
<1>2. CASE i <= j
  BY <1>1, <1>2 DEF Text
<1>3. CASE ~(i <= j)
  <2>1. SubSeq(s, i, j) = <<>>
    BY <1>1, <1>3 DEF Text
  <2> QED
    BY <1>3, <2>1 DEF Text
<1> QED
  BY <1>2, <1>3

\* Texts with the same characters are the same.
LEMMA SameText ==
    ASSUME NEW s \in Text, NEW t \in Text, Len(s) = Len(t), \A i \in 1 .. Len(s) : s[i] = t[i]
    PROVE  s = t
BY DEF Text

(* -------------------------------- blanks ------------------------------- *)
Trimmed(t) == Len(t) > 0 => t[1] \notin Blank /\ t[Len(t)] \notin Blank

\* s is t with a blanks in front and more blanks behind it.
Around(s, a, t) ==
    /\ t \in Text /\ a \in Nat /\ a + Len(t) <= Len(s)
    /\ \A i \in 1 .. Len(t) : t[i] = s[a + i]
    /\ \A i \in 1 .. a : s[i] \in Blank
    /\ \A i \in a + Len(t) + 1 .. Len(s) : s[i] \in Blank

\* There is one way only to trim a text,
LEMMA AroundOnce ==
    ASSUME NEW s \in Text, NEW a, NEW t, Around(s, a, t), Trimmed(t), NEW b, NEW u, Around(s, b, u), Trimmed(u)
    PROVE  t = u
<1>1. /\ t \in Text /\ u \in Text /\ a \in Nat /\ b \in Nat
      /\ Len(s) \in Nat /\ Len(t) \in Nat /\ Len(u) \in Nat
  BY DEF Around, Text
<1>2. /\ a + Len(t) <= Len(s) /\ b + Len(u) <= Len(s)
      /\ \A i \in 1 .. Len(t) : t[i] = s[a + i]
      /\ \A i \in 1 .. Len(u) : u[i] = s[b + i]
      /\ \A i \in 1 .. a : s[i] \in Blank
      /\ \A i \in a + Len(t) + 1 .. Len(s) : s[i] \in Blank
      /\ \A i \in 1 .. b : s[i] \in Blank
      /\ \A i \in b + Len(u) + 1 .. Len(s) : s[i] \in Blank
  BY DEF Around
<1>3. Len(t) > 0 => s[a + 1] \notin Blank /\ s[a + Len(t)] \notin Blank
  <2>1. SUFFICES ASSUME Len(t) > 0 PROVE s[a + 1] \notin Blank /\ s[a + Len(t)] \notin Blank
    OBVIOUS
  <2>2. 1 \in 1 .. Len(t) /\ Len(t) \in 1 .. Len(t)
    BY <1>1, <2>1
  <2>3. t[1] = s[a + 1] /\ t[Len(t)] = s[a + Len(t)]
    BY <1>2, <2>2
  <2> QED
    BY <2>1, <2>3 DEF Trimmed
<1>4. Len(u) > 0 => s[b + 1] \notin Blank /\ s[b + Len(u)] \notin Blank
  <2>1. SUFFICES ASSUME Len(u) > 0 PROVE s[b + 1] \notin Blank /\ s[b + Len(u)] \notin Blank
    OBVIOUS
  <2>2. 1 \in 1 .. Len(u) /\ Len(u) \in 1 .. Len(u)
    BY <1>1, <2>1
  <2>3. u[1] = s[b + 1] /\ u[Len(u)] = s[b + Len(u)]
    BY <1>2, <2>2
  <2> QED
    BY <2>1, <2>3 DEF Trimmed
<1>5. CASE Len(t) = 0
  <2>1. \A i \in 1 .. Len(s) : s[i] \in Blank
    <3>1. \A i \in 1 .. Len(s) : i \in 1 .. a \/ i \in a + Len(t) + 1 .. Len(s)
      BY <1>1, <1>5
    <3> QED
      BY <1>2, <3>1
  <2>2. Len(u) = 0
    <3>1. SUFFICES ASSUME Len(u) > 0 PROVE FALSE
      BY <1>1
    <3>2. b + 1 \in 1 .. Len(s)
      BY <1>1, <1>2, <3>1
    <3> QED
      BY <1>4, <2>1, <3>1, <3>2
  <2> QED
    BY <1>1, <1>5, <2>2, SameText
<1>6. CASE Len(t) > 0
  <2>1. a + 1 \in 1 .. Len(s) /\ a + Len(t) \in 1 .. Len(s)
    BY <1>1, <1>2, <1>6
  <2>2. Len(u) > 0
    <3>1. SUFFICES ASSUME Len(u) = 0 PROVE FALSE
      BY <1>1
    <3>3. \A i \in 1 .. Len(s) : i \in 1 .. b \/ i \in b + Len(u) + 1 .. Len(s)
      BY <1>1, <3>1
    <3>2. \A i \in 1 .. Len(s) : s[i] \in Blank
      BY <1>2, <3>3
    <3> QED
      BY <1>3, <1>6, <2>1, <3>2
  <2>3. b + 1 \in 1 .. Len(s) /\ b + Len(u) \in 1 .. Len(s)
    BY <1>1, <1>2, <2>2
  <2>4. ~(a + 1 <= b) /\ ~(b + 1 <= a)
    <3>1. a + 1 <= b => a + 1 \in 1 .. b
      BY <1>1
    <3>2. b + 1 <= a => b + 1 \in 1 .. a
      BY <1>1
    <3> QED
      BY <1>2, <1>3, <1>4, <1>6, <2>2, <3>1, <3>2
  <2>5. ~(a + Len(t) < b + Len(u)) /\ ~(b + Len(u) < a + Len(t))
    <3>1. a + Len(t) < b + Len(u) => b + Len(u) \in a + Len(t) + 1 .. Len(s)
      BY <1>1, <2>3
    <3>2. b + Len(u) < a + Len(t) => a + Len(t) \in b + Len(u) + 1 .. Len(s)
      BY <1>1, <2>1
    <3> QED
      BY <1>2, <1>3, <1>4, <1>6, <2>2, <3>1, <3>2
  <2>6. a = b /\ Len(t) = Len(u)
    BY <1>1, <2>4, <2>5
  <2> QED
    BY <1>1, <1>2, <2>6, SameText
<1> QED
  BY <1>1, <1>5, <1>6

\* and Trim does it.
LEMMA TrimIs ==
    ASSUME NEW s \in Text
    PROVE  Trim(s) \in Text /\ Trimmed(Trim(s)) /\ \E a \in Nat : Around(s, a, Trim(s))
<1>1. Len(s) \in Nat /\ DOMAIN s = 1 .. Len(s)
  BY DEF Text
<1>2. CASE AllIn(s, Blank)
  <2>1. TrimStart(s) = <<>>
    BY <1>2 DEF TrimStart
  <2>2. <<>> \in Text /\ Len(<<>>) = 0
    BY DEF Text
  <2>3. LastNot(<<>>, Blank) = 0
    BY <2>2, LastNotIs
  <2>4. SubSeq(<<>>, 1, 0) \in Text /\ Len(SubSeq(<<>>, 1, 0)) = 0
    BY <2>2, Piece
  <2>5. Trim(s) \in Text /\ Len(Trim(s)) = 0
    BY <2>1, <2>3, <2>4 DEF Trim, TrimEnd, UpTo
  <2>6. Around(s, 0, Trim(s)) /\ Trimmed(Trim(s))
    BY <1>1, <1>2, <2>5 DEF Around, Trimmed, AllIn
  <2> QED
    BY <2>5, <2>6
<1>3. CASE ~AllIn(s, Blank)
  <2> DEFINE f == FirstNot(s, Blank)
             r == SubSeq(s, f, Len(s))
             l == LastNot(r, Blank)
             t == SubSeq(r, 1, l)
  <2>1. /\ f \in 0 .. Len(s)
        /\ f = 0 => \A i \in 1 .. Len(s) : s[i] \in Blank
        /\ f # 0 => s[f] \notin Blank /\ \A i \in 1 .. f - 1 : s[i] \in Blank
    BY FirstNotIs
  <2>2. f # 0
    BY <1>1, <1>3, <2>1 DEF AllIn
  <2>3. TrimStart(s) = r /\ Trim(s) = t
    BY <1>3 DEF TrimStart, From, Trim, TrimEnd, UpTo
  <2> HIDE DEF f
  <2>4. r \in Text /\ Len(r) = Len(s) - f + 1 /\ \A k \in 1 .. Len(r) : r[k] = s[f + k - 1]
    <3>1. f \in 1 .. Len(s) + 1 /\ Len(s) \in 0 .. Len(s) /\ f <= Len(s)
      BY <1>1, <2>1, <2>2
    <3> QED
      BY <3>1, Piece
  <2> HIDE DEF r
  <2>5. /\ l \in 0 .. Len(r)
        /\ l # 0 => r[l] \notin Blank
        /\ \A i \in l + 1 .. Len(r) : r[i] \in Blank
    BY <2>4, LastNotIs
  <2> HIDE DEF l
  <2>6. l # 0
    BY <1>1, <2>1, <2>2, <2>4, <2>5
  <2>7. t \in Text /\ Len(t) = l /\ \A k \in 1 .. Len(t) : t[k] = r[k]
    <3>1. 1 \in 1 .. Len(r) + 1 /\ l \in 0 .. Len(r) /\ 1 <= l
      BY <1>1, <2>1, <2>4, <2>5, <2>6
    <3>2. t \in Text /\ Len(t) = l - 1 + 1 /\ \A k \in 1 .. Len(t) : t[k] = r[1 + k - 1]
      BY <2>4, <3>1, Piece
    <3> HIDE DEF t
    <3>3. Len(t) = l /\ \A k \in 1 .. Len(t) : 1 + k - 1 = k
      BY <2>5, <3>2
    <3> QED
      BY <3>2, <3>3
  <2> HIDE DEF t
  <2>8. f - 1 \in Nat /\ f - 1 + Len(t) <= Len(s)
    BY <1>1, <2>1, <2>2, <2>4, <2>5, <2>7
  <2>9. \A i \in 1 .. Len(t) : t[i] = s[f - 1 + i]
    <3> TAKE i \in 1 .. Len(t)
    <3>1. i \in 1 .. Len(r) /\ f + i - 1 = f - 1 + i
      BY <2>1, <2>4, <2>5, <2>7
    <3> QED
      BY <2>4, <2>7, <3>1
  <2>10. \A i \in f - 1 + Len(t) + 1 .. Len(s) : s[i] \in Blank
    <3> TAKE i \in f - 1 + Len(t) + 1 .. Len(s)
    <3>1. i - f + 1 \in l + 1 .. Len(r) /\ i - f + 1 \in 1 .. Len(r) /\ f + (i - f + 1) - 1 = i
      BY <1>1, <2>1, <2>4, <2>5, <2>7
    <3> QED
      BY <2>4, <2>5, <3>1
  <2>11. Around(s, f - 1, t)
    BY <2>1, <2>2, <2>7, <2>8, <2>9, <2>10 DEF Around
  <2>12. Trimmed(t)
    <3>1. 1 \in 1 .. Len(t) /\ Len(t) \in 1 .. Len(t) /\ f - 1 + 1 = f
      BY <2>1, <2>5, <2>6, <2>7
    <3>2. t[1] = s[f] /\ t[Len(t)] = r[l]
      BY <2>7, <2>9, <3>1
    <3> QED
      BY <2>1, <2>2, <2>5, <2>6, <3>2 DEF Trimmed
  <2> QED
    BY <2>3, <2>7, <2>8, <2>11, <2>12
<1> QED
  BY <1>2, <1>3

\* A text without blanks at its ends stays as it is.
LEMMA TrimKeeps ==
    ASSUME NEW s \in Text, Trimmed(s) PROVE Trim(s) = s
<1>1. Len(s) \in Nat
  BY DEF Text
<1>2. Around(s, 0, s)
  BY <1>1 DEF Around
<1>3. PICK a \in Nat : Around(s, a, Trim(s))
  BY TrimIs
<1> QED
  BY <1>2, <1>3, TrimIs, AroundOnce

\* trim gives what stands between the blanks.
LEMMA AroundTrim ==
    ASSUME NEW s \in Text, NEW a, NEW t, Around(s, a, t), Trimmed(t) PROVE Trim(s) = t
<1>3. PICK b \in Nat : Around(s, b, Trim(s))
  BY TrimIs
<1> QED
  BY <1>3, TrimIs, AroundOnce

(* ------------------------------- suffixes ------------------------------ *)
LEMMA SuffixIs ==
    ASSUME NEW w \in Text, NEW t \in Text
    PROVE  IsSuffix(w, t) <=> Len(w) <= Len(t) /\ \A i \in 1 .. Len(w) : w[i] = t[Len(t) - Len(w) + i]
<1> DEFINE v == Reverse(w)
           u == Reverse(t)
<1>1. Len(w) \in Nat /\ Len(t) \in Nat
  BY DEF Text
<1>2. /\ v \in Text /\ Len(v) = Len(w) /\ \A i \in 1 .. Len(w) : v[i] = w[Len(w) - i + 1]
      /\ u \in Text /\ Len(u) = Len(t) /\ \A i \in 1 .. Len(t) : u[i] = t[Len(t) - i + 1]
  BY DEF Reverse, Text
<1>3. IsSuffix(w, t) <=> Len(v) <= Len(u) /\ SubSeq(v, 1, Len(v)) = SubSeq(u, 1, Len(v))
  BY DEF IsSuffix, IsPrefix
<1> HIDE DEF v, u
<1>4. CASE Len(w) <= Len(t)
  <2> DEFINE p == SubSeq(v, 1, Len(v))
             q == SubSeq(u, 1, Len(v))
  <2>1. p \in Text /\ Len(p) = Len(w) /\ \A k \in 1 .. Len(w) : p[k] = v[k]
    BY <1>1, <1>2 DEF Text
  <2>2. q \in Text /\ Len(q) = Len(w) /\ \A k \in 1 .. Len(w) : q[k] = u[k]
    BY <1>1, <1>2, <1>4 DEF Text
  <2> HIDE DEF p, q
  <2>3. p = q <=> \A k \in 1 .. Len(w) : v[k] = u[k]
    <3>1. p = q => \A k \in 1 .. Len(w) : v[k] = u[k]
      BY <2>1, <2>2
    <3>2. (\A k \in 1 .. Len(w) : v[k] = u[k]) => p = q
      BY <2>1, <2>2, SameText
    <3> QED
      BY <3>1, <3>2
  <2>4. ASSUME \A k \in 1 .. Len(w) : v[k] = u[k], NEW i \in 1 .. Len(w)
        PROVE  w[i] = t[Len(t) - Len(w) + i]
    <3>1. /\ Len(w) - i + 1 \in 1 .. Len(w) /\ Len(w) - i + 1 \in 1 .. Len(t)
          /\ Len(w) - (Len(w) - i + 1) + 1 = i
          /\ Len(t) - (Len(w) - i + 1) + 1 = Len(t) - Len(w) + i
      BY <1>1, <1>4
    <3> QED
      BY <1>2, <2>4, <3>1
  <2>5. ASSUME \A i \in 1 .. Len(w) : w[i] = t[Len(t) - Len(w) + i], NEW k \in 1 .. Len(w)
        PROVE  v[k] = u[k]
    <3>1. /\ Len(w) - k + 1 \in 1 .. Len(w) /\ k \in 1 .. Len(t)
          /\ Len(t) - Len(w) + (Len(w) - k + 1) = Len(t) - k + 1
      BY <1>1, <1>4
    <3> QED
      BY <1>2, <2>5, <3>1
  <2> QED
    BY <1>2, <1>3, <1>4, <2>3, <2>4, <2>5 DEF p, q
<1>5. CASE ~(Len(w) <= Len(t))
  BY <1>2, <1>3, <1>5
<1> QED
  BY <1>4, <1>5

(* -------------------------------- digits ------------------------------- *)
Digit == {"0", "1", "2", "3", "4", "5", "6", "7", "8", "9"}

\* The digits and what they are worth.
LEMMA DigitIs ==
    /\ DOMAIN DigitOf = Digit
    /\ DigitOf["0"] = 0
    /\ \A c \in Digit : DigitOf[c] \in 0 .. 9 /\ (DigitOf[c] = 0 => c = "0")
<1> DEFINE at_(c) == {i \in 1 .. Len(DigitChar) : DigitChar[i] = c}
<1>1. ToSet(DigitChar) = Digit
  BY DEF ToSet, DigitChar, Digit
<1>2. Len(DigitChar) = 10
  BY DEF DigitChar
<1>3. ASSUME NEW c \in Digit
      PROVE  \E i \in 1 .. 10 : DigitChar[i] = c
  BY DEF DigitChar, Digit
<1>4. DigitChar[1] = "0" /\ \A i \in 2 .. 10 : DigitChar[i] # "0"
  BY DEF DigitChar
<1>5. DOMAIN DigitOf = Digit /\ \A c \in Digit : DigitOf[c] = (IF at_(c) # {} THEN Min(at_(c)) ELSE 0) - 1
  BY <1>1 DEF DigitOf, SelectInSeq
<1>6. ASSUME NEW c \in Digit
      PROVE  DigitOf[c] \in 0 .. 9 /\ DigitChar[DigitOf[c] + 1] = c
  <2>1. at_(c) # {} /\ at_(c) \in SUBSET (1 .. 10)
    BY <1>2, <1>3
  <2> DEFINE m == Min(at_(c))
  <2>2. m \in at_(c)
    BY <2>1, LeastIs
  <2>3. DigitOf[c] = m - 1
    BY <1>5, <2>1
  <2> HIDE DEF m
  <2>4. m \in 1 .. 10 /\ DigitChar[m] = c
    BY <1>2, <2>2
  <2>5. (m - 1) + 1 = m /\ m - 1 \in 0 .. 9
    BY <2>4
  <2> QED
    BY <2>3, <2>4, <2>5
<1>7. DigitOf["0"] = 0
  <2>1. "0" \in Digit
    BY DEF Digit
  <2>2. DigitOf["0"] \in 0 .. 9 /\ DigitChar[DigitOf["0"] + 1] = "0"
    BY <1>6, <2>1
  <2> QED
    BY <1>4, <2>2
<1>8. ASSUME NEW c \in Digit, DigitOf[c] = 0 PROVE c = "0"
  BY <1>4, <1>6, <1>8
<1> QED
  BY <1>5, <1>6, <1>7, <1>8

(* -------------------------- digits in general -------------------------- *)
\* The digits behind the first k are worth their own value, and what is in
\* front of them ten times more for each of them.
LEMMA UptoSplit ==
    ASSUME NEW a \in Seq(0 .. 9), NEW b \in Seq(0 .. 9), NEW k \in Nat, NEW n \in Nat,
           k + n <= Len(a), n <= Len(b), \A i \in 1 .. n : b[i] = a[k + i]
    PROVE  Upto(a, k + n) = Upto(a, k) * Ten(n) + Upto(b, n)
<1> DEFINE S == {j \in Nat : j <= n => Upto(a, k + j) = Upto(a, k) * Ten(j) + Upto(b, j)}
<1>1. /\ Len(a) \in Nat /\ Len(b) \in Nat
      /\ Upto(b, 0) = 0 /\ \A j \in 0 .. Len(a) : Upto(a, j) \in Nat
      /\ \A j \in 0 .. Len(b) : Upto(b, j) \in Nat
  BY UptoTurns
<1>2. 0 \in S
  <2>1. k \in 0 .. Len(a) /\ k + 0 = k
    BY <1>1
  <2>2. Upto(a, k) * 1 + 0 = Upto(a, k)
    <3>1. Upto(a, k) \in Nat
      BY <1>1, <2>1
    <3> QED
      BY <3>1
  <2>3. Ten(0) = 1
    BY TenTurns
  <2>4. Upto(a, k + 0) = Upto(a, k) * Ten(0) + Upto(b, 0)
    BY <1>1, <2>1, <2>2, <2>3
  <2> QED
    BY <2>4
<1>3. ASSUME NEW j \in Nat, j \in S PROVE j + 1 \in S
  <2>1. SUFFICES ASSUME j + 1 <= n PROVE Upto(a, k + (j + 1)) = Upto(a, k) * Ten(j + 1) + Upto(b, j + 1)
    OBVIOUS
  <2>2. /\ j <= n /\ k + j \in 0 .. Len(a) - 1 /\ j \in 0 .. Len(b) - 1 /\ j + 1 \in 1 .. n
        /\ k + (j + 1) = (k + j) + 1 /\ k \in 0 .. Len(a) /\ j \in 0 .. Len(b)
    BY <1>1, <2>1
  <2>3. Upto(a, (k + j) + 1) = 10 * Upto(a, k + j) + a[(k + j) + 1]
    BY <2>2, UptoTurns
  <2>4. Upto(b, j + 1) = 10 * Upto(b, j) + b[j + 1]
    BY <2>2, UptoTurns
  <2>5. b[j + 1] = a[(k + j) + 1] /\ b[j + 1] \in 0 .. 9
    BY <2>2
  <2>6. Upto(a, k + j) = Upto(a, k) * Ten(j) + Upto(b, j)
    BY <1>3, <2>2
  <2>7. Ten(j + 1) = 10 * Ten(j) /\ Ten(j) \in Nat
    BY TenTurns
  <2>8. Upto(a, k) \in Nat /\ Upto(b, j) \in Nat
    BY <1>1, <2>2
  <2> DEFINE x == Upto(a, k)
             y == Ten(j)
             z == Upto(b, j)
             d == b[j + 1]
  <2>9. x * (10 * y) = 10 * (x * y) /\ x * y \in Nat
    <3> HIDE DEF x, y
    <3>1. x \in Nat /\ y \in Nat
      BY <2>7, <2>8 DEF x, y
    <3> QED
      BY <3>1, Z3
  <2>10. 10 * (x * y + z) + d = x * (10 * y) + (10 * z + d)
    <3>1. z \in Nat
      BY <2>8
    <3>2. d \in Nat
      BY <2>5
    <3> HIDE DEF x, y, z, d
    <3> QED
      BY <2>9, <3>1, <3>2
  <2>11. Upto(a, k + (j + 1)) = 10 * (x * y + z) + d
    BY <2>2, <2>3, <2>5, <2>6
  <2>12. Upto(a, k) * Ten(j + 1) + Upto(b, j + 1) = x * (10 * y) + (10 * z + d)
    BY <2>4, <2>7
  <2> QED
    BY <2>10, <2>11, <2>12
<1> HIDE DEF S
<1>4. \A j \in Nat : j \in S
  BY <1>2, <1>3, Induct
<1>5. n \in S
  BY <1>4
<1> QED
  BY <1>5 DEF S

\* n digits are worth less than ten to the n, and nothing only when they are
\* zeros.
LEMMA UptoBelow ==
    ASSUME NEW a \in Seq(0 .. 9)
    PROVE  \A n \in 0 .. Len(a) : /\ Upto(a, n) < Ten(n)
                                  /\ Upto(a, n) = 0 <=> \A i \in 1 .. n : a[i] = 0
<1> DEFINE S == {n \in Nat : n <= Len(a) =>
                     /\ Upto(a, n) < Ten(n)
                     /\ Upto(a, n) = 0 <=> \A i \in 1 .. n : a[i] = 0}
<1>1. /\ Len(a) \in Nat /\ Upto(a, 0) = 0 /\ \A j \in 0 .. Len(a) : Upto(a, j) \in Nat
      /\ \A k \in 0 .. Len(a) - 1 : Upto(a, k + 1) = 10 * Upto(a, k) + a[k + 1]
  BY UptoTurns
<1>2. 0 \in S
  <2>1. Ten(0) = 1
    BY TenTurns
  <2> QED
    BY <1>1, <2>1
<1>3. ASSUME NEW n \in Nat, n \in S PROVE n + 1 \in S
  <2>1. SUFFICES ASSUME n + 1 <= Len(a)
                 PROVE  /\ Upto(a, n + 1) < Ten(n + 1)
                        /\ Upto(a, n + 1) = 0 <=> \A i \in 1 .. n + 1 : a[i] = 0
    OBVIOUS
  <2>2. n <= Len(a) /\ n \in 0 .. Len(a) - 1 /\ n \in 0 .. Len(a) /\ n + 1 \in 1 .. Len(a)
    BY <1>1, <2>1
  <2>3. /\ Upto(a, n + 1) = 10 * Upto(a, n) + a[n + 1]
        /\ a[n + 1] \in 0 .. 9 /\ Upto(a, n) \in Nat
    BY <1>1, <2>2
  <2>8. Ten(n + 1) = 10 * Ten(n) /\ Ten(n) \in Nat
    BY TenTurns
  <2>9. Upto(a, n) < Ten(n)
    BY <1>3, <2>2
  <2>4. Upto(a, n) < Ten(n) /\ (Upto(a, n) = 0 <=> \A i \in 1 .. n : a[i] = 0)
    BY <1>3, <2>2
  <2>5. Upto(a, n + 1) < Ten(n + 1)
    BY <2>3, <2>8, <2>9
  <2>6. Upto(a, n + 1) = 0 <=> (Upto(a, n) = 0 /\ a[n + 1] = 0)
    BY <2>3
  <2>7. (\A i \in 1 .. n + 1 : a[i] = 0) <=> ((\A i \in 1 .. n : a[i] = 0) /\ a[n + 1] = 0)
    <3>1. \A i \in 1 .. n + 1 : i \in 1 .. n \/ i = n + 1
      OBVIOUS
    <3>2. n + 1 \in 1 .. n + 1 /\ \A i \in 1 .. n : i \in 1 .. n + 1
      OBVIOUS
    <3> QED
      BY <3>1, <3>2
  <2> QED
    BY <2>4, <2>5, <2>6, <2>7
<1> HIDE DEF S
<1>4. \A n \in Nat : n \in S
  BY <1>2, <1>3, Induct
<1>5. ASSUME NEW n \in 0 .. Len(a)
      PROVE  Upto(a, n) < Ten(n) /\ (Upto(a, n) = 0 <=> \A i \in 1 .. n : a[i] = 0)
  <2>1. n \in Nat /\ n <= Len(a)
    BY <1>1
  <2>2. n \in S
    BY <1>4, <2>1
  <2> QED
    BY <2>1, <2>2 DEF S
<1> QED
  BY <1>5

(* ---------------------------- digits of texts -------------------------- *)
Ciphers(s) == [i \in DOMAIN s |-> DigitOf[s[i]]]

\* The digits of a text as a sequence of numbers.
LEMMA DigitsAre ==
    ASSUME NEW s \in Text PROVE Digits(s) <=> \A i \in 1 .. Len(s) : s[i] \in Digit
BY DigitIs DEF Digits, AllIn, Text

LEMMA CiphersTyped ==
    ASSUME NEW s \in Text, Digits(s)
    PROVE  /\ Ciphers(s) \in Seq(0 .. 9) /\ Len(Ciphers(s)) = Len(s)
           /\ \A i \in 1 .. Len(s) : Ciphers(s)[i] = DigitOf[s[i]]
           /\ Value(s) = Upto(Ciphers(s), Len(s)) /\ Value(s) \in Nat
<1>1. Len(s) \in Nat /\ DOMAIN s = 1 .. Len(s)
  BY DEF Text
<1>2. \A i \in 1 .. Len(s) : DigitOf[s[i]] \in 0 .. 9
  BY DigitIs, DigitsAre
<1>3. /\ Ciphers(s) \in Seq(0 .. 9) /\ Len(Ciphers(s)) = Len(s)
      /\ \A i \in 1 .. Len(s) : Ciphers(s)[i] = DigitOf[s[i]]
  BY <1>1, <1>2 DEF Ciphers
<1>4. Value(s) = Horner(0, 10, Ciphers(s), Len(Ciphers(s)))
  BY DEF Value, Mantissa, Ciphers
<1>5. Value(s) = Upto(Ciphers(s), Len(s))
  BY <1>3, <1>4 DEF Upto
<1>6. Len(s) \in 0 .. Len(Ciphers(s))
  BY <1>1, <1>3
<1>7. Upto(Ciphers(s), Len(s)) \in Nat
  BY <1>3, <1>6, UptoTurns
<1> QED
  BY <1>3, <1>5, <1>7

\* A reading takes the digits one by one and stops growing at max.
Reads(s, max, r) ==
    r = [i \in 0 .. Len(s) |-> IF i = 0 THEN 0
                               ELSE IF r[i - 1] * 10 + DigitOf[s[i]] > max THEN max
                               ELSE r[i - 1] * 10 + DigitOf[s[i]]]

\* A running value is that of the recursive function, whichever function it is.
LEMMA ReadsOnce ==
    ASSUME NEW s \in Text, NEW max, NEW g, NEW h, Reads(s, max, g), Reads(s, max, h)
    PROVE  g[Len(s)] = h[Len(s)]
<1> DEFINE S == {k \in Nat : k <= Len(s) => g[k] = h[k]}
<1>0. Len(s) \in Nat
  BY DEF Text
<1>1. /\ \A i \in 0 .. Len(s) : g[i] = IF i = 0 THEN 0
                               ELSE IF g[i - 1] * 10 + DigitOf[s[i]] > max THEN max
                               ELSE g[i - 1] * 10 + DigitOf[s[i]]
      /\ \A i \in 0 .. Len(s) : h[i] = IF i = 0 THEN 0
                               ELSE IF h[i - 1] * 10 + DigitOf[s[i]] > max THEN max
                               ELSE h[i - 1] * 10 + DigitOf[s[i]]
  BY Zenon DEF Reads
<1>2. 0 \in S
  BY <1>0, <1>1
<1>3. ASSUME NEW k \in Nat, k \in S PROVE k + 1 \in S
  <2>1. SUFFICES ASSUME k + 1 <= Len(s) PROVE g[k + 1] = h[k + 1]
    OBVIOUS
  <2>2. k + 1 \in 0 .. Len(s) /\ (k + 1) - 1 = k /\ k + 1 # 0 /\ k <= Len(s)
    BY <1>0, <2>1
  <2>3. g[k] = h[k]
    BY <1>3, <2>2
  <2> QED
    BY <1>1, <2>2, <2>3
<1> HIDE DEF S
<1>4. \A k \in Nat : k \in S
  BY <1>2, <1>3, Induct
<1>5. Len(s) \in S
  BY <1>0, <1>4
<1> QED
  BY <1>0, <1>5 DEF S

\* A loop that stops growing at a maximum ends with the value, or the maximum if that is less.
LEMMA ReadingIs ==
    ASSUME NEW s \in Text, Digits(s), NEW max \in Nat
    PROVE  Reading(s, max) = IF Value(s) > max THEN max ELSE Value(s)
<1> DEFINE w == Ciphers(s)
           u(i) == Upto(w, i)
           g == [i \in 0 .. Len(s) |-> IF u(i) > max THEN max ELSE u(i)]
<1>1. /\ Len(s) \in Nat /\ w \in Seq(0 .. 9) /\ Len(w) = Len(s)
      /\ \A i \in 1 .. Len(s) : w[i] = DigitOf[s[i]]
      /\ Value(s) = u(Len(s))
  BY CiphersTyped DEF Text
<1> HIDE DEF w
<1>2. /\ u(0) = 0 /\ \A k \in 0 .. Len(s) : u(k) \in Nat
      /\ \A k \in 0 .. Len(s) - 1 : u(k + 1) = 10 * u(k) + w[k + 1]
  BY <1>1, UptoTurns
<1> HIDE DEF u
<1>3. \A i \in 0 .. Len(s) : g[i] = IF i = 0 THEN 0
                               ELSE IF g[i - 1] * 10 + DigitOf[s[i]] > max THEN max
                               ELSE g[i - 1] * 10 + DigitOf[s[i]]
  <2> TAKE i \in 0 .. Len(s)
  <2>1. CASE i = 0
    BY <1>2, <2>1
  <2>2. CASE i # 0
    <3>1. i - 1 \in 0 .. Len(s) - 1 /\ (i - 1) + 1 = i /\ i \in 1 .. Len(s) /\ i - 1 \in 0 .. Len(s)
      BY <1>1, <2>2
    <3>2. u((i - 1) + 1) = 10 * u(i - 1) + w[(i - 1) + 1]
      BY <1>2, <3>1
    <3>3. u(i) = 10 * u(i - 1) + DigitOf[s[i]] /\ u(i - 1) \in Nat /\ u(i) \in Nat
      BY <1>1, <1>2, <3>1, <3>2
    <3>4. DigitOf[s[i]] \in 0 .. 9
      BY <1>1, <3>1
    <3>5. /\ g[i] = IF u(i) > max THEN max ELSE u(i)
          /\ g[i - 1] = IF u(i - 1) > max THEN max ELSE u(i - 1)
      BY <3>1
    <3> DEFINE x == u(i - 1)
               d == DigitOf[s[i]]
    <3>6. x \in Nat /\ d \in Nat /\ u(i) = 10 * x + d
      BY <3>3, <3>4
    <3>7. g[i - 1] = IF x > max THEN max ELSE x
      BY <3>5
    <3>8. g[i] = IF 10 * x + d > max THEN max ELSE 10 * x + d
      BY <3>5, <3>6
    <3> HIDE DEF g, x
    <3>9. g[i - 1] * 10 + d = IF x > max THEN max * 10 + d ELSE x * 10 + d
      BY <3>7
    <3>10. g[i] = IF g[i - 1] * 10 + d > max THEN max ELSE g[i - 1] * 10 + d
      <4> HIDE DEF d
      <4> QED
        BY <3>6, <3>8, <3>9
    <3> QED
      BY <2>2, <3>10
  <2> QED
    BY <2>1, <2>2
<1>4. Reads(s, max, g)
  <2>1. g = [i \in 0 .. Len(s) |-> g[i]]
    OBVIOUS
  <2> HIDE DEF g
  <2> QED
    BY <1>3, <2>1, Zenon DEF Reads
<1>5. g[Len(s)] = IF Value(s) > max THEN max ELSE Value(s)
  BY <1>1
<1> HIDE DEF g
<1> DEFINE c == CHOOSE r : Reads(s, max, r)
<1>6. Reads(s, max, c)
  BY <1>4, Zenon
<1>7. Reading(s, max) = c[Len(s)]
  BY DEF Reading, Reads
<1> HIDE DEF c
<1>8. c[Len(s)] = g[Len(s)]
  BY <1>4, <1>6, ReadsOnce
<1> QED
  BY <1>5, <1>7, <1>8

(* ------------------------------- numbers ------------------------------- *)
LEMMA PieceOfPiece ==
    ASSUME NEW s \in Text, NEW i \in Nat \ {0}, NEW j \in 0 .. Len(s),
           NEW k \in Nat \ {0}, NEW l \in 0 .. Len(SubSeq(s, i, j))
    PROVE  SubSeq(SubSeq(s, i, j), k, l) = SubSeq(s, i + k - 1, i + l - 1)
<1> DEFINE t == SubSeq(s, i, j)
           u == SubSeq(t, k, l)
           v == SubSeq(s, i + k - 1, i + l - 1)
<1>1. /\ Len(s) \in Nat /\ t \in Text /\ Len(t) = IF i <= j THEN j - i + 1 ELSE 0
      /\ \A n \in 1 .. Len(t) : t[n] = s[i + n - 1]
  BY Piece DEF Text
<1> HIDE DEF t
<1>2. u \in Text /\ Len(u) = (IF k <= l THEN l - k + 1 ELSE 0) /\ \A n \in 1 .. Len(u) : u[n] = t[k + n - 1]
  BY <1>1, Piece
<1>3. CASE i + l - 1 \in 0 .. Len(s)
  <2>1. i + k - 1 \in Nat \ {0}
    OBVIOUS
  <2>2. /\ v \in Text /\ Len(v) = IF i + k - 1 <= i + l - 1 THEN (i + l - 1) - (i + k - 1) + 1 ELSE 0
        /\ \A n \in 1 .. Len(v) : v[n] = s[(i + k - 1) + n - 1]
    BY <1>3, <2>1, Piece
  <2> HIDE DEF u, v
  <2>3. l \in Nat /\ Len(v) = Len(u)
    BY <1>1, <1>2, <2>2
  <2>4. ASSUME NEW n \in 1 .. Len(u) PROVE u[n] = v[n]
    <3>1. k + n - 1 \in 1 .. Len(t) /\ i + (k + n - 1) - 1 = (i + k - 1) + n - 1
      BY <1>1, <1>2, <2>3, <2>4
    <3> QED
      BY <1>1, <1>2, <2>2, <2>3, <3>1
  <2>5. u = v
    BY <1>2, <2>2, <2>3, <2>4, SameText
  <2> QED
    BY <2>5 DEF u, v, t
<1>4. CASE ~(i + l - 1 \in 0 .. Len(s))
  <2>1. l = 0
    BY <1>1, <1>4
  <2>2. i + l - 1 < i + k - 1 /\ i + l - 1 \in Int
    BY <2>1
  <2>3. v = <<>>
    BY <1>1, <2>2, <2>1 DEF Text
  <2>4. Len(u) = 0
    BY <1>2, <2>1
  <2>5. u = <<>>
    BY <1>2, <2>4 DEF Text
  <2> QED
    BY <2>3, <2>5 DEF t
<1> QED
  BY <1>3, <1>4

\* A text around its first character in a set, if that is at p.
LEMMA AroundFirst ==
    ASSUME NEW s \in Text, NEW S, NEW p \in 1 .. Len(s) + 1,
           \A i \in 1 .. p - 1 : s[i] \notin S, p <= Len(s) => s[p] \in S
    PROVE  /\ Left(s, S) = SubSeq(s, 1, p - 1) /\ Right(s, S) = SubSeq(s, p + 1, Len(s))
           /\ Find(s, S) # 0 <=> p <= Len(s)
<1>1. Len(s) \in Nat
  BY DEF Text
<1>2. CASE p <= Len(s)
  <2>1. Find(s, S) = p /\ p # 0
    BY <1>1, <1>2, FindAt
  <2> QED
    BY <1>2, <2>1 DEF Left, Right, UpTo, From
<1>3. CASE ~(p <= Len(s))
  <2>1. p = Len(s) + 1 /\ p - 1 = Len(s) /\ p + 1 = Len(s) + 2
    BY <1>1, <1>3
  <2>2. Find(s, S) = 0
    BY <2>1, FindNone
  <2>3. SubSeq(s, 1, Len(s)) = s
    BY <1>1 DEF Text
  <2>4. SubSeq(s, Len(s) + 2, Len(s)) = <<>>
    BY <1>1 DEF Text
  <2> QED
    BY <1>3, <2>1, <2>2, <2>3, <2>4 DEF Left, Right
<1> QED
  BY <1>2, <1>3

\* Where the sign of a number ends, and where its point and its e are: past
\* the end of their part if there is none.
Marks(s, g, d, x) ==
    /\ g \in 0 .. 1 /\ d \in Nat /\ x \in Nat
    /\ g < d /\ d <= x /\ x <= Len(s) + 1
    /\ g = 1 => s[1] \in Sign
    /\ g = 0 => Len(s) = 0 \/ s[1] \notin Sign
    /\ \A i \in g + 1 .. x - 1 : s[i] \notin Exponent
    /\ x <= Len(s) => s[x] \in Exponent
    /\ \A i \in g + 1 .. d - 1 : s[i] # "."
    /\ d < x => s[d] = "."

\* Where the search for a character from k on stops.
LEMMA FirstFrom ==
    ASSUME NEW s \in Text, NEW S, NEW k \in 1 .. Len(s) + 1, NEW n \in k .. Len(s) + 1
    PROVE  \E p \in k .. n : (p < n => s[p] \in S) /\ \A i \in k .. p - 1 : s[i] \notin S
<1> DEFINE t == SubSeq(s, k, n - 1)
           f == Find(t, S)
<1>1. /\ Len(s) \in Nat /\ t \in Text /\ Len(t) = n - k
      /\ \A i \in 1 .. Len(t) : t[i] = s[k + i - 1]
  <2>1. Len(s) \in Nat
    BY DEF Text
  <2>2. k \in Nat \ {0} /\ n - 1 \in 0 .. Len(s)
    BY <2>1
  <2>3. /\ t \in Text /\ Len(t) = IF k <= n - 1 THEN n - 1 - k + 1 ELSE 0
        /\ \A i \in 1 .. Len(t) : t[i] = s[k + i - 1]
    BY <2>2, Piece
  <2> HIDE DEF t
  <2> QED
    BY <2>1, <2>2, <2>3
<1> HIDE DEF t
<1>2. /\ f \in 0 .. Len(t)
      /\ f = 0 => \A i \in 1 .. Len(t) : t[i] \notin S
      /\ f # 0 => t[f] \in S /\ \A i \in 1 .. f - 1 : t[i] \notin S
  BY <1>1, FindIs
<1> HIDE DEF f
<1> DEFINE p == IF f = 0 THEN n ELSE k + f - 1
<1>3. p \in k .. n /\ (p < n => f # 0 /\ p = k + f - 1)
  BY <1>1, <1>2
<1>4. p < n => s[p] \in S
  <2>1. SUFFICES ASSUME p < n PROVE s[p] \in S
    OBVIOUS
  <2>2. f # 0 /\ p = k + f - 1 /\ f \in 1 .. Len(t)
    BY <1>2, <1>3, <2>1
  <2> QED
    BY <1>1, <1>2, <2>2
<1>5. ASSUME NEW i \in k .. p - 1 PROVE s[i] \notin S
  <2>1. i - k + 1 \in 1 .. Len(t) /\ k + (i - k + 1) - 1 = i /\ (f # 0 => i - k + 1 \in 1 .. f - 1)
    BY <1>1, <1>2, <1>3
  <2>2. t[i - k + 1] = s[i]
    BY <1>1, <2>1
  <2>3. t[i - k + 1] \notin S
    BY <1>2, <2>1
  <2> QED
    BY <2>2, <2>3
<1> HIDE DEF p
<1> QED
  BY <1>3, <1>4, <1>5

\* Every text has the places where sign, point and e are, and by them the code cuts it.
LEMMA MarksExist ==
    ASSUME NEW s \in Text PROVE \E g, d, x : Marks(s, g, d, x)
<1> DEFINE g == IF Len(s) # 0 /\ s[1] \in Sign THEN 1 ELSE 0
<1>1. Len(s) \in Nat /\ g \in 0 .. 1 /\ g <= Len(s)
  BY DEF Text
<1>2. (g = 1 => s[1] \in Sign) /\ (g = 0 => Len(s) = 0 \/ s[1] \notin Sign)
  OBVIOUS
<1> HIDE DEF g
<1>3. g + 1 \in 1 .. Len(s) + 1 /\ Len(s) + 1 \in g + 1 .. Len(s) + 1
  BY <1>1
<1>4. PICK x \in g + 1 .. Len(s) + 1 :
          (x < Len(s) + 1 => s[x] \in Exponent) /\ \A i \in g + 1 .. x - 1 : s[i] \notin Exponent
  BY <1>3, FirstFrom
<1>5. PICK d \in g + 1 .. x : (d < x => s[d] \in {"."}) /\ \A i \in g + 1 .. d - 1 : s[i] \notin {"."}
  BY <1>3, FirstFrom
<1>6. Marks(s, g, d, x)
  <2>1. d \in Nat /\ x \in Nat /\ g < d /\ d <= x /\ x <= Len(s) + 1 /\ (x <= Len(s) => x < Len(s) + 1)
    BY <1>1, <1>4, <1>5
  <2> QED
    BY <1>1, <1>2, <1>4, <1>5, <2>1 DEF Marks
<1> QED
  BY <1>6

LEMMA UnsignedIs ==
    ASSUME NEW s \in Text, NEW g, NEW d, NEW x, Marks(s, g, d, x)
    PROVE  Unsigned(s) = SubSeq(s, g + 1, Len(s)) /\ g <= Len(s)
<1>1. /\ Len(s) \in Nat /\ g \in 0 .. 1 /\ g <= Len(s)
      /\ (g = 1 => s[1] \in Sign) /\ (g = 0 => Len(s) = 0 \/ s[1] \notin Sign)
  BY DEF Marks, Text
<1>2. s = <<>> <=> Len(s) = 0
  BY DEF Text
<1>3. CASE g = 1
  <2>1. Unsigned(s) = Tail(s)
    BY <1>1, <1>2, <1>3 DEF Unsigned
  <2>2. Tail(s) = SubSeq(s, 2, Len(s))
    BY <1>1, <1>2, <1>3 DEF Text
  <2> QED
    BY <1>1, <1>3, <2>1, <2>2
<1>4. CASE g = 0
  <2>1. Unsigned(s) = s
    BY <1>1, <1>2, <1>4 DEF Unsigned
  <2>2. SubSeq(s, 1, Len(s)) = s
    BY <1>1 DEF Text
  <2> QED
    BY <1>1, <1>4, <2>1, <2>2
<1> QED
  BY <1>1, <1>3, <1>4

LEMMA NotatedAt ==
    ASSUME NEW s \in Text, NEW g, NEW d, NEW x, Marks(s, g, d, x)
    PROVE  Notated(s) = [minus |-> Minus(s), scientific |-> x <= Len(s), e |-> SubSeq(s, x + 1, Len(s)),
                         int |-> SubSeq(s, g + 1, d - 1), frac |-> SubSeq(s, d + 1, x - 1)]
<1> DEFINE u == Unsigned(s)
           m == SubSeq(s, g + 1, x - 1)
<1>1. /\ Len(s) \in Nat /\ g \in 0 .. 1 /\ d \in Nat /\ x \in Nat
      /\ g < d /\ d <= x /\ x <= Len(s) + 1
  BY DEF Marks, Text
<1>2. /\ \A i \in g + 1 .. x - 1 : s[i] \notin Exponent
      /\ x <= Len(s) => s[x] \in Exponent
      /\ \A i \in g + 1 .. d - 1 : s[i] # "."
      /\ d < x => s[d] = "."
      /\ g = 1 => s[1] \in Sign
  BY DEF Marks
<1>3. u = SubSeq(s, g + 1, Len(s))
  BY UnsignedIs
<1>4. /\ g + 1 \in Nat \ {0} /\ Len(s) \in 0 .. Len(s) /\ x - 1 \in 0 .. Len(s)
      /\ g + 1 <= Len(s) + 1
  BY <1>1
<1>5. u \in Text /\ Len(u) = Len(s) - g /\ \A i \in 1 .. Len(u) : u[i] = s[g + i]
  <2>1. /\ u \in Text /\ Len(u) = IF g + 1 <= Len(s) THEN Len(s) - (g + 1) + 1 ELSE 0
        /\ \A i \in 1 .. Len(u) : u[i] = s[g + 1 + i - 1]
    BY <1>3, <1>4, Piece
  <2> HIDE DEF u
  <2>2. Len(u) = Len(s) - g
    BY <1>1, <2>1
  <2>3. \A i \in 1 .. Len(u) : g + 1 + i - 1 = g + i
    BY <1>1
  <2> QED
    BY <2>1, <2>2, <2>3
<1>6. m \in Text /\ Len(m) = x - 1 - g /\ \A i \in 1 .. Len(m) : m[i] = s[g + i]
  <2>1. /\ m \in Text /\ Len(m) = IF g + 1 <= x - 1 THEN x - 1 - (g + 1) + 1 ELSE 0
        /\ \A i \in 1 .. Len(m) : m[i] = s[g + 1 + i - 1]
    BY <1>4, Piece
  <2> HIDE DEF m
  <2>2. Len(m) = x - 1 - g
    BY <1>1, <2>1
  <2>3. \A i \in 1 .. Len(m) : g + 1 + i - 1 = g + i
    BY <1>1
  <2> QED
    BY <2>1, <2>2, <2>3
<1> HIDE DEF u, m
<1>7. Left(u, Exponent) = m /\ Right(u, Exponent) = SubSeq(s, x + 1, Len(s))
  <2> DEFINE p == x - g
  <2>1. p \in 1 .. Len(u) + 1 /\ (p <= Len(u) <=> x <= Len(s)) /\ g + p = x /\ p + 1 \in Nat \ {0}
    BY <1>1, <1>5
  <2>2. ASSUME NEW i \in 1 .. p - 1 PROVE u[i] \notin Exponent
    <3>1. i \in 1 .. Len(u) /\ g + i \in g + 1 .. x - 1
      BY <1>1, <1>5, <2>1
    <3> QED
      BY <1>2, <1>5, <3>1
  <2>3. p <= Len(u) => u[p] \in Exponent
    <3>1. SUFFICES ASSUME p <= Len(u) PROVE u[p] \in Exponent
      OBVIOUS
    <3>2. p \in 1 .. Len(u)
      BY <1>1, <2>1, <3>1
    <3>3. u[p] = s[g + p]
      BY <1>5, <3>2
    <3> QED
      BY <1>2, <2>1, <3>1, <3>3
  <2> HIDE DEF p
  <2>4. Left(u, Exponent) = SubSeq(u, 1, p - 1) /\ Right(u, Exponent) = SubSeq(u, p + 1, Len(u))
    BY <1>5, <2>1, <2>2, <2>3, AroundFirst
  <2>5. p - 1 \in 0 .. Len(SubSeq(s, g + 1, Len(s))) /\ Len(u) \in 0 .. Len(SubSeq(s, g + 1, Len(s))) /\ 1 \in Nat \ {0}
    BY <1>1, <1>3, <1>5, <2>1
  <2>6. SubSeq(u, 1, p - 1) = SubSeq(s, (g + 1) + 1 - 1, (g + 1) + (p - 1) - 1)
    BY <1>3, <1>4, <2>5, PieceOfPiece
  <2>7. SubSeq(u, p + 1, Len(u)) = SubSeq(s, (g + 1) + (p + 1) - 1, (g + 1) + Len(u) - 1)
    BY <1>3, <1>4, <2>1, <2>5, PieceOfPiece
  <2>8. /\ (g + 1) + 1 - 1 = g + 1 /\ (g + 1) + (p - 1) - 1 = x - 1
        /\ (g + 1) + (p + 1) - 1 = x + 1 /\ (g + 1) + Len(u) - 1 = Len(s)
    BY <1>1, <1>5, <2>1
  <2> QED
    BY <2>4, <2>6, <2>7, <2>8 DEF m
<1>8. Left(m, {"."}) = SubSeq(s, g + 1, d - 1) /\ Right(m, {"."}) = SubSeq(s, d + 1, x - 1)
  <2> DEFINE p == d - g
  <2>1. p \in 1 .. Len(m) + 1 /\ (p <= Len(m) <=> d < x) /\ g + p = d /\ p + 1 \in Nat \ {0}
    BY <1>1, <1>6
  <2>2. ASSUME NEW i \in 1 .. p - 1 PROVE m[i] \notin {"."}
    <3>1. i \in 1 .. Len(m) /\ g + i \in g + 1 .. d - 1
      BY <1>1, <1>6, <2>1
    <3> QED
      BY <1>2, <1>6, <3>1
  <2>3. p <= Len(m) => m[p] \in {"."}
    <3>1. SUFFICES ASSUME p <= Len(m) PROVE m[p] = "."
      OBVIOUS
    <3>2. p \in 1 .. Len(m)
      BY <1>1, <2>1, <3>1
    <3>3. m[p] = s[g + p]
      BY <1>6, <3>2
    <3> QED
      BY <1>2, <2>1, <3>1, <3>3
  <2> HIDE DEF p
  <2>4. Left(m, {"."}) = SubSeq(m, 1, p - 1) /\ Right(m, {"."}) = SubSeq(m, p + 1, Len(m))
    BY <1>6, <2>1, <2>2, <2>3, AroundFirst
  <2>5. p - 1 \in 0 .. Len(SubSeq(s, g + 1, x - 1)) /\ Len(m) \in 0 .. Len(SubSeq(s, g + 1, x - 1)) /\ 1 \in Nat \ {0}
    BY <1>1, <1>6, <2>1 DEF m
  <2>6. SubSeq(m, 1, p - 1) = SubSeq(s, (g + 1) + 1 - 1, (g + 1) + (p - 1) - 1)
    BY <1>4, <2>5, PieceOfPiece DEF m
  <2>7. SubSeq(m, p + 1, Len(m)) = SubSeq(s, (g + 1) + (p + 1) - 1, (g + 1) + Len(m) - 1)
    BY <1>4, <2>1, <2>5, PieceOfPiece DEF m
  <2>8. /\ (g + 1) + 1 - 1 = g + 1 /\ (g + 1) + (p - 1) - 1 = d - 1
        /\ (g + 1) + (p + 1) - 1 = d + 1 /\ (g + 1) + Len(m) - 1 = x - 1
    BY <1>1, <1>6, <2>1
  <2> QED
    BY <2>4, <2>6, <2>7, <2>8
<1>9. Find(s, Exponent) # 0 <=> x <= Len(s)
  <2>1. ASSUME NEW i \in 1 .. x - 1 PROVE s[i] \notin Exponent
    <3>1. CASE i \in g + 1 .. x - 1
      BY <1>2, <3>1
    <3>2. CASE ~(i \in g + 1 .. x - 1)
      <4>1. i = 1 /\ g = 1
        BY <1>1, <3>2
      <4> QED
        BY <1>2, <4>1 DEF Sign, Exponent
    <3> QED
      BY <3>1, <3>2
  <2>2. x \in 1 .. Len(s) + 1
    BY <1>1
  <2> QED
    BY <1>2, <2>1, <2>2, AroundFirst
<1>10. Notated(s) = Notation(Minus(s), m, SubSeq(s, x + 1, Len(s)), Find(s, Exponent) # 0)
  BY <1>7 DEF Notated, u
<1>11. (Find(s, Exponent) # 0) = (x <= Len(s))
  BY <1>9
<1>12. Notated(s) = [minus |-> Minus(s), scientific |-> Find(s, Exponent) # 0, e |-> SubSeq(s, x + 1, Len(s)),
                     int |-> Left(m, {"."}), frac |-> Right(m, {"."})]
  BY <1>10 DEF Notation
<1> QED
  BY <1>8, <1>11, <1>12, Zenon

\* A piece is digits if its characters are.
LEMMA PieceDigits ==
    ASSUME NEW s \in Text, NEW i \in Nat \ {0}, NEW j \in 0 .. Len(s)
    PROVE  Digits(SubSeq(s, i, j)) <=> \A k \in i .. j : s[k] \in Digit
<1> DEFINE p == SubSeq(s, i, j)
<1>1. /\ p \in Text /\ Len(p) = IF i <= j THEN j - i + 1 ELSE 0
      /\ \A n \in 1 .. Len(p) : p[n] = s[i + n - 1]
  BY Piece
<1> HIDE DEF p
<1>2. Digits(p) <=> \A n \in 1 .. Len(p) : p[n] \in Digit
  BY <1>1, DigitsAre
<1>3. ASSUME \A n \in 1 .. Len(p) : p[n] \in Digit, NEW k \in i .. j PROVE s[k] \in Digit
  <2>1. k - i + 1 \in 1 .. Len(p) /\ i + (k - i + 1) - 1 = k
    BY <1>1
  <2> QED
    BY <1>1, <1>3, <2>1
<1>4. ASSUME \A k \in i .. j : s[k] \in Digit, NEW n \in 1 .. Len(p) PROVE p[n] \in Digit
  <2>1. i + n - 1 \in i .. j
    BY <1>1
  <2> QED
    BY <1>1, <1>4, <2>1
<1> QED
  BY <1>2, <1>3, <1>4 DEF p

\* Texts that are numbers, by their marks.
LEMMA DecimalAt ==
    ASSUME NEW s \in Text, NEW g, NEW d, NEW x, Marks(s, g, d, x)
    PROVE  /\ SubSeq(s, g + 1, d - 1) \in Text /\ SubSeq(s, d + 1, x - 1) \in Text
           /\ SubSeq(s, x + 1, Len(s)) \in Text
           /\ Len(SubSeq(s, g + 1, d - 1)) = d - g - 1
           /\ Len(SubSeq(s, d + 1, x - 1)) = IF d < x THEN x - d - 1 ELSE 0
           /\ IsDecimal(s) <=>
                  /\ d - g - 1 > 0 \/ x - d - 1 > 0
                  /\ \A i \in g + 1 .. d - 1 : s[i] \in Digit
                  /\ \A i \in d + 1 .. x - 1 : s[i] \in Digit
                  /\ x <= Len(s) => IsInteger(SubSeq(s, x + 1, Len(s)))
<1> DEFINE a == SubSeq(s, g + 1, d - 1)
           b == SubSeq(s, d + 1, x - 1)
           c == SubSeq(s, x + 1, Len(s))
<1>1. /\ Len(s) \in Nat /\ g \in 0 .. 1 /\ d \in Nat /\ x \in Nat
      /\ g < d /\ d <= x /\ x <= Len(s) + 1
  BY DEF Marks, Text
<1>2. /\ g + 1 \in Nat \ {0} /\ d + 1 \in Nat \ {0} /\ x + 1 \in Nat \ {0}
      /\ d - 1 \in 0 .. Len(s) /\ x - 1 \in 0 .. Len(s) /\ Len(s) \in 0 .. Len(s)
  BY <1>1
<1>3. /\ a \in Text /\ Len(a) = IF g + 1 <= d - 1 THEN d - 1 - (g + 1) + 1 ELSE 0
      /\ \A i \in 1 .. Len(a) : a[i] = s[g + 1 + i - 1]
  BY <1>2, Piece
<1>4. /\ b \in Text /\ Len(b) = IF d + 1 <= x - 1 THEN x - 1 - (d + 1) + 1 ELSE 0
      /\ \A i \in 1 .. Len(b) : b[i] = s[d + 1 + i - 1]
  BY <1>2, Piece
<1>5. c \in Text
  BY <1>2, Piece
<1>6. Parses(Notated(s)) <=>
          a \o b # <<>> /\ Digits(a) /\ Digits(b) /\ (x <= Len(s) => IsInteger(c))
  <2> DEFINE n == Notated(s)
  <2>1. n = [minus |-> Minus(s), scientific |-> x <= Len(s), e |-> c, int |-> a, frac |-> b]
    BY NotatedAt
  <2> HIDE DEF n, a, b, c
  <2>2. n.int = a /\ n.frac = b /\ n.e = c /\ n.scientific = (x <= Len(s))
    BY <2>1
  <2>3. Parses(n) <=> a \o b # <<>> /\ Digits(a) /\ Digits(b) /\ (n.scientific => IsInteger(c))
    BY <2>2 DEF Parses
  <2> QED
    BY <2>2, <2>3 DEF n
<1> HIDE DEF a, b, c
<1>7. Len(a) = d - g - 1 /\ Len(b) = IF d < x THEN x - d - 1 ELSE 0
  BY <1>1, <1>3, <1>4
<1>8. a \o b # <<>> <=> d - g - 1 > 0 \/ x - d - 1 > 0
  <2>1. a \o b # <<>> <=> Len(a) + Len(b) > 0
    BY <1>3, <1>4 DEF Text
  <2> QED
    BY <1>1, <1>7, <2>1
<1>9. Digits(a) <=> \A i \in g + 1 .. d - 1 : s[i] \in Digit
  BY <1>2, PieceDigits DEF a
<1>10. Digits(b) <=> \A i \in d + 1 .. x - 1 : s[i] \in Digit
  BY <1>2, PieceDigits DEF b
<1> QED
  BY <1>3, <1>4, <1>5, <1>6, <1>7, <1>8, <1>9, <1>10 DEF IsDecimal, a, b, c

\* Signs, digits, points and exponents are different characters.
LEMMA CharactersDiffer ==
    /\ \A c \in Sign : c \notin Digit /\ c # "." /\ c \notin Exponent /\ c \notin Letter /\ c \notin Blank
    /\ \A c \in Digit : c # "." /\ c \notin Exponent /\ c \notin Letter /\ c \notin Blank
    /\ \A c \in Letter : c # "." /\ c \notin Blank
    /\ "." \notin Exponent /\ "." \notin Blank /\ Exponent \subseteq Letter
BY DEF Sign, Digit, Exponent, Letter, Blank

\* The only way to cut a text is at its marks.
LEMMA CutsAre ==
    ASSUME NEW s \in Text, NEW g, NEW d, NEW x, Marks(s, g, d, x)
    PROVE  Cuts(s) = IF IsDecimal(s) THEN {[sign |-> g, dot |-> d, e |-> x]} ELSE {}
<1>1. /\ Len(s) \in Nat /\ g \in 0 .. 1 /\ d \in Nat /\ x \in Nat
      /\ g < d /\ d <= x /\ x <= Len(s) + 1
  BY DEF Marks, Text
<1>2. /\ \A i \in g + 1 .. x - 1 : s[i] \notin Exponent
      /\ x <= Len(s) => s[x] \in Exponent
      /\ \A i \in g + 1 .. d - 1 : s[i] # "."
      /\ d < x => s[d] = "."
      /\ g = 1 => s[1] \in Sign
      /\ g = 0 => Len(s) = 0 \/ s[1] \notin Sign
  BY DEF Marks
<1> DEFINE All == [sign : 0 .. 1, dot : 1 .. Len(s) + 1, e : 1 .. Len(s) + 1]
<1>3. ASSUME NEW c \in All
      PROVE  c \in Cuts(s) <=>
                 /\ c.sign < c.dot /\ c.dot <= c.e
                 /\ c.sign = 1 => s[1] \in Sign
                 /\ c.dot < c.e => s[c.dot] = "."
                 /\ \A i \in c.sign + 1 .. c.dot - 1 : s[i] \in Digit
                 /\ \A i \in c.dot + 1 .. c.e - 1 : s[i] \in Digit
                 /\ c.dot - c.sign - 1 > 0 \/ c.e - c.dot - 1 > 0
                 /\ c.e <= Len(s) => s[c.e] \in Exponent /\ IsInteger(SubSeq(s, c.e + 1, Len(s)))
  <2> DEFINE p == SubSeq(s, c.sign + 1, c.dot - 1)
             q == SubSeq(s, c.dot + 1, c.e - 1)
  <2>1. c.sign \in 0 .. 1 /\ c.dot \in 1 .. Len(s) + 1 /\ c.e \in 1 .. Len(s) + 1
    OBVIOUS
  <2>2. Digits(p) <=> \A i \in c.sign + 1 .. c.dot - 1 : s[i] \in Digit
    <3>1. c.sign + 1 \in Nat \ {0} /\ c.dot - 1 \in 0 .. Len(s)
      BY <1>1, <2>1
    <3> QED
      BY <3>1, PieceDigits
  <2>3. Digits(q) <=> \A i \in c.dot + 1 .. c.e - 1 : s[i] \in Digit
    <3>1. c.dot + 1 \in Nat \ {0} /\ c.e - 1 \in 0 .. Len(s)
      BY <1>1, <2>1
    <3> QED
      BY <3>1, PieceDigits
  <2>4. c \in Cuts(s) <=>
            /\ c.sign < c.dot /\ c.dot <= c.e
            /\ c.sign = 1 => s[1] \in Sign
            /\ c.dot < c.e => s[c.dot] = "."
            /\ Digits(p) /\ Digits(q)
            /\ c.dot - c.sign - 1 > 0 \/ c.e - c.dot - 1 > 0
            /\ c.e <= Len(s) => s[c.e] \in Exponent /\ IsInteger(SubSeq(s, c.e + 1, Len(s)))
    BY DEF Cuts, From
  <2> HIDE DEF p, q
  <2> QED
    BY <2>2, <2>3, <2>4
<1>4. \A c \in Cuts(s) : c \in All
  BY DEF Cuts
<1> DEFINE k == [sign |-> g, dot |-> d, e |-> x]
<1>5. k \in All /\ k.sign = g /\ k.dot = d /\ k.e = x
  BY <1>1
<1> HIDE DEF All
<1>6. k \in Cuts(s) <=> IsDecimal(s)
  BY <1>1, <1>2, <1>3, <1>5, DecimalAt
<1>7. ASSUME NEW c \in Cuts(s) PROVE c = k
  <2> DEFINE G == c.sign
             D == c.dot
             E == c.e
  <2>1. /\ G \in 0 .. 1 /\ D \in 1 .. Len(s) + 1 /\ E \in 1 .. Len(s) + 1
        /\ c = [sign |-> G, dot |-> D, e |-> E]
    BY <1>4 DEF All
  <2>2. /\ G < D /\ D <= E
        /\ G = 1 => s[1] \in Sign
        /\ D < E => s[D] = "."
        /\ \A i \in G + 1 .. D - 1 : s[i] \in Digit
        /\ \A i \in D + 1 .. E - 1 : s[i] \in Digit
        /\ D - G - 1 > 0 \/ E - D - 1 > 0
        /\ E <= Len(s) => s[E] \in Exponent
    BY <1>3, <1>4
  <2> HIDE DEF G, D, E, k
  <2>3. G = g
    <3>1. CASE G = 1
      <4>1. Len(s) # 0 /\ s[1] \in Sign
        BY <1>1, <2>1, <2>2, <3>1
      <4> QED
        BY <1>1, <1>2, <3>1, <4>1
    <3>2. CASE G = 0
      <4>1. SUFFICES ASSUME g = 1 PROVE FALSE
        BY <1>1, <3>2
      <4>2. s[1] \in Sign
        BY <1>2, <4>1
      <4>3. ~(1 \in G + 1 .. D - 1)
        BY <2>2, <4>2, CharactersDiffer
      <4>4. D = 1
        BY <1>1, <2>1, <3>2, <4>3
      <4>5. ~(D < E)
        BY <2>2, <4>2, <4>4, CharactersDiffer
      <4> QED
        BY <2>1, <2>2, <3>2, <4>4, <4>5
    <3> QED
      BY <2>1, <3>1, <3>2
  <2>4. E = x
    <3>1. SUFFICES ASSUME E < x \/ x < E PROVE FALSE
      BY <1>1, <2>1
    <3>2. CASE E < x
      <4>1. E <= Len(s) /\ E \in g + 1 .. x - 1
        BY <1>1, <2>1, <2>2, <2>3, <3>2
      <4> QED
        BY <1>2, <2>2, <4>1
    <3>3. CASE x < E
      <4>1. x <= Len(s) /\ (x \in G + 1 .. D - 1 \/ (x = D /\ D < E) \/ x \in D + 1 .. E - 1)
        BY <1>1, <2>1, <2>2, <2>3, <3>3
      <4>2. s[x] \in Exponent
        BY <1>2, <4>1
      <4> QED
        BY <2>2, <4>1, <4>2, CharactersDiffer
    <3> QED
      BY <3>1, <3>2, <3>3
  <2>5. D = d
    <3>1. SUFFICES ASSUME D < d \/ d < D PROVE FALSE
      BY <1>1, <2>1
    <3>2. CASE D < d
      <4>1. D < E /\ D \in g + 1 .. d - 1
        BY <1>1, <2>1, <2>2, <2>3, <2>4, <3>2
      <4> QED
        BY <1>2, <2>2, <4>1
    <3>3. CASE d < D
      <4>1. d < x /\ d \in G + 1 .. D - 1
        BY <1>1, <2>1, <2>2, <2>3, <2>4, <3>3
      <4> QED
        BY <1>2, <2>2, <4>1, CharactersDiffer
    <3> QED
      BY <3>1, <3>2, <3>3
  <2> QED
    BY <2>1, <2>3, <2>4, <2>5 DEF k
<1> HIDE DEF k
<1>8. Cuts(s) = IF IsDecimal(s) THEN {k} ELSE {}
  <2>1. CASE IsDecimal(s)
    BY <1>6, <1>7, <2>1
  <2>2. CASE ~IsDecimal(s)
    BY <1>6, <1>7, <2>2
  <2> QED
    BY <2>1, <2>2
<1> QED
  BY <1>8 DEF k

\* The number a text spells.
Spelt(n) ==
    [negative |-> n.minus, mantissa |-> Value(n.int \o n.frac), written |-> Written(n.e),
     exp |-> Written(n.e) - Len(n.frac)]

\* A text spells one number, if it is a decimal, and none otherwise.
LEMMA SpellsAre ==
    ASSUME NEW s \in Text
    PROVE  Spells(s) = IF IsDecimal(s) THEN {Spelt(Notated(s))} ELSE {}
<1>1. PICK g, d, x : Marks(s, g, d, x)
  BY MarksExist
<1>2. Cuts(s) = IF IsDecimal(s) THEN {[sign |-> g, dot |-> d, e |-> x]} ELSE {}
  BY <1>1, CutsAre
<1> DEFINE F(c) == [negative |-> Minus(s),
                    mantissa |-> Value(SubSeq(s, c.sign + 1, c.dot - 1) \o SubSeq(s, c.dot + 1, c.e - 1)),
                    written  |-> Written(From(s, c.e + 1)),
                    exp      |-> Written(From(s, c.e + 1)) - (IF c.dot < c.e THEN c.e - c.dot - 1 ELSE 0)]
<1>3. Spells(s) = {F(c) : c \in Cuts(s)}
  BY DEF Spells
<1>4. F([sign |-> g, dot |-> d, e |-> x]) = Spelt(Notated(s))
  <2>1. Notated(s) = [minus |-> Minus(s), scientific |-> x <= Len(s), e |-> SubSeq(s, x + 1, Len(s)),
                      int |-> SubSeq(s, g + 1, d - 1), frac |-> SubSeq(s, d + 1, x - 1)]
    BY <1>1, NotatedAt
  <2>2. Len(SubSeq(s, d + 1, x - 1)) = IF d < x THEN x - d - 1 ELSE 0
    <3>1. Len(s) \in Nat /\ g \in 0 .. 1 /\ d \in Nat /\ x \in Nat /\ g < d /\ d <= x /\ x <= Len(s) + 1
      BY <1>1 DEF Marks, Text
    <3>2. d + 1 \in Nat \ {0} /\ x - 1 \in 0 .. Len(s)
      BY <3>1
    <3>3. Len(SubSeq(s, d + 1, x - 1)) = IF d + 1 <= x - 1 THEN x - 1 - (d + 1) + 1 ELSE 0
      BY <3>2, Piece
    <3> QED
      BY <3>1, <3>3
  <2> DEFINE n == Notated(s)
             k == [sign |-> g, dot |-> d, e |-> x]
  <2>3. k.sign = g /\ k.dot = d /\ k.e = x
    OBVIOUS
  <2>4. F(k) = [negative |-> Minus(s), mantissa |-> Value(SubSeq(s, g + 1, d - 1) \o SubSeq(s, d + 1, x - 1)),
                written |-> Written(SubSeq(s, x + 1, Len(s))),
                exp |-> Written(SubSeq(s, x + 1, Len(s))) - (IF d < x THEN x - d - 1 ELSE 0)]
    BY <2>3, Zenon DEF From
  <2> HIDE DEF n
  <2>5. /\ n.minus = Minus(s) /\ n.e = SubSeq(s, x + 1, Len(s))
        /\ n.int = SubSeq(s, g + 1, d - 1) /\ n.frac = SubSeq(s, d + 1, x - 1)
    <3>1. n = [minus |-> Minus(s), scientific |-> x <= Len(s), e |-> SubSeq(s, x + 1, Len(s)),
               int |-> SubSeq(s, g + 1, d - 1), frac |-> SubSeq(s, d + 1, x - 1)]
      BY <2>1 DEF n
    <3> QED
      BY <3>1, Zenon
  <2>6. Spelt(n) = [negative |-> Minus(s), mantissa |-> Value(SubSeq(s, g + 1, d - 1) \o SubSeq(s, d + 1, x - 1)),
                    written |-> Written(SubSeq(s, x + 1, Len(s))),
                    exp |-> Written(SubSeq(s, x + 1, Len(s))) - Len(SubSeq(s, d + 1, x - 1))]
    BY <2>5, Zenon DEF Spelt
  <2> QED
    BY <2>2, <2>4, <2>6, Zenon DEF n
<1> HIDE DEF F
<1>5. CASE IsDecimal(s)
  BY <1>2, <1>3, <1>4, <1>5
<1>6. CASE ~IsDecimal(s)
  BY <1>2, <1>3, <1>6
<1> QED
  BY <1>5, <1>6

(* --------------------------- exact products ---------------------------- *)
\* Every product has a truncation.
LEMMA TruncatedExists ==
    ASSUME NEW n \in Nat, NEW e \in Int
    PROVE  \E r \in Nat : Truncated(n, e, r)
<1>1. CASE e >= 0
  <2>1. e \in Nat
    BY <1>1
  <2>2. Ten(e) \in Nat
    BY <2>1, TenTurns
  <2>3. n * Ten(e) \in Nat
    BY <2>2, TimesNat
  <2> QED
    BY <1>1, <2>3 DEF Truncated
<1>2. CASE ~(e >= 0)
  <2>1. -e \in Nat
    BY <1>2
  <2> DEFINE t == Ten(-e)
             r == n \div t
  <2>2. t \in Nat \ {0}
    BY <2>1, TenTurns
  <2> HIDE DEF t
  <2> DEFINE q == n % t
  <2>3. r \in Nat /\ n = t * r + q /\ q \in 0 .. t - 1
    BY <2>2, Z3
  <2> HIDE DEF r, q
  <2>4. r * t = t * r /\ t * r \in Nat /\ (r + 1) * t = t * r + t
    BY <2>2, <2>3, Z3
  <2> DEFINE p == t * r
  <2>5. n = p + q /\ q \in 0 .. t - 1 /\ p \in Nat /\ r * t = p /\ (r + 1) * t = p + t
    BY <2>3, <2>4
  <2> HIDE DEF p
  <2>6. r * t <= n /\ n < (r + 1) * t
    BY <2>2, <2>5
  <2> QED
    BY <1>2, <2>3, <2>6 DEF Truncated, t
<1> QED
  BY <1>1, <1>2

LEMMA ExactlyZero ==
    ASSUME NEW m \in Nat, NEW e \in Int, NEW f \in Nat, m * f = 0
    PROVE  Exactly([mantissa |-> m, exp |-> e], f) = Some(0)
BY DEF Exactly

\* Products with the same truncation are the same.
LEMMA ExactlySame ==
    ASSUME NEW m \in Nat, NEW e \in Int, NEW l \in Nat, NEW c \in Int, NEW f \in Nat,
           m * f # 0, l * f # 0, NEW r \in Nat, Truncated(m * f, e, r), Truncated(l * f, c, r)
    PROVE  Exactly([mantissa |-> m, exp |-> e], f) = Exactly([mantissa |-> l, exp |-> c], f)
<1>1. Exactly([mantissa |-> m, exp |-> e], f) = IF r > MaxWord THEN None ELSE Some(r)
  BY ExactlyTruncated
<1>2. Exactly([mantissa |-> l, exp |-> c], f) = IF r > MaxWord THEN None ELSE Some(r)
  BY ExactlyTruncated
<1> QED
  BY <1>1, <1>2

\* A product is none or one that a word holds.
LEMMA ExactlyTyped ==
    ASSUME NEW m \in Nat, NEW e \in Int, NEW f \in Nat
    PROVE  \/ Exactly([mantissa |-> m, exp |-> e], f) = None
           \/ \E n \in 0 .. MaxWord : Exactly([mantissa |-> m, exp |-> e], f) = Some(n)
<1>0. MaxWord \in Nat
  BY WordAssumption
<1>1. CASE m * f = 0
  BY <1>0, <1>1, ExactlyZero
<1>2. CASE m * f # 0
  <2>1. m * f \in Nat
    BY TimesNat
  <2>2. PICK r \in Nat : Truncated(m * f, e, r)
    BY <2>1, TruncatedExists
  <2>3. Exactly([mantissa |-> m, exp |-> e], f) = IF r > MaxWord THEN None ELSE Some(r)
    BY <1>2, <2>2, ExactlyTruncated
  <2>4. ~(r > MaxWord) => r \in 0 .. MaxWord
    BY <1>0
  <2> QED
    BY <2>3, <2>4
<1> QED
  BY <1>1, <1>2

\* Truncation does not see zeros that move from the number to the exponent.
LEMMA TruncatedShift ==
    ASSUME NEW n \in Nat, NEW k \in Nat, NEW e \in Int, NEW r \in Nat, Truncated(n, e + k, r)
    PROVE  Truncated(n * Ten(k), e, r)
<1> DEFINE t == Ten(k)
<1>1. t \in Nat \ {0}
  BY TenTurns
<1>2. CASE e >= 0
  <2>1. e \in Nat /\ e + k >= 0 /\ e + k = k + e
    BY <1>2
  <2>2. Ten(k + e) = t * Ten(e) /\ Ten(e) \in Nat
    BY <2>1, TenSum, TenTurns
  <2>3. r = n * (t * Ten(e))
    BY <2>1, <2>2 DEF Truncated
  <2>4. r = (n * t) * Ten(e)
    BY <1>1, <2>2, <2>3, TimesSwap
  <2> QED
    BY <1>2, <2>4 DEF Truncated
<1>3. CASE ~(e >= 0) /\ e + k >= 0
  <2>1. -e \in Nat /\ e + k \in Nat /\ k = (e + k) + -e
    BY <1>3
  <2> DEFINE a == Ten(e + k)
             b == Ten(-e)
  <2>2. t = a * b /\ a \in Nat \ {0} /\ b \in Nat \ {0}
    <3>1. Ten((e + k) + -e) = a * b
      BY <2>1, TenSum
    <3>2. a \in Nat \ {0} /\ b \in Nat \ {0}
      BY <2>1, TenTurns
    <3> QED
      BY <2>1, <3>1, <3>2
  <2>3. r = n * a
    BY <1>3 DEF Truncated
  <2> HIDE DEF t, a, b
  <2>4. n * t = r * b /\ r * b \in Nat /\ r * b < (r + 1) * b
    BY <2>2, <2>3, Z3
  <2>5. r * b <= n * t /\ n * t < (r + 1) * b
    BY <2>4
  <2> QED
    BY <1>3, <2>5 DEF Truncated, t, b
<1>4. CASE ~(e + k >= 0)
  <2>1. ~(e >= 0) /\ -e \in Nat /\ -(e + k) \in Nat /\ -e = -(e + k) + k
    BY <1>4
  <2> DEFINE a == Ten(-(e + k))
             b == Ten(-e)
  <2>2. b = a * t /\ a \in Nat \ {0}
    <3>1. Ten(-(e + k) + k) = a * t
      BY <2>1, TenSum
    <3>2. a \in Nat \ {0}
      BY <2>1, TenTurns
    <3> QED
      BY <2>1, <3>1, <3>2
  <2>3. r * a <= n /\ n < (r + 1) * a
    BY <1>4 DEF Truncated
  <2> HIDE DEF t, a, b
  <2>4. r * b = (r * a) * t /\ (r + 1) * b = ((r + 1) * a) * t
    BY <1>1, <2>2, Z3
  <2> DEFINE p == r * a
             q == (r + 1) * a
  <2>5. p \in Nat /\ q \in Nat /\ p <= n /\ n < q
    BY <2>2, <2>3, TimesNat
  <2> HIDE DEF p, q
  <2>6. p * t <= n * t /\ n * t < q * t
    BY <1>1, <2>5, Z3
  <2>7. r * b <= n * t /\ n * t < (r + 1) * b
    BY <2>4, <2>6 DEF p, q
  <2> QED
    BY <2>1, <2>7 DEF Truncated, t, b
<1> QED
  BY <1>2, <1>3, <1>4

\* Zeros at the end of the digits may move to the exponent.
LEMMA ExactlyShift ==
    ASSUME NEW m \in Nat, NEW k \in Nat, NEW e \in Int, NEW f \in Nat
    PROVE  Exactly([mantissa |-> m * Ten(k), exp |-> e], f) = Exactly([mantissa |-> m, exp |-> e + k], f)
<1> DEFINE t == Ten(k)
<1>1. t \in Nat \ {0} /\ e + k \in Int
  BY TenTurns
<1>2. m * t \in Nat /\ m * f \in Nat
  BY <1>1, TimesNat
<1> HIDE DEF t
<1>3. (m * t) * f = (m * f) * t /\ ((m * t) * f = 0 <=> m * f = 0)
  BY <1>1, Z3
<1>4. CASE m * f = 0
  BY <1>1, <1>2, <1>3, <1>4, ExactlyZero DEF t
<1>5. CASE m * f # 0
  <2>1. PICK r \in Nat : Truncated(m * f, e + k, r)
    BY <1>1, <1>2, TruncatedExists
  <2>2. Truncated((m * f) * t, e, r)
    BY <1>2, <2>1, TruncatedShift DEF t
  <2>3. Exactly([mantissa |-> m * t, exp |-> e], f) = Exactly([mantissa |-> m, exp |-> e + k], f)
    BY <1>1, <1>2, <1>3, <1>5, <2>1, <2>2, ExactlySame
  <2> QED
    BY <2>3 DEF t
<1> QED
  BY <1>4, <1>5

\* A factor is no larger than a word,
LEMMA FactorBelow ==
    ASSUME NEW f \in Factors PROVE f \in Nat /\ f <= Ten(MaxDigits) /\ Ten(MaxDigits) \in Nat /\ MaxDigits \in Nat
<1>1. f \in Nat /\ Base * f <= MaxWord + 1 /\ Base \in Nat \ {0} /\ MaxWord \in Nat
  BY Powers
<1>2. f <= MaxWord + 1
  <2>1. f * 1 <= f * Base /\ f * Base = Base * f /\ f * Base \in Nat
    BY <1>1, TimesGrows, TimesSwap, TimesNat
  <2> QED
    BY <1>1, <2>1
<1>3. MaxDigits \in Nat
  BY WordAssumption
<1>4. Ten(MaxDigits) \in Nat
  BY <1>3, TenTurns
<1> QED
  BY <1>1, <1>2, <1>3, <1>4, DigitsAssumption

\* and an exponent that saturates is beyond all that matters: the product is
\* none with it and without it, or nothing is left of it.
Saturates(e, max) == IF e > max THEN max ELSE IF e < -max THEN -max ELSE e

\* A large exponent leaves nothing that fits, a small one leaves zero,
LEMMA ExactlyHuge ==
    ASSUME NEW m \in Nat \ {0}, NEW f \in Nat \ {0}, NEW e \in Int, e >= MaxDigits
    PROVE  Exactly([mantissa |-> m, exp |-> e], f) = None
<1>1. MaxDigits \in Nat /\ MaxWord \in Nat /\ e \in Nat /\ e >= 0 /\ MaxDigits <= e
  BY WordAssumption
<1>2. m * f \in Nat \ {0}
  BY Z3
<1> DEFINE n == m * f
           r == n * Ten(e)
<1>3. Ten(e) \in Nat /\ Ten(MaxDigits) \in Nat /\ Ten(MaxDigits) <= Ten(e)
  BY <1>1, TenTurns, TenGrows
<1>4. r \in Nat /\ Ten(e) <= r
  <2>1. Ten(e) * 1 <= Ten(e) * n /\ Ten(e) * n = n * Ten(e) /\ r \in Nat
    BY <1>2, <1>3, TimesGrows, TimesSwap, TimesNat
  <2> HIDE DEF n
  <2> QED
    BY <1>3, <2>1
<1>5. r > MaxWord
  <2> HIDE DEF r
  <2> QED
    BY <1>1, <1>3, <1>4, DigitsAssumption
<1>6. Truncated(n, e, r)
  BY <1>1 DEF Truncated
<1> HIDE DEF r
<1>7. Exactly([mantissa |-> m, exp |-> e], f) = IF r > MaxWord THEN None ELSE Some(r)
  BY <1>2, <1>4, <1>6, ExactlyTruncated
<1> QED
  BY <1>5, <1>7

LEMMA ExactlyTiny ==
    ASSUME NEW m \in Nat, NEW f \in Nat, NEW e \in Int, e < 0, m * f < Ten(-e)
    PROVE  Exactly([mantissa |-> m, exp |-> e], f) = Some(0)
<1>1. -e \in Nat /\ ~(e >= 0) /\ m * f \in Nat /\ MaxWord \in Nat
  BY TimesNat, WordAssumption
<1>2. CASE m * f = 0
  BY <1>2, ExactlyZero
<1>3. CASE m * f # 0
  <2>1. Ten(-e) \in Nat
    BY <1>1, TenTurns
  <2>2. 0 * Ten(-e) = 0 /\ (0 + 1) * Ten(-e) = Ten(-e)
    BY <2>1
  <2>3. Truncated(m * f, e, 0)
    BY <1>1, <2>2 DEF Truncated
  <2>4. Exactly([mantissa |-> m, exp |-> e], f) = IF 0 > MaxWord THEN None ELSE Some(0)
    BY <1>3, <2>3, ExactlyTruncated
  <2> QED
    BY <1>1, <2>4
<1> QED
  BY <1>2, <1>3

\* so an exponent that saturates changes no product.
LEMMA ExactlySaturated ==
    ASSUME NEW l \in Nat, NEW m \in Nat, m < Ten(l), NEW k \in 0 .. l, NEW f \in Factors,
           NEW max \in Nat, l + MaxDigits <= max, NEW e \in Int
    PROVE  Exactly([mantissa |-> m, exp |-> Saturates(e, max) - k], f) = Exactly([mantissa |-> m, exp |-> e - k], f)
<1>1. f \in Nat /\ f <= Ten(MaxDigits) /\ Ten(MaxDigits) \in Nat /\ MaxDigits \in Nat
  BY FactorBelow
<1>2. Saturates(e, max) \in Int /\ Saturates(e, max) - k \in Int /\ e - k \in Int
  BY DEF Saturates
<1>3. CASE m = 0 \/ f = 0
  <2>1. m * f = 0
    BY <1>1, <1>3, Z3
  <2> QED
    BY <1>1, <1>2, <2>1, ExactlyZero
<1>4. CASE m # 0 /\ f # 0 /\ e > max
  <2>1. Saturates(e, max) - k >= MaxDigits /\ e - k >= MaxDigits
    BY <1>1, <1>4 DEF Saturates
  <2> QED
    BY <1>1, <1>2, <1>4, <2>1, ExactlyHuge
<1>5. CASE e < -max
  <2>1. Saturates(e, max) = -max
    BY <1>5 DEF Saturates
  <2>2. m * f < Ten(l + MaxDigits)
    <3> DEFINE a == Ten(l)
               b == Ten(MaxDigits)
    <3>1. Ten(l + MaxDigits) = a * b /\ a \in Nat \ {0} /\ b \in Nat \ {0} /\ m < a /\ f <= b
      BY <1>1, TenSum, TenTurns
    <3> HIDE DEF a, b
    <3>2. m * f <= m * b /\ m * b < a * b
      BY <1>1, <3>1, Z3
    <3>3. m * f \in Nat /\ m * b \in Nat /\ a * b \in Nat
      BY <1>1, <3>1, TimesNat
    <3> QED
      BY <3>1, <3>2, <3>3
  <2>3. ASSUME NEW c \in Int, c <= -max
        PROVE  Exactly([mantissa |-> m, exp |-> c - k], f) = Some(0)
    <3>1. CASE c - k < 0
      <4>1. -(c - k) \in Nat /\ l + MaxDigits \in Nat /\ l + MaxDigits <= -(c - k) /\ c - k \in Int
        BY <1>1, <2>3, <3>1
      <4>2. Ten(l + MaxDigits) <= Ten(-(c - k)) /\ Ten(l + MaxDigits) \in Nat /\ Ten(-(c - k)) \in Nat
        BY <4>1, TenGrows, TenTurns
      <4>3. m * f \in Nat
        BY <1>1, TimesNat
      <4>4. m * f < Ten(-(c - k))
        BY <2>2, <4>2, <4>3
      <4> QED
        BY <1>1, <3>1, <4>1, <4>4, ExactlyTiny
    <3>2. CASE ~(c - k < 0)
      <4>1. l = 0 /\ MaxDigits = 0 /\ max = 0 /\ c = 0 /\ k = 0 /\ l + MaxDigits = 0
        BY <1>1, <2>3, <3>2
      <4>2. m * f < 1 /\ m * f \in Nat
        BY <1>1, <2>2, <4>1, TenTurns, TimesNat
      <4>3. m * f = 0
        BY <4>2
      <4>4. c - k \in Int
        OBVIOUS
      <4> QED
        BY <1>1, <4>3, <4>4, ExactlyZero
    <3> QED
      BY <3>1, <3>2
  <2>4. e <= -max /\ -max \in Int /\ -max <= -max
    BY <1>5
  <2> QED
    BY <2>1, <2>3, <2>4
<1>6. CASE ~(e > max) /\ ~(e < -max)
  BY <1>6 DEF Saturates
<1> QED
  BY <1>1, <1>3, <1>4, <1>5, <1>6

(* --------------------------- what is written --------------------------- *)
LEMMA IntegerIs ==
    ASSUME NEW t \in Text, IsInteger(t)
    PROVE  /\ Unsigned(t) \in Text /\ Digits(Unsigned(t)) /\ Value(Unsigned(t)) \in Nat
           /\ t # <<>> /\ Written(t) = Signed(Minus(t), Value(Unsigned(t))) /\ Written(t) \in Int
           /\ \A max \in Nat : /\ UpToMax(t, max) = Saturates(Written(t), max)
                               /\ UpToMax(t, max) = Signed(Minus(t), IF Value(Unsigned(t)) > max THEN max ELSE Value(Unsigned(t)))
<1> DEFINE u == Unsigned(t)
           n == Value(u)
<1>1. u \in Text
  <2>1. CASE t # <<>> /\ t[1] \in Sign
    <3>1. Tail(t) \in Text
      BY <2>1 DEF Text
    <3> QED
      BY <2>1, <3>1 DEF Unsigned
  <2>2. CASE ~(t # <<>> /\ t[1] \in Sign)
    BY <2>2 DEF Unsigned
  <2> QED
    BY <2>1, <2>2
<1>2. u # <<>> /\ Digits(u)
  BY DEF IsInteger
<1>3. t # <<>>
  <2>1. SUFFICES ASSUME t = <<>> PROVE FALSE
    OBVIOUS
  <2>2. u = t
    BY <2>1 DEF Unsigned
  <2> QED
    BY <1>2, <2>1, <2>2
<1>4. n \in Nat
  BY <1>1, <1>2, CiphersTyped
<1>5. Written(t) = IF Minus(t) THEN -n ELSE n
  BY <1>3 DEF Written
<1>6. ASSUME NEW max \in Nat PROVE UpToMax(t, max) = IF Minus(t) THEN -(IF n > max THEN max ELSE n) ELSE IF n > max THEN max ELSE n
  <2>1. Reading(u, max) = IF n > max THEN max ELSE n
    BY <1>1, <1>2, ReadingIs
  <2> QED
    BY <2>1 DEF UpToMax, Signed
<1> HIDE DEF n
<1>7. ASSUME NEW max \in Nat PROVE UpToMax(t, max) = Saturates(Written(t), max)
  BY <1>4, <1>5, <1>6 DEF Saturates
<1> QED
  BY <1>1, <1>2, <1>3, <1>4, <1>5, <1>6, <1>7 DEF Signed, u, n

\* Part of a sequence.
LEMMA SliceIs ==
    ASSUME NEW S, NEW w \in Seq(S), NEW k \in Nat, NEW n \in Nat, k + n <= Len(w)
    PROVE  /\ [i \in 1 .. n |-> w[k + i]] \in Seq(S) /\ Len([i \in 1 .. n |-> w[k + i]]) = n
           /\ \A i \in 1 .. n : [j \in 1 .. n |-> w[k + j]][i] = w[k + i]
<1>1. \A i \in 1 .. n : k + i \in 1 .. Len(w)
  OBVIOUS
<1>2. \A i \in 1 .. n : w[k + i] \in S
  BY <1>1
<1> QED
  BY <1>2

\* Digits without the zeros around them.
LEMMA StrippedIs ==
    ASSUME NEW all \in Text, Digits(all)
    PROVE  LET first == FirstNot(all, {"0"})
               last  == LastNot(all, {"0"})
               g     == Stripped(all, first, last)
           IN  /\ g \in Seq(0 .. 9) /\ (g # <<>> => g[1] # 0)
               /\ g = <<>> <=> Value(all) = 0
               /\ first = 0 <=> Value(all) = 0
               /\ Mantissa(g) \in Nat
               /\ first # 0 => Len(all) - last \in Nat /\ Value(all) = Mantissa(g) * Ten(Len(all) - last)
               /\ first = 0 => Mantissa(g) = 0
<1> DEFINE first == FirstNot(all, {"0"})
           last  == LastNot(all, {"0"})
           g     == Stripped(all, first, last)
           w     == Ciphers(all)
<1>1. /\ Len(all) \in Nat /\ w \in Seq(0 .. 9) /\ Len(w) = Len(all)
      /\ \A i \in 1 .. Len(all) : w[i] = DigitOf[all[i]]
      /\ Value(all) = Upto(w, Len(all)) /\ Value(all) \in Nat
  BY CiphersTyped DEF Text
<1>2. \A i \in 1 .. Len(all) : all[i] \in Digit /\ (w[i] = 0 <=> all[i] = "0")
  BY <1>1, DigitsAre, DigitIs
<1>3. /\ first \in 0 .. Len(all)
      /\ first = 0 => \A i \in 1 .. Len(all) : all[i] = "0"
      /\ first # 0 => all[first] # "0" /\ \A i \in 1 .. first - 1 : all[i] = "0"
  <2>1. /\ first \in 0 .. Len(all)
        /\ first = 0 => \A i \in 1 .. Len(all) : all[i] \in {"0"}
        /\ first # 0 => all[first] \notin {"0"} /\ \A i \in 1 .. first - 1 : all[i] \in {"0"}
    BY FirstNotIs
  <2> QED
    BY <2>1
<1>4. /\ last \in 0 .. Len(all)
      /\ last # 0 => all[last] # "0"
      /\ \A i \in last + 1 .. Len(all) : all[i] = "0"
  <2>1. /\ last \in 0 .. Len(all)
        /\ last # 0 => all[last] \notin {"0"}
        /\ \A i \in last + 1 .. Len(all) : all[i] \in {"0"}
    BY LastNotIs
  <2> QED
    BY <2>1
<1>5. g = IF first = 0 THEN <<>> ELSE [i \in 1 .. last - first + 1 |-> DigitOf[all[first + i - 1]]]
  BY DEF Stripped
<1> HIDE DEF first, last, g, w
<1>6. CASE first = 0
  <2>1. g = <<>> /\ g \in Seq(0 .. 9) /\ Len(g) = 0
    BY <1>5, <1>6
  <2>2. Mantissa(g) = 0
    <3>1. Upto(g, 0) = 0
      BY <2>1, UptoTurns
    <3> QED
      BY <2>1, <3>1 DEF Mantissa, Upto
  <2>3. Value(all) = 0
    <3>1. \A i \in 1 .. Len(all) : w[i] = 0
      BY <1>2, <1>3, <1>6
    <3>2. Len(all) \in 0 .. Len(w)
      BY <1>1
    <3> QED
      BY <1>1, <3>1, <3>2, UptoBelow
  <2> QED
    BY <1>6, <2>1, <2>2, <2>3 DEF first, last, g
<1>7. CASE first # 0
  <2>1. first \in 1 .. Len(all) /\ last \in first .. Len(all)
    BY <1>1, <1>3, <1>4, <1>7
  <2> DEFINE n == last - first + 1
             k == Len(all) - last
  <2>2. n \in Nat /\ n >= 1 /\ k \in Nat /\ first - 1 \in Nat /\ (first - 1) + n = last /\ last + k = Len(all)
    BY <1>1, <2>1
  <2>3. \A i \in 1 .. n : first + i - 1 \in 1 .. Len(all) /\ (first - 1) + i = first + i - 1
    BY <1>1, <2>1
  <2>4. g = [i \in 1 .. n |-> w[(first - 1) + i]]
    <3>1. g = [i \in 1 .. n |-> DigitOf[all[first + i - 1]]]
      BY <1>5, <1>7
    <3>2. \A i \in 1 .. n : DigitOf[all[first + i - 1]] = w[(first - 1) + i]
      BY <1>1, <2>3
    <3> HIDE DEF n
    <3> QED
      BY <3>1, <3>2
  <2> HIDE DEF n, k
  <2>5. g \in Seq(0 .. 9) /\ Len(g) = n /\ \A i \in 1 .. n : g[i] = w[(first - 1) + i]
    <3> DEFINE k0 == first - 1
    <3>1. k0 \in Nat /\ k0 + n <= Len(w) /\ n \in Nat
      BY <1>1, <2>1, <2>2
    <3>2. g = [i \in 1 .. n |-> w[k0 + i]]
      BY <2>4
    <3> HIDE DEF k0
    <3>3. g \in Seq(0 .. 9) /\ Len(g) = n /\ \A i \in 1 .. n : g[i] = w[k0 + i]
      BY <1>1, <3>1, <3>2, SliceIs
    <3> QED
      BY <3>3 DEF k0
  <2>6. g[1] # 0 /\ g # <<>>
    <3>1. g[1] = w[first] /\ all[first] # "0"
      <4>1. 1 \in 1 .. n /\ (first - 1) + 1 = first
        BY <2>1, <2>2
      <4> QED
        BY <1>3, <1>7, <2>5, <4>1
    <3> QED
      BY <1>2, <2>1, <2>2, <2>5, <3>1
  <2>7. Mantissa(g) = Upto(g, n) /\ Mantissa(g) \in Nat /\ Upto(g, n) # 0
    <3>1. n \in 0 .. Len(g) /\ 1 \in 1 .. n
      BY <2>2, <2>5
    <3>2. Upto(g, n) \in Nat
      BY <2>5, <3>1, UptoTurns
    <3>3. Upto(g, n) # 0
      BY <2>5, <2>6, <3>1, UptoBelow
    <3> QED
      BY <2>5, <3>2, <3>3 DEF Mantissa, Upto
  <2>8. Upto(w, last) = Upto(g, n)
    <3>1. Upto(w, (first - 1) + n) = Upto(w, first - 1) * Ten(n) + Upto(g, n)
      <4>1. (first - 1) + n <= Len(w) /\ n <= Len(g)
        BY <1>1, <2>1, <2>2, <2>5
      <4> QED
        BY <1>1, <2>2, <2>5, <4>1, UptoSplit
    <3>2. Upto(w, first - 1) = 0
      <4>1. first - 1 \in 0 .. Len(w) /\ \A i \in 1 .. first - 1 : i \in 1 .. Len(all)
        BY <1>1, <2>1
      <4>2. \A i \in 1 .. first - 1 : w[i] = 0
        BY <1>2, <1>3, <1>7, <4>1
      <4> QED
        BY <1>1, <4>1, <4>2, UptoBelow
    <3>3. 0 * Ten(n) = 0 /\ Upto(g, n) \in Nat
      BY <2>2, <2>7, TenTurns
    <3> QED
      BY <2>2, <3>1, <3>2, <3>3
  <2>9. Upto(w, Len(all)) = Upto(w, last) * Ten(k)
    <3> DEFINE b == [i \in 1 .. k |-> 0]
    <3>1. b \in Seq(0 .. 9) /\ Len(b) = k /\ \A i \in 1 .. k : b[i] = 0
      BY <2>2
    <3> HIDE DEF b
    <3>2. \A i \in 1 .. k : last + i \in last + 1 .. Len(all) /\ last + i \in 1 .. Len(all)
      BY <1>1, <2>1, <2>2
    <3>3. \A i \in 1 .. k : b[i] = w[last + i]
      BY <1>2, <1>4, <3>1, <3>2
    <3>4. Upto(w, last + k) = Upto(w, last) * Ten(k) + Upto(b, k)
      <4>1. last \in Nat /\ last + k <= Len(w) /\ k <= Len(b) /\ k \in Nat /\ w \in Seq(0 .. 9) /\ b \in Seq(0 .. 9)
        BY <1>1, <2>1, <2>2, <3>1
      <4> QED
        BY <3>3, <4>1, UptoSplit
    <3>5. Upto(b, k) = 0
      <4>1. k \in 0 .. Len(b)
        BY <2>2, <3>1
      <4> QED
        BY <3>1, <4>1, UptoBelow
    <3>6. Upto(w, last) * Ten(k) \in Nat
      BY <2>2, <2>7, <2>8, TenTurns, TimesNat
    <3> QED
      BY <2>2, <3>4, <3>5, <3>6
  <2>10. Value(all) = Mantissa(g) * Ten(k)
    BY <1>1, <2>7, <2>8, <2>9
  <2>11. Value(all) # 0
    <3>1. Ten(k) \in Nat \ {0} /\ Mantissa(g) \in Nat \ {0}
      BY <2>2, <2>7, TenTurns
    <3> QED
      BY <2>10, <3>1, Z3
  <2> QED
    BY <1>7, <2>2, <2>5, <2>6, <2>7, <2>10, <2>11 DEF first, last, g, k
<1> QED
  BY <1>6, <1>7

\* The parts of a number.
LEMMA PartsAre ==
    ASSUME NEW s \in Text, IsDecimal(s)
    PROVE  LET n == Notated(s) IN
           /\ n.minus = Minus(s) /\ n.minus \in BOOLEAN /\ n.scientific \in BOOLEAN
           /\ n.int \in Text /\ n.frac \in Text /\ n.e \in Text
           /\ Digits(n.int) /\ Digits(n.frac)
           /\ n.int \o n.frac \in Text /\ Digits(n.int \o n.frac)
           /\ Len(n.int \o n.frac) = Len(n.int) + Len(n.frac)
           /\ Len(n.int \o n.frac) <= Len(s) /\ Len(n.int \o n.frac) # 0
           /\ n.scientific => IsInteger(n.e)
           /\ ~n.scientific => n.e = <<>>
<1> DEFINE n == Notated(s)
<1>1. PICK g, d, x : Marks(s, g, d, x)
  BY MarksExist
<1>2. n = [minus |-> Minus(s), scientific |-> x <= Len(s), e |-> SubSeq(s, x + 1, Len(s)),
           int |-> SubSeq(s, g + 1, d - 1), frac |-> SubSeq(s, d + 1, x - 1)]
  BY <1>1, NotatedAt
<1>3. /\ SubSeq(s, g + 1, d - 1) \in Text /\ SubSeq(s, d + 1, x - 1) \in Text
      /\ SubSeq(s, x + 1, Len(s)) \in Text
      /\ Len(SubSeq(s, g + 1, d - 1)) = d - g - 1
      /\ Len(SubSeq(s, d + 1, x - 1)) = IF d < x THEN x - d - 1 ELSE 0
  <2>1. /\ Len(s) \in Nat /\ g \in 0 .. 1 /\ d \in Nat /\ x \in Nat
        /\ g < d /\ d <= x /\ x <= Len(s) + 1
    BY <1>1 DEF Marks, Text
  <2>2. /\ g + 1 \in Nat \ {0} /\ d + 1 \in Nat \ {0} /\ x + 1 \in Nat \ {0}
        /\ d - 1 \in 0 .. Len(s) /\ x - 1 \in 0 .. Len(s) /\ Len(s) \in 0 .. Len(s)
    BY <2>1
  <2>3. SubSeq(s, g + 1, d - 1) \in Text /\ Len(SubSeq(s, g + 1, d - 1)) = IF g + 1 <= d - 1 THEN d - 1 - (g + 1) + 1 ELSE 0
    BY <2>2, Piece
  <2>4. SubSeq(s, d + 1, x - 1) \in Text /\ Len(SubSeq(s, d + 1, x - 1)) = IF d + 1 <= x - 1 THEN x - 1 - (d + 1) + 1 ELSE 0
    BY <2>2, Piece
  <2>5. SubSeq(s, x + 1, Len(s)) \in Text
    BY <2>2, Piece
  <2> QED
    BY <2>1, <2>3, <2>4, <2>5
<1>4. /\ n.minus = Minus(s) /\ n.scientific = (x <= Len(s)) /\ n.e = SubSeq(s, x + 1, Len(s))
      /\ n.int = SubSeq(s, g + 1, d - 1) /\ n.frac = SubSeq(s, d + 1, x - 1)
  <2> DEFINE z == x <= Len(s)
             m == Minus(s)
             e == SubSeq(s, x + 1, Len(s))
             i == SubSeq(s, g + 1, d - 1)
             f == SubSeq(s, d + 1, x - 1)
  <2>1. n = [minus |-> m, scientific |-> z, e |-> e, int |-> i, frac |-> f]
    BY <1>2
  <2> HIDE DEF n, z, m, e, i, f
  <2>2. n.minus = m /\ n.scientific = z /\ n.e = e /\ n.int = i /\ n.frac = f
    BY <2>1, Zenon
  <2> QED
    BY <2>2 DEF z, m, e, i, f
<1>5. /\ n.int \o n.frac # <<>> /\ Digits(n.int) /\ Digits(n.frac) /\ (n.scientific => IsInteger(n.e))
  BY DEF IsDecimal, Parses
<1> HIDE DEF n
<1>6. Len(s) \in Nat /\ g \in 0 .. 1 /\ d \in Nat /\ x \in Nat /\ g < d /\ d <= x /\ x <= Len(s) + 1
  BY <1>1 DEF Marks, Text
<1>7. ~n.scientific => n.e = <<>>
  <2>1. SUFFICES ASSUME ~n.scientific PROVE n.e = <<>>
    OBVIOUS
  <2>4. ~(x <= Len(s))
    BY <1>4, <2>1, Zenon
  <2>2. x = Len(s) + 1 /\ x + 1 = Len(s) + 2
    BY <1>6, <2>4
  <2>3. SubSeq(s, Len(s) + 2, Len(s)) = <<>>
    BY <1>6 DEF Text
  <2> QED
    BY <1>4, <2>2, <2>3
<1> DEFINE a == n.int
           b == n.frac
<1>8. /\ a \in Text /\ b \in Text /\ Len(a) = d - g - 1 /\ Len(b) = IF d < x THEN x - d - 1 ELSE 0
      /\ Digits(a) /\ Digits(b) /\ a \o b # <<>>
  BY <1>3, <1>4, <1>5
<1> HIDE DEF a, b
<1>9. /\ a \o b \in Text /\ Len(a \o b) = Len(a) + Len(b)
      /\ \A i \in 1 .. Len(a \o b) : (a \o b)[i] = IF i <= Len(a) THEN a[i] ELSE b[i - Len(a)]
      /\ Len(a) \in Nat /\ Len(b) \in Nat
  BY <1>8 DEF Text
<1>10. Len(a \o b) <= Len(s) /\ Len(a \o b) # 0
  <2>1. Len(a \o b) <= Len(s)
    BY <1>6, <1>8, <1>9
  <2>2. Len(a \o b) # 0
    BY <1>8, <1>9 DEF Text
  <2> QED
    BY <2>1, <2>2
<1>11. Digits(a \o b)
  <2>1. /\ \A i \in 1 .. Len(a) : a[i] \in Digit
        /\ \A i \in 1 .. Len(b) : b[i] \in Digit
    BY <1>8, DigitsAre
  <2>2. ASSUME NEW i \in 1 .. Len(a \o b) PROVE (a \o b)[i] \in Digit
    <3>1. CASE i <= Len(a)
      <4>1. i \in 1 .. Len(a)
        BY <1>9, <3>1
      <4> QED
        BY <1>9, <2>1, <3>1, <4>1
    <3>2. CASE ~(i <= Len(a))
      <4>1. i - Len(a) \in 1 .. Len(b)
        BY <1>9, <3>2
      <4> QED
        BY <1>9, <2>1, <3>2, <4>1
    <3> QED
      BY <3>1, <3>2
  <2> QED
    BY <1>9, <2>2, DigitsAre
<1>12. n.minus \in BOOLEAN /\ n.scientific \in BOOLEAN
  BY <1>4 DEF Minus
<1> QED
  BY <1>3, <1>4, <1>5, <1>7, <1>8, <1>9, <1>10, <1>11, <1>12 DEF n, a, b

\* The number a text is parsed as is the one it spells, for every product.
LEMMA NumberIs ==
    ASSUME NEW s \in Text, IsDecimal(s), Len(s) + MaxDigits <= MaxExponent, NEW f \in Factors
    PROVE  LET d == ParseDecimal(s)
               v == Spelt(Notated(s))
           IN  /\ d \in Numbers /\ d.negative = v.negative /\ (IsZero(d) <=> v.mantissa = 0)
               /\ v.mantissa \in Nat /\ v.exp \in Int /\ v.negative \in BOOLEAN
               /\ Exactly(v, f) = Exactly([mantissa |-> Mantissa(d.digits), exp |-> d.exp], f)
               /\ Exactly(v, f) = Exactly([mantissa |-> v.mantissa, exp |-> v.exp], f)
<1> DEFINE n     == Notated(s)
           all   == n.int \o n.frac
           first == FirstNot(all, {"0"})
           last  == LastNot(all, {"0"})
           g     == Stripped(all, first, last)
           z     == IF first = 0 THEN 0 ELSE Len(all) - last
           e     == IF n.scientific THEN UpToMax(n.e, MaxExponent) ELSE 0
           w     == Written(n.e)
           k     == Len(n.frac)
           m     == Value(all)
<1>1. /\ n.minus = Minus(s) /\ n.minus \in BOOLEAN /\ n.scientific \in BOOLEAN
      /\ n.frac \in Text /\ n.e \in Text /\ n.int \in Text
      /\ all \in Text /\ Digits(all) /\ Len(all) = Len(n.int) + k
      /\ Len(all) <= Len(s)
      /\ n.scientific => IsInteger(n.e)
      /\ ~n.scientific => n.e = <<>>
  BY PartsAre
<1>2. /\ ParseDecimal(s) = [negative |-> n.minus, digits |-> g, exp |-> e - k + z]
      /\ Spelt(n) = [negative |-> n.minus, mantissa |-> m, written |-> w, exp |-> w - k]
  BY DEF ParseDecimal, Parsed, Normal, Spelt
<1> HIDE DEF n
<1>3. /\ Len(s) \in Nat /\ Len(all) \in Nat /\ Len(n.int) \in Nat /\ k \in Nat /\ k <= Len(all)
      /\ MaxExponent \in Nat /\ MaxDigits \in Nat /\ Len(all) + MaxDigits <= MaxExponent
  <2>1. Len(s) \in Nat /\ Len(n.frac) \in Nat /\ Len(n.int) \in Nat
    BY <1>1 DEF Text
  <2>2. MaxExponent \in Nat /\ MaxDigits \in Nat
    BY UnitsAssumption, WordAssumption
  <2>3. Len(all) = Len(n.int) + k /\ Len(all) <= Len(s) /\ k = Len(n.frac)
    BY <1>1
  <2> HIDE DEF all, first, last, g, z, e, w, k, m
  <2>6. k \in Nat
    BY <2>1, <2>3
  <2>7. Len(all) = Len(n.int) + k
    BY <2>3
  <2>8. Len(all) \in Nat
    BY <2>1, <2>6, <2>7
  <2>4. Len(all) \in Nat /\ k \in Nat /\ k <= Len(all)
    BY <2>1, <2>6, <2>7, <2>8
  <2>5. Len(all) + MaxDigits <= MaxExponent
    <3>1. Len(all) <= Len(s)
      BY <2>3
    <3>2. Len(s) + MaxDigits <= MaxExponent
      OBVIOUS
    <3>3. Len(s) \in Nat /\ Len(all) \in Nat
      BY <2>1, <2>4
    <3> QED
      BY <2>2, <3>1, <3>2, <3>3
  <2> QED
    BY <2>1, <2>2, <2>4, <2>5
<1>4. /\ g \in Seq(0 .. 9) /\ (g # <<>> => g[1] # 0)
      /\ g = <<>> <=> m = 0
      /\ first = 0 <=> m = 0
      /\ Mantissa(g) \in Nat
      /\ first # 0 => Len(all) - last \in Nat /\ m = Mantissa(g) * Ten(Len(all) - last)
      /\ first = 0 => Mantissa(g) = 0
  BY <1>1, StrippedIs
<1>5. m \in Nat /\ m < Ten(Len(all))
  <2>1. Ciphers(all) \in Seq(0 .. 9) /\ Len(Ciphers(all)) = Len(all) /\ m = Upto(Ciphers(all), Len(all)) /\ m \in Nat
    BY <1>1, CiphersTyped
  <2> HIDE DEF all, m
  <2>2. Len(all) \in 0 .. Len(Ciphers(all))
    BY <1>3, <2>1
  <2> QED
    BY <2>1, <2>2, UptoBelow
<1> HIDE DEF all, first, last, g, m, k
<1>6. w \in Int /\ e = Saturates(w, MaxExponent)
  <2>1. CASE n.scientific
    BY <1>1, <1>3, <2>1, IntegerIs
  <2>2. CASE ~n.scientific
    <3>1. w = 0 /\ e = 0
      BY <1>1, <2>2 DEF Written
    <3> QED
      BY <1>3, <3>1 DEF Saturates
  <2> QED
    BY <1>1, <2>1, <2>2
<1> HIDE DEF w, e
<1>7. e \in Int /\ z \in Nat
  BY <1>3, <1>4, <1>6 DEF Saturates
<1>8. Exactly([mantissa |-> m, exp |-> w - k], f) = Exactly([mantissa |-> m, exp |-> e - k], f)
  <2>1. k \in 0 .. Len(all)
    BY <1>3
  <2> QED
    BY <1>3, <1>5, <1>6, <2>1, ExactlySaturated
<1>9. Exactly([mantissa |-> m, exp |-> e - k], f) = Exactly([mantissa |-> Mantissa(g), exp |-> e - k + z], f)
  <2>1. f \in Nat /\ e - k \in Int /\ e - k + z \in Int
    BY <1>3, <1>7, FactorBelow
  <2>2. CASE first = 0
    <3>1. m = 0 /\ Mantissa(g) = 0 /\ 0 * f = 0
      BY <1>4, <2>1, <2>2
    <3> QED
      BY <2>1, <3>1, ExactlyZero
  <2>3. CASE first # 0
    <3>1. z \in Nat /\ m = Mantissa(g) * Ten(z)
      BY <1>4, <1>7, <2>3
    <3> HIDE DEF z
    <3> QED
      BY <1>4, <2>1, <3>1, ExactlyShift
  <2> QED
    BY <2>2, <2>3
<1> DEFINE d == ParseDecimal(s)
           v == Spelt(n)
<1> HIDE DEF z
<1>10. d.negative = n.minus /\ d.digits = g /\ d.exp = e - k + z
  <2> DEFINE x == e - k + z
             b == n.minus
  <2>1. d = [negative |-> b, digits |-> g, exp |-> x]
    BY <1>2
  <2> HIDE DEF d, x, b
  <2>2. d.negative = b /\ d.digits = g /\ d.exp = x
    BY <2>1, Zenon
  <2> QED
    BY <2>2 DEF x, b
<1>11. v.negative = n.minus /\ v.mantissa = m /\ v.exp = w - k
  <2> DEFINE x == w - k
             b == n.minus
  <2>1. v = [negative |-> b, mantissa |-> m, written |-> w, exp |-> x]
    BY <1>2
  <2> HIDE DEF v, x, b
  <2>2. v.negative = b /\ v.mantissa = m /\ v.exp = x
    BY <2>1, Zenon
  <2> QED
    BY <2>2 DEF x, b
<1>12. d \in Numbers /\ (IsZero(d) <=> m = 0)
  <2> DEFINE x == e - k + z
             b == n.minus
  <2>1. x \in Int /\ b \in BOOLEAN
    BY <1>1, <1>3, <1>7
  <2>2. d = [negative |-> b, digits |-> g, exp |-> x]
    BY <1>2
  <2>3. IsZero(d) <=> g = <<>>
    BY <1>10 DEF IsZero
  <2> HIDE DEF x, b, d
  <2>4. d \in [negative : BOOLEAN, digits : Seq(0 .. 9), exp : Int]
    BY <1>4, <2>1, <2>2
  <2> QED
    BY <1>4, <1>10, <2>3, <2>4 DEF Numbers, d
<1> HIDE DEF v, d
<1>13. Exactly(v, f) = Exactly([mantissa |-> m, exp |-> w - k], f)
  <2> DEFINE u == [mantissa |-> m, exp |-> w - k]
  <2>1. v.mantissa = u.mantissa /\ v.exp = u.exp
    BY <1>11
  <2> HIDE DEF u
  <2>2. Exactly(v, f) = Exactly(u, f)
    BY <2>1, Zenon DEF Exactly
  <2> QED
    BY <2>2 DEF u
<1>14. w - k \in Int
  BY <1>3, <1>6
<1>15. /\ d \in Numbers /\ d.negative = v.negative /\ (IsZero(d) <=> v.mantissa = 0)
       /\ v.mantissa \in Nat /\ v.exp \in Int /\ v.negative \in BOOLEAN
  <2>1. d.negative = v.negative /\ v.negative \in BOOLEAN
    BY <1>1, <1>10, <1>11, Zenon
  <2> QED
    BY <1>5, <1>11, <1>12, <1>14, <2>1
<1>16. Exactly(v, f) = Exactly([mantissa |-> Mantissa(d.digits), exp |-> d.exp], f)
  BY <1>8, <1>9, <1>10, <1>13
<1>17. Exactly(v, f) = Exactly([mantissa |-> v.mantissa, exp |-> v.exp], f)
  BY <1>11, <1>13
<1> QED
  BY <1>15, <1>16, <1>17 DEF d, v, n

(* -------------------- where the number ends --------------------------- *)
\* The last character of a number.
LEMMA IntegerEnds ==
    ASSUME NEW t \in Text, IsInteger(t) PROVE Len(t) > 0 /\ t[Len(t)] \in Digit
<1>1. Unsigned(t) \in Text /\ Digits(Unsigned(t)) /\ Unsigned(t) # <<>> /\ t # <<>>
  BY IntegerIs DEF IsInteger
<1>2. Len(t) \in Nat /\ Len(t) > 0
  BY <1>1 DEF Text
<1> DEFINE u == Unsigned(t)
<1>3. Len(u) \in Nat /\ Len(u) > 0
  BY <1>1 DEF Text
<1>4. u[Len(u)] \in Digit
  <2>1. \A i \in 1 .. Len(u) : u[i] \in Digit
    BY <1>1, DigitsAre
  <2> HIDE DEF u
  <2> QED
    BY <1>3, <2>1
<1>5. CASE u = Tail(t)
  <2>1. Len(Tail(t)) = Len(t) - 1 /\ \A i \in 1 .. Len(Tail(t)) : Tail(t)[i] = t[i + 1]
    BY <1>1 DEF Text
  <2> HIDE DEF u
  <2>2. Len(u) \in 1 .. Len(Tail(t)) /\ Len(u) + 1 = Len(t)
    BY <1>2, <1>3, <1>5, <2>1
  <2> QED
    BY <1>2, <1>4, <1>5, <2>1, <2>2
<1>6. CASE u = t
  BY <1>2, <1>4, <1>6
<1>7. u = Tail(t) \/ u = t
  BY DEF Unsigned
<1> QED
  BY <1>5, <1>6, <1>7

\* A decimal ends with a digit or its point, never with a letter.
LEMMA DecimalEnds ==
    ASSUME NEW s \in Text, IsDecimal(s)
    PROVE  Len(s) > 0 /\ (s[Len(s)] \in Digit \/ s[Len(s)] = ".")
<1>1. PICK g, d, x : Marks(s, g, d, x)
  BY MarksExist
<1>2. /\ Len(s) \in Nat /\ g \in 0 .. 1 /\ d \in Nat /\ x \in Nat
      /\ g < d /\ d <= x /\ x <= Len(s) + 1
      /\ d < x => s[d] = "."
  BY <1>1 DEF Marks, Text
<1>3. /\ d - g - 1 > 0 \/ x - d - 1 > 0
      /\ \A i \in g + 1 .. d - 1 : s[i] \in Digit
      /\ \A i \in d + 1 .. x - 1 : s[i] \in Digit
      /\ x <= Len(s) => IsInteger(SubSeq(s, x + 1, Len(s)))
  BY <1>1, DecimalAt
<1>4. CASE x <= Len(s)
  <2> DEFINE t == SubSeq(s, x + 1, Len(s))
  <2>1. x + 1 \in Nat \ {0} /\ Len(s) \in 0 .. Len(s)
    BY <1>2
  <2>2. /\ t \in Text /\ Len(t) = (IF x + 1 <= Len(s) THEN Len(s) - (x + 1) + 1 ELSE 0)
        /\ \A k \in 1 .. Len(t) : t[k] = s[x + 1 + k - 1]
    BY <2>1, Piece
  <2>3. IsInteger(t)
    BY <1>3, <1>4
  <2> HIDE DEF t
  <2>4. Len(t) > 0 /\ t[Len(t)] \in Digit
    BY <2>2, <2>3, IntegerEnds
  <2>7. Len(t) = (IF x + 1 <= Len(s) THEN Len(s) - (x + 1) + 1 ELSE 0) /\ Len(t) > 0
    BY <2>2, <2>4
  <2>8. Len(t) \in Nat /\ Len(t) = Len(s) - x
    BY <1>2, <2>7
  <2>5. Len(t) \in 1 .. Len(t) /\ x + 1 + Len(t) - 1 = Len(s) /\ Len(s) > 0
    <3> DEFINE l == Len(t)
    <3>1. l \in Nat /\ l = Len(s) - x /\ l > 0
      BY <2>7, <2>8
    <3> HIDE DEF l
    <3>2. l \in 1 .. l /\ x + 1 + l - 1 = Len(s) /\ Len(s) > 0
      BY <1>2, <3>1
    <3> QED
      BY <3>2 DEF l
  <2>6. t[Len(t)] = s[Len(s)]
    BY <2>2, <2>5
  <2> QED
    BY <2>4, <2>5, <2>6
<1>5. CASE x = Len(s) + 1
  <2>1. CASE d = x
    <3>1. d - g - 1 > 0 /\ d - 1 = Len(s)
      BY <1>2, <1>3, <1>5, <2>1
    <3>2. Len(s) \in g + 1 .. d - 1 /\ Len(s) > 0
      BY <1>2, <3>1
    <3> QED
      BY <1>3, <3>2
  <2>2. CASE d = x - 1
    <3>1. d < x /\ d = Len(s) /\ Len(s) > 0
      BY <1>2, <1>5, <2>2
    <3> QED
      BY <1>2, <3>1
  <2>3. CASE d < x - 1
    <3>1. Len(s) \in d + 1 .. x - 1 /\ Len(s) > 0
      BY <1>2, <1>5, <2>3
    <3> QED
      BY <1>3, <3>1
  <2> QED
    BY <1>2, <2>1, <2>2, <2>3
<1> QED
  BY <1>2, <1>4, <1>5

\* The last character of a text that is not blank is the last when trimmed.
LEMMA TrimEnds ==
    ASSUME NEW s \in Text, Len(s) > 0, s[Len(s)] \notin Blank
    PROVE  Len(Trim(s)) > 0 /\ Trim(s)[Len(Trim(s))] = s[Len(s)]
<1> DEFINE t == Trim(s)
<1>1. PICK a \in Nat : Around(s, a, t)
  BY TrimIs
<1> HIDE DEF t
<1>2. /\ Len(s) \in Nat /\ Len(t) \in Nat /\ a + Len(t) <= Len(s)
      /\ \A i \in 1 .. Len(t) : t[i] = s[a + i]
      /\ \A i \in 1 .. a : s[i] \in Blank
      /\ \A i \in a + Len(t) + 1 .. Len(s) : s[i] \in Blank
  BY <1>1 DEF Around, Text
<1>3. a + Len(t) = Len(s)
  <2>1. SUFFICES ASSUME a + Len(t) < Len(s) PROVE FALSE
    BY <1>2
  <2>2. Len(s) \in a + Len(t) + 1 .. Len(s)
    BY <1>2, <2>1
  <2> QED
    BY <1>2, <2>2
<1>4. Len(t) > 0
  <2>1. SUFFICES ASSUME Len(t) = 0 PROVE FALSE
    BY <1>2
  <2>2. Len(s) \in 1 .. a
    BY <1>2, <1>3, <2>1
  <2> QED
    BY <1>2, <2>2
<1>5. Len(t) \in 1 .. Len(t)
  BY <1>2, <1>4
<1>6. t[Len(t)] = s[Len(s)]
  BY <1>2, <1>3, <1>5
<1> QED
  BY <1>4, <1>6 DEF t

\* A suffix is the end of the text.
LEMMA SuffixEnd ==
    ASSUME NEW w \in Text, NEW t \in Text, IsSuffix(w, t)
    PROVE  Len(t) - Len(w) \in 0 .. Len(t) /\ w = SubSeq(t, Len(t) - Len(w) + 1, Len(t))
<1>1. Len(w) \in Nat /\ Len(t) \in Nat /\ Len(w) <= Len(t) /\ \A i \in 1 .. Len(w) : w[i] = t[Len(t) - Len(w) + i]
  BY SuffixIs DEF Text
<1> DEFINE k == Len(t) - Len(w)
           p == SubSeq(t, k + 1, Len(t))
<1>2. k \in 0 .. Len(t) /\ k + 1 \in Nat \ {0} /\ Len(t) \in 0 .. Len(t)
  BY <1>1
<1>3. p \in Text /\ Len(p) = (IF k + 1 <= Len(t) THEN Len(t) - (k + 1) + 1 ELSE 0) /\ \A i \in 1 .. Len(p) : p[i] = t[k + 1 + i - 1]
  <2> HIDE DEF k
  <2> QED
    BY <1>2, Piece
<1> HIDE DEF p
<1>4. Len(p) = Len(w)
  BY <1>1, <1>3
<1>5. \A i \in 1 .. Len(w) : w[i] = p[i]
  <2> TAKE i \in 1 .. Len(w)
  <2>1. k + 1 + i - 1 = Len(t) - Len(w) + i
    BY <1>1
  <2> QED
    BY <1>1, <1>3, <1>4, <2>1
<1>6. w = p
  BY <1>3, <1>4, <1>5, SameText
<1> QED
  BY <1>2, <1>6 DEF p

\* The end of a text from a place on.
LEMMA EndSuffix ==
    ASSUME NEW t \in Text, NEW k \in 0 .. Len(t)
    PROVE  /\ SubSeq(t, k + 1, Len(t)) \in Text /\ Len(SubSeq(t, k + 1, Len(t))) = Len(t) - k
           /\ IsSuffix(SubSeq(t, k + 1, Len(t)), t)
<1> DEFINE p == SubSeq(t, k + 1, Len(t))
<1>1. Len(t) \in Nat /\ k + 1 \in Nat \ {0} /\ Len(t) \in 0 .. Len(t)
  BY DEF Text
<1>2. p \in Text /\ Len(p) = (IF k + 1 <= Len(t) THEN Len(t) - (k + 1) + 1 ELSE 0) /\ \A i \in 1 .. Len(p) : p[i] = t[k + 1 + i - 1]
  BY <1>1, Piece
<1> HIDE DEF p
<1>3. Len(p) = Len(t) - k /\ Len(p) <= Len(t)
  BY <1>1, <1>2
<1>4. \A i \in 1 .. Len(p) : p[i] = t[Len(t) - Len(p) + i]
  <2> TAKE i \in 1 .. Len(p)
  <2>1. k + 1 + i - 1 = Len(t) - Len(p) + i
    BY <1>1, <1>3
  <2> QED
    BY <1>2, <2>1
<1>5. IsSuffix(p, t)
  BY <1>2, <1>3, <1>4, SuffixIs
<1> QED
  BY <1>2, <1>3, <1>5 DEF p

\* A trimmed text is no longer.
LEMMA TrimShort == ASSUME NEW s \in Text PROVE Trim(s) \in Text /\ Len(Trim(s)) <= Len(s) /\ Trimmed(Trim(s))
<1> DEFINE t == Trim(s)
<1>1. t \in Text /\ Trimmed(t) /\ \E a \in Nat : Around(s, a, t)
  BY TrimIs
<1> HIDE DEF t
<1>2. PICK a \in Nat : Around(s, a, t)
  BY <1>1
<1>3. a + Len(t) <= Len(s) /\ Len(t) \in Nat /\ Len(s) \in Nat
  BY <1>1, <1>2 DEF Around, Text
<1> QED
  BY <1>1, <1>3 DEF t

\* A unit is letters.
UnitText == {w \in Text : \A i \in 1 .. Len(w) : w[i] \in Letter}

\* Where split_number_unit cuts: in front of the letters at the end.
LEMMA SplitIs ==
    ASSUME NEW t \in Text, Trimmed(t)
    PROVE  LET split == SplitNumberUnit(t) IN
           /\ split.number \in Text /\ split.unit \in UnitText
           /\ Len(split.number) <= Len(t)
           /\ IsSuffix(split.unit, t)
           /\ split.number = Trim(UpTo(t, Len(t) - Len(split.unit)))
           /\ Len(t) - Len(split.unit) = LastNot(t, Letter)
           /\ IsDecimal(t) => split.unit = <<>>
           /\ split.unit = <<>> => split.number = t
<1> DEFINE i == LastNot(t, Letter)
           u == SubSeq(t, i + 1, Len(t))
           p == SubSeq(t, 1, i)
           split == SplitNumberUnit(t)
<1>1. Len(t) \in Nat
  BY DEF Text
<1>2. /\ i \in 0 .. Len(t)
      /\ i # 0 => t[i] \notin Letter
      /\ \A k \in i + 1 .. Len(t) : t[k] \in Letter
  BY LastNotIs
<1>3. split = [number |-> Trim(p), unit |-> u]
  BY DEF SplitNumberUnit, SplitAfter, UpTo, From
<1>4. split.number = Trim(p) /\ split.unit = u
  <2> HIDE DEF split, p, u
  <2> QED
    BY <1>3, Zenon
<1> HIDE DEF i, split
<1>5. u \in Text /\ Len(u) = Len(t) - i /\ IsSuffix(u, t) /\ \A k \in 1 .. Len(u) : u[k] = t[i + 1 + k - 1]
  <2>1. i + 1 \in Nat \ {0} /\ Len(t) \in 0 .. Len(t)
    BY <1>1, <1>2
  <2> QED
    BY <1>2, <2>1, EndSuffix, Piece
<1>6. p \in Text /\ Len(p) = i
  <2>1. 1 \in Nat \ {0}
    OBVIOUS
  <2>2. p \in Text /\ Len(p) = IF 1 <= i THEN i - 1 + 1 ELSE 0
    BY <1>2, <2>1, Piece
  <2> HIDE DEF p
  <2> QED
    BY <1>1, <1>2, <2>2
<1>7. Len(t) - Len(u) = i
  <2> HIDE DEF u
  <2> QED
    BY <1>1, <1>2, <1>5
<1>8. u \in UnitText
  <2>1. \A k \in 1 .. Len(u) : i + 1 + k - 1 \in i + 1 .. Len(t)
    <3> HIDE DEF u
    <3> QED
      BY <1>1, <1>2, <1>5
  <2> HIDE DEF u
  <2> QED
    BY <1>2, <1>5, <2>1 DEF UnitText
<1>9. Trim(p) \in Text /\ Len(Trim(p)) <= Len(t)
  <2> HIDE DEF p
  <2>1. Trim(p) \in Text /\ Len(Trim(p)) <= i
    BY <1>6, TrimShort
  <2>2. Len(Trim(p)) \in Nat
    BY <2>1 DEF Text
  <2> QED
    BY <1>1, <1>2, <2>1, <2>2
<1>10. UpTo(t, Len(t) - Len(u)) = p
  BY <1>7 DEF UpTo
<1>11. u = <<>> <=> i = Len(t)
  <2> HIDE DEF u
  <2>1. u = <<>> <=> Len(u) = 0
    BY <1>5 DEF Text
  <2> QED
    BY <1>1, <1>2, <1>5, <2>1
<1>12. ASSUME IsDecimal(t) PROVE i = Len(t)
  <2>1. Len(t) > 0 /\ (t[Len(t)] \in Digit \/ t[Len(t)] = ".")
    BY <1>12, DecimalEnds
  <2>2. t[Len(t)] \notin Letter
    BY <2>1, CharactersDiffer
  <2>3. ~(i < Len(t))
    BY <1>1, <1>2, <2>2
  <2> QED
    BY <1>1, <1>2, <2>3
<1>13. ASSUME i = Len(t) PROVE Trim(p) = t
  <2>1. p = t
    BY <1>1, <1>13 DEF Text
  <2> QED
    BY <2>1, TrimKeeps
<1> HIDE DEF u, p
<1> QED
  BY <1>4, <1>5, <1>7, <1>8, <1>9, <1>10, <1>11, <1>12, <1>13 DEF i, split

\* A text means what the number in front of its letters says, in that unit.
LEMMA MeansAre ==
    ASSUME NEW raw \in Text, NEW units \in SUBSET UnitText
    PROVE  LET split == SplitNumberUnit(Trim(raw)) IN
           Means(raw, units) =
               IF split.unit \in units /\ IsDecimal(split.number)
               THEN {[value |-> Spelt(Notated(split.number)), unit |-> split.unit]} ELSE {}
<1> DEFINE t == Trim(raw)
           split == SplitNumberUnit(t)
           i == LastNot(t, Letter)
           Before(u) == Trim(UpTo(t, Len(t) - Len(u)))
           All(u) == {[value |-> v, unit |-> u] : v \in Spells(Before(u))}
           S == {w \in units : IsSuffix(w, t)}
<1>1. t \in Text /\ Trimmed(t) /\ Len(t) \in Nat
  <2>1. t \in Text /\ Trimmed(t)
    BY TrimIs
  <2> QED
    BY <2>1 DEF Text
<1>2. Means(raw, units) = UNION {All(u) : u \in S}
  BY DEF Means
<1> HIDE DEF t
<1>3. /\ split.number \in Text /\ split.unit \in UnitText
      /\ IsSuffix(split.unit, t)
      /\ split.number = Before(split.unit)
      /\ Len(t) - Len(split.unit) = i
  BY <1>1, SplitIs
<1>4. /\ i \in 0 .. Len(t)
      /\ i # 0 => t[i] \notin Letter
      /\ \A k \in i + 1 .. Len(t) : t[k] \in Letter
  BY <1>1, LastNotIs
<1> HIDE DEF split, i
<1>5. ASSUME NEW u \in S, u # split.unit PROVE All(u) = {}
  <2>1. u \in Text /\ IsSuffix(u, t) /\ \A k \in 1 .. Len(u) : u[k] \in Letter
    BY DEF UnitText
  <2> DEFINE j == Len(t) - Len(u)
             p == SubSeq(t, 1, j)
  <2>2. j \in 0 .. Len(t) /\ u = SubSeq(t, j + 1, Len(t))
    BY <1>1, <2>1, SuffixEnd
  <2>3. split.unit \in Text
    BY <1>3 DEF UnitText
  <2>4. split.unit = SubSeq(t, i + 1, Len(t))
    <3>1. split.unit = SubSeq(t, Len(t) - Len(split.unit) + 1, Len(t))
      BY <1>1, <1>3, <2>3, SuffixEnd
    <3> QED
      BY <1>3, <3>1
  <2>5. j # i
    BY <1>5, <2>2, <2>4
  <2>6. Len(u) = Len(t) - j /\ \A k \in 1 .. Len(u) : u[k] = t[j + 1 + k - 1]
    <3>1. j + 1 \in Nat \ {0} /\ Len(t) \in 0 .. Len(t) /\ Len(u) \in Nat
      BY <1>1, <2>1, <2>2 DEF Text
    <3>2. \A k \in 1 .. Len(SubSeq(t, j + 1, Len(t))) : SubSeq(t, j + 1, Len(t))[k] = t[j + 1 + k - 1]
      <4> HIDE DEF j
      <4> QED
        BY <1>1, <3>1, Piece
    <3>3. \A k \in 1 .. Len(u) : u[k] = t[j + 1 + k - 1]
      <4> HIDE DEF j
      <4> QED
        BY <2>2, <3>2
    <3>4. Len(u) = Len(t) - j
      BY <1>1, <3>1
    <3> QED
      BY <3>3, <3>4
  <2>7. ~(j < i)
    <3>1. SUFFICES ASSUME j < i PROVE FALSE
      OBVIOUS
    <3>2. i - j \in 1 .. Len(u) /\ j + 1 + (i - j) - 1 = i /\ i # 0
      <4> HIDE DEF j
      <4> QED
        BY <1>1, <1>4, <2>2, <2>6, <3>1
    <3>3. u[i - j] = t[i] /\ u[i - j] \in Letter
      BY <2>1, <2>6, <3>2
    <3> QED
      BY <1>4, <3>2, <3>3
  <2>8. j \in i + 1 .. Len(t)
    <3> HIDE DEF j
    <3> QED
      BY <1>1, <1>4, <2>2, <2>5, <2>7
  <2>9. p \in Text /\ Len(p) = j /\ Len(p) > 0 /\ p[Len(p)] = t[j]
    <3> HIDE DEF j
    <3>0. j \in 0 .. Len(t) /\ j > 0 /\ 1 \in Nat \ {0} /\ j \in Nat
      BY <1>1, <1>4, <2>8
    <3>1. p \in Text /\ Len(p) = (IF 1 <= j THEN j - 1 + 1 ELSE 0) /\ \A k \in 1 .. Len(p) : p[k] = t[1 + k - 1]
      BY <1>1, <3>0, Piece
    <3> HIDE DEF p
    <3>2. Len(p) = j
      BY <3>0, <3>1
    <3>3. j \in 1 .. Len(p) /\ 1 + j - 1 = j
      BY <3>0, <3>2
    <3>4. p[j] = t[j]
      BY <3>1, <3>3
    <3> QED
      BY <3>0, <3>1, <3>2, <3>4
  <2>10. p[Len(p)] \in Letter
    BY <1>4, <2>8, <2>9
  <2>11. Before(u) = Trim(p)
    BY DEF UpTo
  <2> HIDE DEF p, j
  <2>12. Len(Trim(p)) > 0 /\ Trim(p)[Len(Trim(p))] \in Letter /\ Trim(p) \in Text
    <3>1. p[Len(p)] \notin Blank
      BY <2>10, CharactersDiffer
    <3>2. Len(Trim(p)) > 0 /\ Trim(p)[Len(Trim(p))] = p[Len(p)] /\ Trim(p) \in Text
      BY <2>9, <3>1, TrimEnds, TrimIs
    <3> QED
      BY <2>10, <3>2
  <2>13. ~IsDecimal(Trim(p))
    <3>1. SUFFICES ASSUME IsDecimal(Trim(p)) PROVE FALSE
      OBVIOUS
    <3>2. Trim(p)[Len(Trim(p))] \in Digit \/ Trim(p)[Len(Trim(p))] = "."
      BY <2>12, <3>1, DecimalEnds
    <3> QED
      BY <2>12, <3>2, CharactersDiffer
  <2>14. Spells(Trim(p)) = {}
    BY <2>12, <2>13, SpellsAre
  <2> QED
    BY <2>11, <2>14
<1>6. All(split.unit) = IF IsDecimal(split.number)
                        THEN {[value |-> Spelt(Notated(split.number)), unit |-> split.unit]} ELSE {}
  <2>1. Spells(split.number) = IF IsDecimal(split.number) THEN {Spelt(Notated(split.number))} ELSE {}
    BY <1>3, SpellsAre
  <2>2. All(split.unit) = {[value |-> v, unit |-> split.unit] : v \in Spells(split.number)}
    BY <1>3
  <2> QED
    BY <2>1, <2>2
<1>7. split.unit \in S <=> split.unit \in units
  BY <1>3
<1> HIDE DEF All, S
<1>8. CASE split.unit \in units
  <2>1. UNION {All(u) : u \in S} = All(split.unit)
    BY <1>5, <1>7, <1>8
  <2> QED
    BY <1>2, <1>6, <1>8, <2>1 DEF split, t
<1>9. CASE split.unit \notin units
  <2>1. UNION {All(u) : u \in S} = {}
    BY <1>5, <1>7, <1>9
  <2> QED
    BY <1>2, <1>9, <2>1 DEF split, t
<1> QED
  BY <1>8, <1>9

\* Without a unit it is the number alone.
LEMMA BareMeans ==
    ASSUME NEW raw \in Text
    PROVE  Means(raw, {<<>>}) =
               IF IsDecimal(Trim(raw)) THEN {[value |-> Spelt(Notated(Trim(raw))), unit |-> <<>>]} ELSE {}
<1> DEFINE t == Trim(raw)
           split == SplitNumberUnit(t)
<1>1. t \in Text /\ Trimmed(t)
  BY TrimIs
<1>2. {<<>>} \in SUBSET UnitText
  BY DEF UnitText, Text
<1>3. Means(raw, {<<>>}) = IF split.unit \in {<<>>} /\ IsDecimal(split.number)
                           THEN {[value |-> Spelt(Notated(split.number)), unit |-> split.unit]} ELSE {}
  BY <1>2, MeansAre
<1> HIDE DEF t
<1>4. (IsDecimal(t) => split.unit = <<>>) /\ (split.unit = <<>> => split.number = t)
  BY <1>1, SplitIs
<1> HIDE DEF split
<1> QED
  BY <1>3, <1>4 DEF t

(* ------------------------------ the units ------------------------------ *)
\* A table of units and what they stand for.
Table(f, S) == DOMAIN f \subseteq UnitText /\ \A u \in DOMAIN f : f[u] \in S

\* The tables of the units: what they spell is letters, what they give is a factor.
LEMMA Singles ==
    ASSUME NEW S, NEW c \in S, NEW d \in S
    PROVE  <<>> \in Seq(S) /\ <<c>> \in Seq(S) /\ <<c, d>> \in Seq(S)
OBVIOUS

LEMMA Spellings ==
    /\ <<>> \in UnitText
    /\ \A c \in Letter : <<c>> \in UnitText
    /\ \A c, d \in Letter : <<c, d>> \in UnitText
<1>1. Letter \subseteq Char
  BY DEF Char
<1>2. Text = Seq(Char)
  BY DEF Text
<1>3. <<>> \in UnitText
  BY <1>2 DEF UnitText
<1>4. ASSUME NEW c \in Letter PROVE <<c>> \in UnitText
  <2>1. <<c>> \in Text
    BY <1>1, <1>2, Singles
  <2> QED
    BY <2>1 DEF UnitText
<1>5. ASSUME NEW c \in Letter, NEW d \in Letter PROVE <<c, d>> \in UnitText
  <2>1. <<c, d>> \in Text
    BY <1>1, <1>2, Singles
  <2> QED
    BY <2>1 DEF UnitText
<1> QED
  BY <1>3, <1>4, <1>5

LEMMA Letters ==
    /\ "m" \in Letter /\ "s" \in Letter /\ "n" \in Letter /\ "B" \in Letter /\ "b" \in Letter /\ "k" \in Letter
    /\ "E" \in Letter /\ "e" \in Letter /\ "d" \in Letter /\ "w" \in Letter /\ "o" \in Letter /\ "y" \in Letter
BY DEF Letter

LEMMA DurationTable ==
    Table(DurationUnit, Factors) /\ <<>> \in DOMAIN DurationUnit /\ DurationUnit[<<>>] = Milli
<1>1. 1 \in Factors /\ Milli \in Factors /\ Second \in Factors /\ Minute \in Factors
  BY UnitsAssumption
<1>2. DOMAIN DurationUnit = {<<>>, <<"m", "s">>, <<"n", "s">>, <<"s">>, <<"m">>}
  BY DEF DurationUnit
<1>3. \A u \in DOMAIN DurationUnit : u \in UnitText
  BY <1>2, Spellings, Letters
<1>4. \A u \in DOMAIN DurationUnit : DurationUnit[u] \in Factors
  BY <1>1, <1>2 DEF DurationUnit
<1>5. DurationUnit[<<>>] = Milli
  BY DEF DurationUnit
<1> QED
  BY <1>2, <1>3, <1>4, <1>5 DEF Table

LEMMA BytesTable ==
    Table(BytesUnit, Factors) /\ <<>> \in DOMAIN BytesUnit /\ BytesUnit[<<>>] = 1
<1>1. 1 \in Factors /\ Kilo \in Factors /\ Kibi \in Factors /\ Exa \in Factors /\ Exbi \in Factors
  BY UnitsAssumption
<1>2. DOMAIN BytesUnit = {<<>>, <<"B">>, <<"b">>, <<"k">>, <<"k", "B">>, <<"E", "B">>, <<"E">>, <<"e">>}
  BY DEF BytesUnit
<1>3. \A u \in DOMAIN BytesUnit : u \in UnitText
  BY <1>2, Spellings, Letters
<1>4. \A u \in DOMAIN BytesUnit : BytesUnit[u] \in Factors
  BY <1>1, <1>2 DEF BytesUnit
<1>5. BytesUnit[<<>>] = 1
  BY DEF BytesUnit
<1> QED
  BY <1>2, <1>3, <1>4, <1>5 DEF Table

Spans == {"days", "weeks", "months", "years"}

LEMMA PeriodTable == Table(PeriodUnit, Spans)
<1>2. DOMAIN PeriodUnit = {<<>>, <<"d">>, <<"w">>, <<"m">>, <<"m", "o">>, <<"y">>}
  BY DEF PeriodUnit
<1>3. \A u \in DOMAIN PeriodUnit : u \in UnitText
  BY <1>2, Spellings, Letters
<1>4. \A u \in DOMAIN PeriodUnit : PeriodUnit[u] \in Spans
  BY <1>2 DEF PeriodUnit, Spans
<1> QED
  BY <1>2, <1>3, <1>4 DEF Table

(* ----------------------- durations and byte sizes ---------------------- *)
RawTextIs == \A raw \in RawText : raw \in Text /\ Len(raw) \in Nat /\ Len(raw) + MaxDigits <= MaxExponent

LEMMA SeqGrows == ASSUME NEW S, NEW T, S \subseteq T, NEW s \in Seq(S) PROVE s \in Seq(T)
OBVIOUS

LEMMA RawTextsAre == RawTextIs
<1> SUFFICES ASSUME NEW raw \in RawText
             PROVE  raw \in Text /\ Len(raw) \in Nat /\ Len(raw) + MaxDigits <= MaxExponent
  BY DEF RawTextIs
<1> DEFINE S == STRING
<1>1. raw \in Seq(S) /\ Len(raw) + MaxDigits <= MaxExponent
  BY DEF RawText
<1>2. S \subseteq Char
  BY DEF Char
<1> HIDE DEF S
<1>3. raw \in Seq(Char)
  BY <1>1, <1>2, SeqGrows
<1> QED
  BY <1>1, <1>3 DEF Text

\* The number in front of the unit is short enough.
LEMMA SplitShort ==
    ASSUME NEW raw \in RawText
    PROVE  LET t == Trim(raw)  split == SplitNumberUnit(t)  IN
           /\ t \in Text /\ Trimmed(t) /\ Len(t) + MaxDigits <= MaxExponent
           /\ split.number \in Text /\ Len(split.number) + MaxDigits <= MaxExponent
<1> DEFINE t == Trim(raw)
           split == SplitNumberUnit(t)
<1>1. raw \in Text /\ Len(raw) \in Nat /\ Len(raw) + MaxDigits <= MaxExponent
  BY RawTextsAre DEF RawTextIs
<1>2. t \in Text /\ Len(t) <= Len(raw) /\ Trimmed(t)
  BY <1>1, TrimShort
<1> HIDE DEF t
<1>3. split.number \in Text /\ Len(split.number) <= Len(t)
  BY <1>2, SplitIs
<1> HIDE DEF split
<1>4. Len(t) \in Nat /\ Len(split.number) \in Nat
  BY <1>2, <1>3 DEF Text
<1>5. MaxDigits \in Nat /\ MaxExponent \in Nat
  BY UnitsAssumption, WordAssumption
<1>6. Len(t) + MaxDigits <= MaxExponent
  <2>1. Len(raw) \in Nat /\ Len(raw) + MaxDigits <= MaxExponent /\ Len(t) <= Len(raw)
    BY <1>1, <1>2
  <2> QED
    BY <1>4, <1>5, <2>1
<1>7. Len(split.number) + MaxDigits <= MaxExponent
  BY <1>3, <1>4, <1>5, <1>6
<1> QED
  BY <1>2, <1>3, <1>6, <1>7 DEF t, split

\* The product of a number and a factor, as the loops compute it.
Outcome(d, f) == Exactly([mantissa |-> Mantissa(d.digits), exp |-> d.exp], f)

\* The number that is parsed gives the product of the number that is spelt.
LEMMA OutcomeIs ==
    ASSUME NEW s \in Text, IsDecimal(s), Len(s) + MaxDigits <= MaxExponent, NEW f \in Factors
    PROVE  LET d == ParseDecimal(s)
               v == Spelt(Notated(s))
           IN  /\ d \in Numbers /\ (IsNegative(d) <=> BelowZero(v))
               /\ Exactly(v, f) = Outcome(d, f)
               /\ Outcome(d, f) = None \/ \E n \in 0 .. MaxWord : Outcome(d, f) = Some(n)
<1> DEFINE d == ParseDecimal(s)
           v == Spelt(Notated(s))
<1>1. /\ d \in Numbers /\ d.negative = v.negative /\ (IsZero(d) <=> v.mantissa = 0)
      /\ v.mantissa \in Nat /\ v.exp \in Int /\ v.negative \in BOOLEAN
      /\ Exactly(v, f) = Exactly([mantissa |-> Mantissa(d.digits), exp |-> d.exp], f)
      /\ Exactly(v, f) = Exactly([mantissa |-> v.mantissa, exp |-> v.exp], f)
  BY NumberIs
<1> HIDE DEF d, v
<1>2. IsNegative(d) <=> BelowZero(v)
  BY <1>1, Zenon DEF IsNegative, BelowZero
<1>3. Exactly(v, f) = Outcome(d, f)
  BY <1>1 DEF Outcome
<1>4. f \in Nat
  BY FactorBelow
<1>5. Exactly(v, f) = None \/ \E n \in 0 .. MaxWord : Exactly(v, f) = Some(n)
  BY <1>1, <1>4, ExactlyTyped
<1> QED
  BY <1>1, <1>2, <1>3, <1>5 DEF d, v

\* What a duration is worth, or a reason to refuse it.
Split(raw) == SplitNumberUnit(Trim(raw))
CutSpells(raw, units) == Split(raw).unit \in units /\ IsDecimal(Split(raw).number)

\* What a text is worth as a duration or a size, by the one cut that counts.
LEMMA DurationWorth ==
    ASSUME NEW raw \in RawText
    PROVE  /\ ~CutSpells(raw, DOMAIN DurationUnit) => WorthAsDuration(raw) = {}
           /\ CutSpells(raw, DOMAIN DurationUnit) =>
                  LET d == ParseDecimal(Split(raw).number)
                      f == DurationUnit[Split(raw).unit]
                      x == Outcome(d, f)
                  IN  /\ d \in Numbers /\ f \in Factors
                      /\ WorthAsDuration(raw) =
                             IF ~IsNegative(d) /\ x # None /\ x.n <= MaxNanos
                             THEN {<<x.n \div Second, x.n % Second>>} ELSE {}
<1> DEFINE split == Split(raw)
           v == Spelt(Notated(split.number))
           m == [value |-> v, unit |-> split.unit]
           d == ParseDecimal(split.number)
           f == DurationUnit[split.unit]
           x == Outcome(d, f)
           All == Means(raw, DOMAIN DurationUnit)
           E(w) == Exactly(w.value, DurationUnit[w.unit])
           Fits(w) == ~BelowZero(w.value) /\ E(w) # None /\ E(w).n <= MaxNanos
<1>1. WorthAsDuration(raw) = {<<E(w).n \div Second, E(w).n % Second>> : w \in {w \in All : Fits(w)}}
  BY DEF WorthAsDuration
<1>2. raw \in Text /\ DOMAIN DurationUnit \in SUBSET UnitText
  BY RawTextsAre, DurationTable DEF RawTextIs, Table
<1>3. All = IF CutSpells(raw, DOMAIN DurationUnit) THEN {m} ELSE {}
  BY <1>2, MeansAre DEF Split, CutSpells
<1>4. CASE ~CutSpells(raw, DOMAIN DurationUnit)
  <2>1. All = {}
    BY <1>3, <1>4
  <2> HIDE DEF All, E, Fits
  <2> QED
    BY <1>1, <1>4, <2>1
<1>5. CASE CutSpells(raw, DOMAIN DurationUnit)
  <2>1. split.number \in Text /\ Len(split.number) + MaxDigits <= MaxExponent
    BY SplitShort DEF Split
  <2>2. f \in Factors /\ IsDecimal(split.number)
    BY <1>5, DurationTable DEF Table, CutSpells
  <2> HIDE DEF f, split
  <2>3. d \in Numbers /\ (IsNegative(d) <=> BelowZero(v)) /\ Exactly(v, f) = x
    BY <2>1, <2>2, OutcomeIs
  <2> HIDE DEF d, v, x
  <2>4. m.value = v /\ m.unit = split.unit
    OBVIOUS
  <2> HIDE DEF m
  <2>5. E(m) = x
    BY <2>3, <2>4 DEF f
  <2>6. Fits(m) <=> ~IsNegative(d) /\ x # None /\ x.n <= MaxNanos
    BY <2>3, <2>4, <2>5
  <2>7. All = {m}
    BY <1>3, <1>5
  <2> HIDE DEF All, Fits, E
  <2>8. WorthAsDuration(raw) = IF Fits(m) THEN {<<E(m).n \div Second, E(m).n % Second>>} ELSE {}
    BY <1>1, <2>7
  <2>9. WorthAsDuration(raw) = IF ~IsNegative(d) /\ x # None /\ x.n <= MaxNanos
                               THEN {<<x.n \div Second, x.n % Second>>} ELSE {}
    BY <2>5, <2>6, <2>8
  <2> QED
    BY <1>5, <2>2, <2>3, <2>9 DEF d, f, x, split
<1> QED
  BY <1>4, <1>5

LEMMA BytesWorth ==
    ASSUME NEW raw \in RawText, NEW ty
    PROVE  LET units == IF ty = "number" THEN {<<>>} ELSE DOMAIN BytesUnit IN
           /\ ~CutSpells(raw, units) => WorthAsBytes(raw, ty) = {}
           /\ CutSpells(raw, units) =>
                  LET d == ParseDecimal(Split(raw).number)
                      f == BytesUnit[Split(raw).unit]
                      x == Outcome(d, f)
                  IN  /\ d \in Numbers /\ f \in Factors
                      /\ WorthAsBytes(raw, ty) =
                             IF x # None /\ x.n <= (IF IsNegative(d) THEN 0 ELSE MaxI64) THEN {x.n} ELSE {}
<1> DEFINE units == IF ty = "number" THEN {<<>>} ELSE DOMAIN BytesUnit
           split == Split(raw)
           v == Spelt(Notated(split.number))
           m == [value |-> v, unit |-> split.unit]
           d == ParseDecimal(split.number)
           f == BytesUnit[split.unit]
           x == Outcome(d, f)
           All == Means(raw, units)
           E(w) == Exactly(w.value, BytesUnit[w.unit])
           Fits(w) == E(w) # None /\ E(w).n <= IF BelowZero(w.value) THEN 0 ELSE MaxI64
<1>1. WorthAsBytes(raw, ty) = {E(w).n : w \in {w \in All : Fits(w)}}
  BY DEF WorthAsBytes
<1>2. raw \in Text /\ units \in SUBSET UnitText /\ units \subseteq DOMAIN BytesUnit
  BY RawTextsAre, BytesTable DEF RawTextIs, Table
<1> HIDE DEF units
<1>3. All = IF CutSpells(raw, units) THEN {m} ELSE {}
  BY <1>2, MeansAre DEF Split, CutSpells
<1>4. CASE ~CutSpells(raw, units)
  <2>1. All = {}
    BY <1>3, <1>4
  <2> HIDE DEF All, E, Fits
  <2>2. WorthAsBytes(raw, ty) = {}
    BY <1>1, <2>1
  <2> QED
    BY <1>4, <2>2 DEF units
<1>5. CASE CutSpells(raw, units)
  <2>1. split.number \in Text /\ Len(split.number) + MaxDigits <= MaxExponent
    BY SplitShort DEF Split
  <2>2. f \in Factors /\ IsDecimal(split.number)
    BY <1>2, <1>5, BytesTable DEF Table, CutSpells
  <2> HIDE DEF f, split
  <2>3. d \in Numbers /\ (IsNegative(d) <=> BelowZero(v)) /\ Exactly(v, f) = x
    BY <2>1, <2>2, OutcomeIs
  <2> HIDE DEF d, v, x
  <2>4. m.value = v /\ m.unit = split.unit
    OBVIOUS
  <2> HIDE DEF m
  <2>5. E(m) = x
    BY <2>3, <2>4 DEF f
  <2>6. Fits(m) <=> x # None /\ x.n <= (IF IsNegative(d) THEN 0 ELSE MaxI64)
    BY <2>3, <2>4, <2>5
  <2>7. All = {m}
    BY <1>3, <1>5
  <2> HIDE DEF All, Fits, E
  <2>8. WorthAsBytes(raw, ty) = IF Fits(m) THEN {E(m).n} ELSE {}
    BY <1>1, <2>7
  <2>9. WorthAsBytes(raw, ty) = IF x # None /\ x.n <= (IF IsNegative(d) THEN 0 ELSE MaxI64) THEN {x.n} ELSE {}
    BY <2>5, <2>6, <2>8
  <2> QED
    BY <1>5, <2>2, <2>3, <2>9 DEF d, f, x, split, units
<1> QED
  BY <1>4, <1>5 DEF units

\* An answer says what the text is worth.
Says(a, worth) == worth = IF a.t = "ok" THEN {a.n} ELSE {}

LEMMA ErrorSays == ASSUME NEW e PROVE Says(Error(e), {}) /\ Error(e).t = "error"
BY DEF Says, Error

LEMMA OkSays == ASSUME NEW n PROVE Says(Ok(n), {n}) /\ Ok(n).t = "ok" /\ Ok(n).n = n
BY DEF Says, Ok

LEMMA ProductParts ==
    ASSUME NEW d, NEW f
    PROVE  /\ Product(d, f).t = "product" /\ Product(d, f).number = d /\ Product(d, f).factor = f
           /\ Some(d) # None /\ Some(d).n = d
BY DEF Product, Some, None

\* A reader that needs no product answers at once.
LEMMA DurationStarts ==
    ASSUME NEW raw \in RawText, NEW ty
    PROVE  LET st == Start(raw, ty, "duration") IN
           \/ st.t = "error" /\ Says(st, WorthAsDuration(raw))
           \/ \E d \in Numbers, f \in Factors :
                  /\ st = Product(d, f)
                  /\ WorthAsDuration(raw) = IF Outcome(d, f) # None /\ Outcome(d, f).n <= MaxNanos
                                            THEN {<<Outcome(d, f).n \div Second, Outcome(d, f).n % Second>>} ELSE {}
<1> DEFINE t == Trim(raw)
           split == Split(raw)
           d == ParseDecimal(split.number)
           f == DurationUnit[split.unit]
           st == Start(raw, ty, "duration")
           good == CutSpells(raw, DOMAIN DurationUnit)
<1>1. st = StartDuration(t, ty)
  BY DEF Start
<1>2. t \in Text /\ Trimmed(t)
  BY SplitShort
<1>3. split = SplitNumberUnit(t)
  BY DEF Split
<1> HIDE DEF t
<1>4. (IsDecimal(t) => split.unit = <<>>) /\ (split.unit = <<>> => split.number = t)
  BY <1>2, <1>3, SplitIs
<1> HIDE DEF split
<1>5. <<>> \in DOMAIN DurationUnit /\ DurationUnit[<<>>] = Milli
  BY DurationTable
<1>6. \E e : st = IF good THEN NonNegative(d, f, e) ELSE Error(e)
  <2>1. CASE ty = "number" /\ IsDecimal(t)
    <3>1. good /\ d = ParseDecimal(t) /\ f = Milli
      BY <1>4, <1>5, <2>1 DEF CutSpells, split
    <3>2. st = NonNegative(d, f, "negative duration")
      BY <1>1, <2>1, <3>1 DEF StartDuration
    <3> QED
      BY <3>1, <3>2
  <2>2. CASE ~(ty = "number" /\ IsDecimal(t))
    <3>1. st = ParseDuration(split)
      BY <1>1, <1>3, <2>2 DEF StartDuration
    <3>2. good <=> ~(split.unit \notin DOMAIN DurationUnit \/ ~IsDecimal(split.number))
      BY DEF CutSpells, split
    <3>3. st = IF good THEN NonNegative(d, f, "invalid duration") ELSE Error("invalid duration")
      <4> HIDE DEF good
      <4> QED
        BY <3>1, <3>2 DEF ParseDuration
    <3> QED
      BY <3>3
  <2> QED
    BY <2>1, <2>2
<1>7. PICK e : st = IF good THEN NonNegative(d, f, e) ELSE Error(e)
  BY <1>6
<1> DEFINE x == Outcome(d, f)
<1>8. /\ ~good => WorthAsDuration(raw) = {}
      /\ good => /\ d \in Numbers /\ f \in Factors
                 /\ WorthAsDuration(raw) = IF ~IsNegative(d) /\ x # None /\ x.n <= MaxNanos
                                           THEN {<<x.n \div Second, x.n % Second>>} ELSE {}
  BY DurationWorth DEF split
<1> HIDE DEF good, d, f, st
<1>9. CASE ~good
  BY <1>7, <1>8, <1>9, ErrorSays DEF st
<1>10. CASE good /\ IsNegative(d)
  <2>1. st = Error(e)
    BY <1>7, <1>10 DEF NonNegative
  <2>2. WorthAsDuration(raw) = {}
    BY <1>8, <1>10
  <2> QED
    BY <2>1, <2>2, ErrorSays DEF st
<1>11. CASE good /\ ~IsNegative(d)
  <2>1. st = Product(d, f)
    BY <1>7, <1>11 DEF NonNegative
  <2>2. WorthAsDuration(raw) = IF x # None /\ x.n <= MaxNanos THEN {<<x.n \div Second, x.n % Second>>} ELSE {}
    BY <1>8, <1>11
  <2> QED
    BY <1>8, <1>11, <2>1, <2>2 DEF st
<1> QED
  BY <1>9, <1>10, <1>11

LEMMA BytesStarts ==
    ASSUME NEW raw \in RawText, NEW ty
    PROVE  LET st == Start(raw, ty, "bytes") IN
           \/ st.t = "error" /\ Says(st, WorthAsBytes(raw, ty))
           \/ \E d \in Numbers, f \in Factors :
                  /\ st = Product(d, f)
                  /\ WorthAsBytes(raw, ty) =
                         IF Outcome(d, f) # None /\ Outcome(d, f).n <= (IF IsNegative(d) THEN 0 ELSE MaxI64)
                         THEN {Outcome(d, f).n} ELSE {}
<1> DEFINE t == Trim(raw)
           units == IF ty = "number" THEN {<<>>} ELSE DOMAIN BytesUnit
           split == Split(raw)
           d == ParseDecimal(split.number)
           f == BytesUnit[split.unit]
           st == Start(raw, ty, "bytes")
           good == CutSpells(raw, units)
<1>1. st = StartBytes(t, ty)
  BY DEF Start
<1>2. t \in Text /\ Trimmed(t)
  BY SplitShort
<1>3. split = SplitNumberUnit(t)
  BY DEF Split
<1> HIDE DEF t
<1>4. (IsDecimal(t) => split.unit = <<>>) /\ (split.unit = <<>> => split.number = t)
  BY <1>2, <1>3, SplitIs
<1> HIDE DEF split
<1>5. <<>> \in DOMAIN BytesUnit /\ BytesUnit[<<>>] = 1
  BY BytesTable
<1>6. \E e : st = IF good THEN Product(d, f) ELSE Error(e)
  <2>1. CASE ty = "number"
    <3>1. good <=> IsDecimal(t)
      BY <1>4, <2>1 DEF CutSpells, split
    <3>2. good => d = ParseDecimal(t) /\ f = 1
      BY <1>4, <1>5, <2>1 DEF CutSpells, split
    <3>3. st = IF IsDecimal(t) THEN Product(ParseDecimal(t), 1) ELSE Error("expected byte size")
      BY <1>1, <2>1 DEF StartBytes
    <3> HIDE DEF good, d, f, st
    <3>4. st = IF good THEN Product(d, f) ELSE Error("expected byte size")
      BY <3>1, <3>2, <3>3
    <3> QED
      BY <3>4
  <2>2. CASE ty # "number"
    <3>1. st = ParseBytes(split)
      BY <1>1, <1>3, <2>2 DEF StartBytes
    <3>2. good <=> split.unit \in DOMAIN BytesUnit /\ IsDecimal(split.number)
      BY <2>2 DEF CutSpells, split
    <3>3. st = IF good THEN Product(d, f) ELSE Error("invalid byte size")
      <4> HIDE DEF good
      <4> QED
        BY <3>1, <3>2 DEF ParseBytes
    <3> QED
      BY <3>3
  <2> QED
    BY <2>1, <2>2
<1>7. PICK e : st = IF good THEN Product(d, f) ELSE Error(e)
  BY <1>6
<1> DEFINE x == Outcome(d, f)
<1>8. /\ ~good => WorthAsBytes(raw, ty) = {}
      /\ good => /\ d \in Numbers /\ f \in Factors
                 /\ WorthAsBytes(raw, ty) = IF x # None /\ x.n <= (IF IsNegative(d) THEN 0 ELSE MaxI64) THEN {x.n} ELSE {}
  BY BytesWorth DEF split
<1> HIDE DEF good, d, f, st
<1>9. CASE ~good
  BY <1>7, <1>8, <1>9, ErrorSays DEF st
<1>11. CASE good
  BY <1>7, <1>8, <1>11 DEF st
<1> QED
  BY <1>9, <1>11

\* Once the product is known, the limits and the casts lose nothing.
LEMMA DurationFinishes ==
    ASSUME product = None \/ \E n \in 0 .. MaxWord : product = Some(n)
    PROVE  /\ FinishDuration.t \in {"ok", "error"}
           /\ Says(FinishDuration, IF product # None /\ product.n <= MaxNanos
                                   THEN {<<product.n \div Second, product.n % Second>>} ELSE {})
<1>1. CASE product = None
  <2>1. FinishDuration = Error("duration too large")
    BY <1>1 DEF FinishDuration
  <2> QED
    BY <1>1, <2>1, ErrorSays
<1>2. CASE product # None
  <2>0. PICK n \in 0 .. MaxWord : product = Some(n)
    BY <1>2
  <2>1. product.n = n /\ n \in Nat
    BY <2>0, ProductParts
  <2>2. Second \in Nat \ {0} /\ MaxSeconds \in Nat
    <3>1. Second \in Factors /\ Factors \subseteq Nat /\ Second > 0
      BY UnitsAssumption, WordAssumption
    <3>2. Second \in Nat
      BY <3>1
    <3> QED
      BY <3>1, <3>2, UnitsAssumption
  <2>3. Second * (MaxSeconds + 1) = MaxSeconds * Second + Second /\ MaxSeconds * Second \in Nat
    BY <2>2, Z3
  <2>4. MaxNanos = Second * (MaxSeconds + 1) - 1 /\ MaxNanos \in Nat
    BY <2>2, <2>3 DEF MaxNanos
  <2>5. CASE n <= MaxNanos
    <3>1. n \in 0 .. Second * (MaxSeconds + 1) - 1 /\ MaxSeconds + 1 \in Nat \ {0}
      BY <2>1, <2>2, <2>4, <2>5
    <3>2. n \div Second \in 0 .. (MaxSeconds + 1) - 1
      BY <2>2, <3>1, QuotientBelow
    <3> DEFINE q == n \div Second
    <3>3. q \in 0 .. MaxSeconds
      BY <2>2, <3>2
    <3> HIDE DEF q
    <3>4. q % (MaxSeconds + 1) = q
      BY <2>2, <3>3, Z3
    <3>5. FinishDuration = Ok(<<q % (MaxSeconds + 1), n % Second>>)
      <4>1. ~(n > MaxNanos)
        BY <2>1, <2>4, <2>5
      <4> QED
        BY <1>2, <2>1, <4>1 DEF FinishDuration, q
    <3> QED
      BY <1>2, <2>1, <2>5, <3>4, <3>5, OkSays DEF q
  <2>6. CASE ~(n <= MaxNanos)
    <3>1. n > MaxNanos
      BY <2>1, <2>4, <2>6
    <3>2. FinishDuration = Error("duration too large")
      BY <2>1, <3>1 DEF FinishDuration
    <3> QED
      BY <2>1, <2>6, <3>2, ErrorSays
  <2> QED
    BY <2>5, <2>6
<1> QED
  BY <1>1, <1>2

LEMMA BytesFinishes ==
    ASSUME product = None \/ \E n \in 0 .. MaxWord : product = Some(n)
    PROVE  /\ FinishBytes.t \in {"ok", "error"}
           /\ Says(FinishBytes, IF product # None /\ product.n <= (IF IsNegative(number) THEN 0 ELSE MaxI64)
                                THEN {product.n} ELSE {})
<1>0. MaxI64 \in Nat /\ MaxI128 \in Nat /\ MaxI64 < MaxI128
  BY UnitsAssumption
<1>1. CASE product = None
  <2>1. FinishBytes = Error("invalid byte size")
    BY <1>1 DEF FinishBytes
  <2> QED
    BY <1>1, <2>1, ErrorSays
<1>2. CASE product # None
  <2>0. PICK n \in 0 .. MaxWord : product = Some(n)
    BY <1>2
  <2>1. product.n = n /\ n \in Nat
    BY <2>0, ProductParts
  <2>2. CASE n > MaxI128
    <3>1. FinishBytes = Error("invalid byte size")
      BY <2>1, <2>2 DEF FinishBytes
    <3>2. ~(n <= (IF IsNegative(number) THEN 0 ELSE MaxI64))
      BY <1>0, <2>1, <2>2
    <3> QED
      BY <2>1, <3>1, <3>2, ErrorSays
  <2>3. CASE ~(n > MaxI128) /\ IsNegative(number)
    <3>1. FinishBytes = Sized(-n)
      BY <1>2, <2>1, <2>3 DEF FinishBytes, Signed
    <3>2. CASE n = 0
      <4>0. -n = n /\ ~(n > MaxI64 \/ n < -MaxI64 - 1) /\ ~(n < 0)
        <5>1. \A i \in Int : 0 - i = -i
          OBVIOUS
        <5>2. -n = n
          <6>1. -n = 0 - n
            BY <2>1, <5>1
          <6>2. 0 - n = n
            BY <2>1, <3>2
          <6> QED
            BY <6>1, <6>2
        <5>3. \A i \in Nat : ~(i < 0)
          OBVIOUS
        <5>4. \A i, m \in Nat : i = 0 => ~(i > m \/ i < -m - 1)
          OBVIOUS
        <5> QED
          BY <1>0, <2>1, <3>2, <5>2, <5>3, <5>4
      <4>1. Sized(-n) = Ok(n)
        <5>1. Sized(n) = Ok(n)
          BY <4>0, Zenon DEF Sized
        <5> QED
          BY <4>0, <5>1
      <4>2. n <= 0
        BY <3>2
      <4>3. (IF product # None /\ product.n <= (IF IsNegative(number) THEN 0 ELSE MaxI64) THEN {product.n} ELSE {}) = {n}
        BY <1>2, <2>1, <2>3, <4>2
      <4> QED
        BY <3>1, <4>1, <4>3, OkSays
    <3>3. CASE n # 0
      <4>0. -n < 0 /\ ~(-n > MaxI64)
        BY <1>0, <2>1, <3>3
      <4>1. PICK e : Sized(-n) = Error(e)
        <5>1. Sized(-n) = Error("invalid byte size") \/ Sized(-n) = Error("negative byte size")
          BY <4>0 DEF Sized
        <5> QED
          BY <5>1
      <4>2. ~(n <= 0)
        BY <2>1, <3>3
      <4>3. (IF product # None /\ product.n <= (IF IsNegative(number) THEN 0 ELSE MaxI64) THEN {product.n} ELSE {}) = {}
        BY <2>1, <2>3, <4>2
      <4> QED
        BY <3>1, <4>1, <4>3, ErrorSays
    <3> QED
      BY <3>2, <3>3
  <2>4. CASE ~(n > MaxI128) /\ ~IsNegative(number)
    <3>1. FinishBytes = Sized(n)
      BY <1>2, <2>1, <2>4 DEF FinishBytes, Signed
    <3>2. CASE n <= MaxI64
      <4>0. ~(n > MaxI64 \/ n < -MaxI64 - 1) /\ ~(n < 0)
        BY <1>0, <2>1, <3>2
      <4>1. Sized(n) = Ok(n)
        BY <4>0, Zenon DEF Sized
      <4>3. (IF product # None /\ product.n <= (IF IsNegative(number) THEN 0 ELSE MaxI64) THEN {product.n} ELSE {}) = {n}
        BY <1>2, <2>1, <2>4, <3>2
      <4> QED
        BY <3>1, <4>1, <4>3, OkSays
    <3>3. CASE ~(n <= MaxI64)
      <4>0. n > MaxI64 /\ ~(n <= MaxI64)
        BY <1>0, <2>1, <3>3
      <4>1. Sized(n) = Error("invalid byte size")
        BY <4>0 DEF Sized
      <4>3. (IF product # None /\ product.n <= (IF IsNegative(number) THEN 0 ELSE MaxI64) THEN {product.n} ELSE {}) = {}
        BY <2>1, <2>4, <3>3
      <4> QED
        BY <3>1, <4>1, <4>3, ErrorSays
    <3> QED
      BY <3>2, <3>3
  <2> QED
    BY <2>2, <2>3, <2>4
<1> QED
  BY <1>1, <1>2

(* ------------------------- integers and periods ------------------------ *)
\* Without a point and an exponent, a number is an integer,
LEMMA IntegerChars ==
    ASSUME NEW t \in Text, IsInteger(t)
    PROVE  /\ \A i \in 1 .. Len(t) : t[i] \in Sign \cup Digit
           /\ Find(t, Exponent \cup {"."}) = 0
<1>1. Unsigned(t) \in Text /\ Digits(Unsigned(t)) /\ Unsigned(t) # <<>> /\ t # <<>>
  BY IntegerIs DEF IsInteger
<1>2. Len(t) \in Nat /\ Len(t) > 0
  BY <1>1 DEF Text
<1> DEFINE u == Unsigned(t)
<1>3. \A i \in 1 .. Len(u) : u[i] \in Digit
  BY <1>1, DigitsAre
<1>4. \A i \in 1 .. Len(t) : t[i] \in Sign \cup Digit
  <2>1. CASE t[1] \in Sign
    <3>1. u = Tail(t)
      BY <1>1, <2>1 DEF Unsigned
    <3>2. Len(Tail(t)) = Len(t) - 1 /\ \A i \in 1 .. Len(Tail(t)) : Tail(t)[i] = t[i + 1]
      BY <1>1 DEF Text
    <3> HIDE DEF u
    <3>3. ASSUME NEW i \in 1 .. Len(t), i # 1 PROVE t[i] \in Digit
      <4>1. i - 1 \in 1 .. Len(u) /\ (i - 1) + 1 = i
        BY <1>2, <3>1, <3>2, <3>3
      <4>2. u[i - 1] = t[i]
        BY <3>1, <3>2, <4>1
      <4> QED
        BY <1>3, <4>1, <4>2
    <3> QED
      BY <2>1, <3>3
  <2>2. CASE t[1] \notin Sign
    <3>1. u = t
      BY <2>2 DEF Unsigned
    <3> QED
      BY <1>3, <3>1
  <2> QED
    BY <2>1, <2>2
<1>5. \A i \in 1 .. Len(t) : t[i] \notin Exponent \cup {"."}
  BY <1>4, CharactersDiffer
<1> QED
  BY <1>4, <1>5, FindNone

\* A text without point and e is a decimal if it is an integer.
LEMMA PlainIs ==
    ASSUME NEW s \in Text, Find(s, Exponent \cup {"."}) = 0
    PROVE  /\ IsDecimal(s) <=> IsInteger(s)
           /\ IsDecimal(s) =>
                  LET v == Spelt(Notated(s)) IN
                  /\ v.negative = Minus(s) /\ v.mantissa = Value(Unsigned(s))
                  /\ v.written = 0 /\ v.exp = 0
<1>1. \A i \in 1 .. Len(s) : s[i] \notin Exponent \cup {"."}
  BY FindIs
<1>2. PICK g, d, x : Marks(s, g, d, x)
  BY MarksExist
<1>3. /\ Len(s) \in Nat /\ g \in 0 .. 1 /\ d \in Nat /\ x \in Nat
      /\ g < d /\ d <= x /\ x <= Len(s) + 1
      /\ x <= Len(s) => s[x] \in Exponent
      /\ d < x => s[d] = "."
  BY <1>2 DEF Marks, Text
<1>4. x = Len(s) + 1
  <2>1. SUFFICES ASSUME x # Len(s) + 1 PROVE FALSE
    OBVIOUS
  <2>2. x \in 1 .. Len(s)
    BY <1>3, <2>1
  <2> QED
    BY <1>1, <1>3, <2>2
<1>5. d = Len(s) + 1
  <2>1. SUFFICES ASSUME d # Len(s) + 1 PROVE FALSE
    OBVIOUS
  <2>2. d \in 1 .. Len(s) /\ d < x
    BY <1>3, <1>4, <2>1
  <2> QED
    BY <1>1, <1>3, <2>2
<1> DEFINE u == SubSeq(s, g + 1, Len(s))
           n == Notated(s)
<1>6. Unsigned(s) = u /\ g <= Len(s)
  BY <1>2, UnsignedIs
<1>7. u \in Text /\ Len(u) = Len(s) - g
  <2>1. g + 1 \in Nat \ {0} /\ Len(s) \in 0 .. Len(s)
    BY <1>3
  <2>2. u \in Text /\ Len(u) = (IF g + 1 <= Len(s) THEN Len(s) - (g + 1) + 1 ELSE 0)
    BY <2>1, Piece
  <2> HIDE DEF u
  <2> QED
    BY <1>3, <1>6, <2>2
<1>8. Digits(u) <=> \A k \in g + 1 .. Len(s) : s[k] \in Digit
  <2>1. g + 1 \in Nat \ {0} /\ Len(s) \in 0 .. Len(s)
    BY <1>3
  <2> QED
    BY <2>1, PieceDigits
<1>9. IsDecimal(s) <=> (Len(s) - g > 0 /\ \A k \in g + 1 .. Len(s) : s[k] \in Digit)
  <2>1. IsDecimal(s) <=> /\ d - g - 1 > 0 \/ x - d - 1 > 0
                         /\ \A i \in g + 1 .. d - 1 : s[i] \in Digit
                         /\ \A i \in d + 1 .. x - 1 : s[i] \in Digit
                         /\ x <= Len(s) => IsInteger(SubSeq(s, x + 1, Len(s)))
    BY <1>2, DecimalAt
  <2>2. d - 1 = Len(s) /\ d - g - 1 = Len(s) - g /\ ~(x - d - 1 > 0) /\ ~(x <= Len(s))
    BY <1>3, <1>4, <1>5
  <2>3. \A i \in d + 1 .. x - 1 : FALSE
    BY <1>3, <1>4, <1>5
  <2> QED
    BY <2>1, <2>2, <2>3
<1>10. IsInteger(s) <=> (u # <<>> /\ Digits(u))
  BY <1>6 DEF IsInteger
<1>11. (u # <<>>) <=> Len(s) - g > 0
  <2> HIDE DEF u
  <2>1. (u # <<>>) <=> Len(u) > 0
    BY <1>7 DEF Text
  <2> QED
    BY <1>7, <2>1
<1>12. IsDecimal(s) <=> IsInteger(s)
  BY <1>8, <1>9, <1>10, <1>11
<1>13. n = [minus |-> Minus(s), scientific |-> x <= Len(s), e |-> SubSeq(s, x + 1, Len(s)),
            int |-> SubSeq(s, g + 1, d - 1), frac |-> SubSeq(s, d + 1, x - 1)]
  BY <1>2, NotatedAt
<1>14. n.minus = Minus(s) /\ n.e = SubSeq(s, x + 1, Len(s)) /\ n.int = SubSeq(s, g + 1, d - 1)
       /\ n.frac = SubSeq(s, d + 1, x - 1)
  <2> HIDE DEF n
  <2> QED
    BY <1>13
<1>15. SubSeq(s, x + 1, Len(s)) = <<>> /\ SubSeq(s, d + 1, x - 1) = <<>>
  <2>10. x - 1 \in 0 .. Len(s) /\ d + 1 \in Nat \ {0}
    BY <1>3
  <2>11. SubSeq(s, x + 1, Len(s)) \in Text /\ SubSeq(s, d + 1, x - 1) \in Text
    BY <1>2, DecimalAt
  <2>12. Len(SubSeq(s, d + 1, x - 1)) = IF d + 1 <= x - 1 THEN x - 1 - (d + 1) + 1 ELSE 0
    BY <2>10, Piece
  <2>1. SubSeq(s, x + 1, Len(s)) \in Text /\ SubSeq(s, d + 1, x - 1) \in Text
        /\ Len(SubSeq(s, d + 1, x - 1)) = IF d + 1 <= x - 1 THEN x - 1 - (d + 1) + 1 ELSE 0
    BY <2>11, <2>12
  <2>2. x + 1 \in Nat \ {0} /\ Len(s) \in 0 .. Len(s) /\ ~(x + 1 <= Len(s))
    BY <1>3, <1>4
  <2>3. Len(SubSeq(s, x + 1, Len(s))) = (IF x + 1 <= Len(s) THEN Len(s) - (x + 1) + 1 ELSE 0)
    BY <2>2, Piece
  <2>6. ~(d + 1 <= x - 1)
    BY <1>3, <1>4, <1>5
  <2> DEFINE y == SubSeq(s, x + 1, Len(s))
             z == SubSeq(s, d + 1, x - 1)
  <2>7. Len(y) = IF x + 1 <= Len(s) THEN Len(s) - (x + 1) + 1 ELSE 0
    BY <2>3
  <2>8. Len(z) = IF d + 1 <= x - 1 THEN x - 1 - (d + 1) + 1 ELSE 0
    BY <2>1
  <2> HIDE DEF y, z
  <2>9. Len(y) = 0 /\ Len(z) = 0
    BY <2>2, <2>6, <2>7, <2>8
  <2>4. Len(SubSeq(s, x + 1, Len(s))) = 0 /\ Len(SubSeq(s, d + 1, x - 1)) = 0
    BY <2>9 DEF y, z
  <2>5. \A w \in Text : Len(w) = 0 => w = <<>>
    BY DEF Text
  <2> QED
    BY <2>1, <2>4, <2>5
<1>16. n.int = u /\ n.frac = <<>> /\ n.e = <<>>
  <2>1. d - 1 = Len(s)
    BY <1>3, <1>5
  <2> HIDE DEF n
  <2> QED
    BY <1>14, <1>15, <2>1
<1>17. n.int \o n.frac = u
  <2> HIDE DEF n, u
  <2> QED
    BY <1>7, <1>16 DEF Text
<1>18. Written(n.e) = 0
  BY <1>16 DEF Written
<1>19. Written(n.e) - Len(n.frac) = 0
  BY <1>16, <1>18
<1> DEFINE v == Spelt(n)
<1>20. v.negative = n.minus /\ v.mantissa = Value(n.int \o n.frac) /\ v.written = Written(n.e)
       /\ v.exp = Written(n.e) - Len(n.frac)
  <2> HIDE DEF n
  <2> QED
    BY DEF Spelt
<1> HIDE DEF v
<1>21. v.negative = Minus(s) /\ v.mantissa = Value(Unsigned(s)) /\ v.written = 0 /\ v.exp = 0
  BY <1>6, <1>14, <1>17, <1>18, <1>19, <1>20
<1> QED
  BY <1>12, <1>21 DEF v, n

\* How a period is cut: at its first letter or blank.
PeriodSplit(t) == SplitPeriod(t, FirstNot(t, Sign \cup DOMAIN DigitOf))

\* t is m, blanks up to l, and u.
ShapeAt(t, m, u, l) ==
    /\ l \in Nat /\ Len(m) <= l /\ l + Len(u) = Len(t)
    /\ \A i \in 1 .. Len(m) : m[i] = t[i]
    /\ \A i \in Len(m) + 1 .. l : t[i] \in Blank
    /\ \A i \in 1 .. Len(u) : u[i] = t[l + i]

LEMMA IntegerTrimmed == ASSUME NEW m \in Text, IsInteger(m) PROVE Trimmed(m) /\ Len(m) \in Nat /\ Len(m) > 0
<1>1. Len(m) \in Nat /\ Len(m) > 0
  BY IntegerEnds DEF Text
<1>2. m[1] \in Sign \cup Digit /\ m[Len(m)] \in Sign \cup Digit
  BY <1>1, IntegerChars
<1> QED
  BY <1>1, <1>2, CharactersDiffer DEF Trimmed

LEMMA UnitTrimmed == ASSUME NEW u \in UnitText PROVE u \in Text /\ Trimmed(u) /\ Len(u) \in Nat
<1>1. u \in Text /\ Len(u) \in Nat /\ \A i \in 1 .. Len(u) : u[i] \in Letter
  BY DEF UnitText, Text
<1>2. ASSUME Len(u) > 0 PROVE u[1] \in Letter /\ u[Len(u)] \in Letter
  BY <1>1, <1>2
<1> QED
  BY <1>1, <1>2, CharactersDiffer DEF Trimmed

\* The letters behind an integer and blanks are its unit,
LEMMA ShapeNumber ==
    ASSUME NEW t \in Text, NEW m \in Text, IsInteger(m), NEW u \in UnitText, NEW l, ShapeAt(t, m, u, l)
    PROVE  SplitNumberUnit(t).number = m /\ SplitNumberUnit(t).unit = u
<1>1. Trimmed(m) /\ Len(m) \in Nat /\ Len(m) > 0 /\ u \in Text /\ Len(u) \in Nat /\ Len(t) \in Nat
  BY IntegerTrimmed, UnitTrimmed DEF Text
<1>2. /\ l \in Nat /\ Len(m) <= l /\ l + Len(u) = Len(t)
      /\ \A i \in 1 .. Len(m) : m[i] = t[i]
      /\ \A i \in Len(m) + 1 .. l : t[i] \in Blank
      /\ \A i \in 1 .. Len(u) : u[i] = t[l + i]
  BY DEF ShapeAt
<1>3. l \in 1 .. Len(t) /\ l \in 0 .. Len(t) /\ 1 \in Nat \ {0}
  BY <1>1, <1>2
<1>4. t[l] \notin Letter
  <2>1. CASE l = Len(m)
    <3>1. m[l] = t[l] /\ m[l] \in Digit
      BY <1>1, <1>2, <2>1, IntegerEnds
    <3> QED
      BY <3>1, CharactersDiffer
  <2>2. CASE l # Len(m)
    <3>1. l \in Len(m) + 1 .. l
      BY <1>1, <1>2, <2>2
    <3>2. t[l] \in Blank
      BY <1>2, <3>1
    <3> QED
      BY <3>2, CharactersDiffer
  <2> QED
    BY <2>1, <2>2
<1>5. \A i \in l + 1 .. Len(t) : t[i] \in Letter
  <2> TAKE i \in l + 1 .. Len(t)
  <2>1. i - l \in 1 .. Len(u) /\ l + (i - l) = i
    BY <1>1, <1>2
  <2>2. u[i - l] = t[i] /\ u[i - l] \in Letter
    BY <1>2, <2>1 DEF UnitText
  <2> QED
    BY <2>2
<1>6. LastNot(t, Letter) = l
  BY <1>3, <1>4, <1>5, LastNotAt
<1> DEFINE p == SubSeq(t, 1, l)
           q == SubSeq(t, l + 1, Len(t))
<1>7. p \in Text /\ Len(p) = (IF 1 <= l THEN l - 1 + 1 ELSE 0) /\ \A k \in 1 .. Len(p) : p[k] = t[1 + k - 1]
  BY <1>3, Piece
<1>8. l + 1 \in Nat \ {0} /\ Len(t) \in 0 .. Len(t)
  BY <1>1, <1>2
<1>9. q \in Text /\ Len(q) = (IF l + 1 <= Len(t) THEN Len(t) - (l + 1) + 1 ELSE 0)
      /\ \A k \in 1 .. Len(q) : q[k] = t[l + 1 + k - 1]
  BY <1>8, Piece
<1>10. SplitNumberUnit(t) = [number |-> Trim(p), unit |-> q]
  BY <1>6 DEF SplitNumberUnit, SplitAfter, UpTo, From
<1> HIDE DEF p, q
<1>11. Len(p) = l
  BY <1>3, <1>7
<1>12. Len(q) = Len(u)
  BY <1>1, <1>2, <1>9
<1>13. Around(p, 0, m)
  <2>1. 0 \in Nat /\ 0 + Len(m) <= Len(p)
    BY <1>1, <1>2, <1>11
  <2>2. ASSUME NEW i \in 1 .. Len(m) PROVE m[i] = p[0 + i]
    <3>1. i \in 1 .. Len(p) /\ 1 + i - 1 = i /\ 0 + i = i
      BY <1>1, <1>2, <1>11
    <3> QED
      BY <1>2, <1>7, <3>1
  <2>3. ASSUME NEW i \in 0 + Len(m) + 1 .. Len(p) PROVE p[i] \in Blank
    <3>1. i \in 1 .. Len(p) /\ 1 + i - 1 = i /\ i \in Len(m) + 1 .. l
      BY <1>1, <1>2, <1>11
    <3>2. p[i] = t[i]
      BY <1>7, <3>1
    <3> QED
      BY <1>2, <3>1, <3>2
  <2>4. \A i \in 1 .. 0 : p[i] \in Blank
    OBVIOUS
  <2> QED
    BY <2>1, <2>2, <2>3, <2>4 DEF Around
<1>14. Trim(p) = m
  BY <1>1, <1>7, <1>13, AroundTrim
<1>15. q = u
  <2>1. ASSUME NEW i \in 1 .. Len(q) PROVE q[i] = u[i]
    <3>1. l + 1 + i - 1 = l + i /\ i \in 1 .. Len(u)
      BY <1>1, <1>2, <1>12
    <3> QED
      BY <1>2, <1>9, <3>1
  <2> QED
    BY <1>1, <1>9, <1>12, <2>1, SameText
<1> QED
  BY <1>10, <1>14, <1>15

\* and so are they for a period.
LEMMA ShapePeriod ==
    ASSUME NEW t \in Text, Trimmed(t), NEW m \in Text, IsInteger(m), NEW u \in UnitText, NEW l, ShapeAt(t, m, u, l)
    PROVE  PeriodSplit(t).number = m /\ PeriodSplit(t).unit = u
<1>1. Trimmed(m) /\ Len(m) \in Nat /\ Len(m) > 0 /\ u \in Text /\ Len(u) \in Nat /\ Len(t) \in Nat /\ Trimmed(u)
  BY IntegerTrimmed, UnitTrimmed DEF Text
<1>2. /\ l \in Nat /\ Len(m) <= l /\ l + Len(u) = Len(t)
      /\ \A i \in 1 .. Len(m) : m[i] = t[i]
      /\ \A i \in Len(m) + 1 .. l : t[i] \in Blank
      /\ \A i \in 1 .. Len(u) : u[i] = t[l + i]
  BY DEF ShapeAt
<1> DEFINE S == Sign \cup DOMAIN DigitOf
           k == Len(m)
           next == FirstNot(t, S)
<1>3. S = Sign \cup Digit
  BY DigitIs
<1>4. \A i \in 1 .. k : t[i] \in S
  BY <1>2, <1>3, IntegerChars
<1> HIDE DEF S
<1>5. CASE k = Len(t)
  <2>1. Len(u) = 0 /\ u = <<>>
    <3>1. Len(u) = 0
      BY <1>1, <1>2, <1>5
    <3> QED
      BY <1>1, <3>1 DEF Text
  <2>2. next = 0
    <3>1. next \in 0 .. Len(t) /\ (next # 0 => t[next] \notin S)
      BY FirstNotIs
    <3>2. SUFFICES ASSUME next # 0 PROVE FALSE
      OBVIOUS
    <3>3. next \in 1 .. k
      BY <1>1, <1>5, <3>1, <3>2
    <3> QED
      BY <1>4, <3>1, <3>2, <3>3
  <2>3. t = m
    BY <1>2, <1>5, SameText
  <2>4. PeriodSplit(t) = [number |-> t, unit |-> <<>>]
    BY <2>2 DEF PeriodSplit, SplitPeriod, S
  <2> QED
    BY <2>1, <2>3, <2>4
<1>6. CASE k # Len(t)
  <2>1. k + 1 \in 1 .. Len(t)
    BY <1>1, <1>2, <1>6
  <2>2. Len(u) # 0
    <3>1. SUFFICES ASSUME Len(u) = 0 PROVE FALSE
      OBVIOUS
    <3>2. Len(t) \in Len(m) + 1 .. l /\ Len(t) > 0
      BY <1>1, <1>2, <1>6, <3>1
    <3>3. t[Len(t)] \in Blank
      BY <1>2, <3>2
    <3> QED
      BY <3>2, <3>3 DEF Trimmed
  <2>3. t[k + 1] \notin S
    <3>1. CASE k = l
      <4>1. 1 \in 1 .. Len(u) /\ l + 1 = k + 1
        BY <1>1, <2>2, <3>1
      <4>2. t[k + 1] = u[1] /\ u[1] \in Letter
        BY <1>2, <4>1 DEF UnitText
      <4> QED
        BY <1>3, <4>2, CharactersDiffer
    <3>2. CASE k # l
      <4>1. k + 1 \in Len(m) + 1 .. l
        BY <1>1, <1>2, <3>2
      <4>2. t[k + 1] \in Blank
        BY <1>2, <4>1
      <4> QED
        BY <1>3, <4>2, CharactersDiffer
    <3> QED
      BY <3>1, <3>2
  <2>4. next = k + 1
    <3>1. \A i \in 1 .. (k + 1) - 1 : t[i] \in S
      BY <1>1, <1>4
    <3> QED
      BY <2>1, <2>3, <3>1, FirstNotAt
  <2> DEFINE p == SubSeq(t, 1, k)
             q == SubSeq(t, k + 1, Len(t))
             a == l - k
  <2>5. PeriodSplit(t) = [number |-> p, unit |-> Trim(q)]
    <3>1. next # 0 /\ next - 1 = k
      BY <1>1, <2>4
    <3>2. PeriodSplit(t) = [number |-> UpTo(t, next - 1), unit |-> Trim(From(t, next))]
      BY <3>1 DEF PeriodSplit, SplitPeriod, S
    <3>3. UpTo(t, next - 1) = p /\ From(t, next) = q
      BY <2>4, <3>1 DEF UpTo, From
    <3> QED
      BY <3>2, <3>3
  <2>6. k \in 0 .. Len(t) /\ 1 \in Nat \ {0} /\ k + 1 \in Nat \ {0} /\ Len(t) \in 0 .. Len(t)
    BY <1>1, <1>2
  <2>7. p \in Text /\ Len(p) = (IF 1 <= k THEN k - 1 + 1 ELSE 0) /\ \A j \in 1 .. Len(p) : p[j] = t[1 + j - 1]
    BY <2>6, Piece
  <2>8. q \in Text /\ Len(q) = (IF k + 1 <= Len(t) THEN Len(t) - (k + 1) + 1 ELSE 0)
        /\ \A j \in 1 .. Len(q) : q[j] = t[k + 1 + j - 1]
    BY <2>6, Piece
  <2> HIDE DEF p, q
  <2>9. Len(p) = k /\ Len(q) = Len(t) - k
    BY <1>1, <2>1, <2>7, <2>8
  <2>10. p = m
    <3>1. ASSUME NEW i \in 1 .. Len(p) PROVE p[i] = m[i]
      <4>1. 1 + i - 1 = i /\ i \in 1 .. Len(m)
        BY <2>9
      <4> QED
        BY <1>2, <2>7, <4>1
    <3> QED
      BY <2>7, <2>9, <3>1, SameText
  <2>11. Around(q, a, u)
    <3>1. a \in Nat /\ a + Len(u) = Len(q)
      BY <1>1, <1>2, <2>9
    <3>2. ASSUME NEW i \in 1 .. Len(u) PROVE u[i] = q[a + i]
      <4>1. a + i \in 1 .. Len(q) /\ k + 1 + (a + i) - 1 = l + i
        BY <1>1, <1>2, <3>1
      <4>2. q[a + i] = t[k + 1 + (a + i) - 1]
        BY <2>8, <4>1
      <4> QED
        BY <1>2, <4>1, <4>2
    <3>3. ASSUME NEW i \in 1 .. a PROVE q[i] \in Blank
      <4>1. i \in 1 .. Len(q) /\ k + 1 + i - 1 = k + i /\ k + i \in Len(m) + 1 .. l
        BY <1>1, <1>2, <3>1
      <4>2. q[i] = t[k + i]
        BY <2>8, <4>1
      <4> QED
        BY <1>2, <4>1, <4>2
    <3>4. \A i \in a + Len(u) + 1 .. Len(q) : q[i] \in Blank
      BY <1>1, <3>1
    <3>5. a + Len(u) <= Len(q)
      BY <1>1, <3>1
    <3> QED
      BY <1>1, <3>1, <3>2, <3>3, <3>4, <3>5 DEF Around
  <2>12. Trim(q) = u
    BY <1>1, <2>8, <2>11, AroundTrim
  <2> QED
    BY <2>5, <2>10, <2>12
<1> QED
  BY <1>5, <1>6

\* Nothing else is cut so: what is in front of the letters,
LEMMA NumberShape ==
    ASSUME NEW t \in Text, Trimmed(t), IsInteger(SplitNumberUnit(t).number)
    PROVE  \E l : ShapeAt(t, SplitNumberUnit(t).number, SplitNumberUnit(t).unit, l)
<1> DEFINE split == SplitNumberUnit(t)
           m == split.number
           u == split.unit
           l == Len(t) - Len(u)
           p == SubSeq(t, 1, l)
<1>1. m \in Text /\ u \in UnitText /\ IsSuffix(u, t) /\ m = Trim(UpTo(t, l))
  <2> HIDE DEF split
  <2>1. /\ split.number \in Text /\ split.unit \in UnitText
        /\ IsSuffix(split.unit, t)
        /\ split.number = Trim(UpTo(t, Len(t) - Len(split.unit)))
    BY SplitIs DEF split
  <2> QED
    BY <2>1
<1>2. m = Trim(p)
  BY <1>1 DEF UpTo
<1>3. IsInteger(m)
  OBVIOUS
<1> HIDE DEF split, m, u
<1>4. u \in Text /\ Len(u) \in Nat /\ Len(t) \in Nat
  BY <1>1, UnitTrimmed DEF Text
<1>5. l \in 0 .. Len(t) /\ \A i \in 1 .. Len(u) : u[i] = t[Len(t) - Len(u) + i]
  <2>1. Len(u) <= Len(t) /\ \A i \in 1 .. Len(u) : u[i] = t[Len(t) - Len(u) + i]
    BY <1>1, <1>4, SuffixIs
  <2> QED
    BY <1>4, <2>1
<1>6. l + Len(u) = Len(t) /\ \A i \in 1 .. Len(u) : u[i] = t[l + i]
  BY <1>4, <1>5
<1> HIDE DEF l
<1>7. p \in Text /\ Len(p) = (IF 1 <= l THEN l - 1 + 1 ELSE 0) /\ \A j \in 1 .. Len(p) : p[j] = t[1 + j - 1]
  <2>1. 1 \in Nat \ {0}
    OBVIOUS
  <2> QED
    BY <1>5, <2>1, Piece
<1> HIDE DEF p
<1>8. Len(p) = l /\ \A j \in 1 .. Len(p) : p[j] = t[j]
  <2>1. Len(p) = l
    BY <1>4, <1>5, <1>7
  <2>2. ASSUME NEW j \in 1 .. Len(p) PROVE p[j] = t[j]
    <3>1. 1 + j - 1 = j
      OBVIOUS
    <3> QED
      BY <1>7, <3>1
  <2> QED
    BY <2>1, <2>2
<1>9. PICK a \in Nat : Around(p, a, m)
  BY <1>2, <1>7, TrimIs
<1>10. /\ a + Len(m) <= Len(p)
       /\ \A i \in 1 .. Len(m) : m[i] = p[a + i]
       /\ \A i \in 1 .. a : p[i] \in Blank
       /\ \A i \in a + Len(m) + 1 .. Len(p) : p[i] \in Blank
  BY <1>9 DEF Around
<1>11. Len(m) \in Nat /\ Len(m) > 0
  BY <1>1, <1>3, IntegerTrimmed
<1>12. a = 0
  <2>1. SUFFICES ASSUME a # 0 PROVE FALSE
    OBVIOUS
  <2>2. 1 \in 1 .. a /\ 1 \in 1 .. Len(p) /\ Len(t) > 0
    BY <1>4, <1>5, <1>8, <1>10, <1>11, <2>1
  <2>3. t[1] \in Blank
    BY <1>8, <1>10, <2>2
  <2> QED
    BY <2>2, <2>3 DEF Trimmed
<1>13. l \in Nat /\ Len(m) <= l
  BY <1>4, <1>5, <1>8, <1>10, <1>11, <1>12
<1>14. ASSUME NEW i \in 1 .. Len(m) PROVE m[i] = t[i]
  <2>1. a + i = i /\ i \in 1 .. Len(p)
    BY <1>8, <1>11, <1>12, <1>13
  <2> QED
    BY <1>8, <1>10, <2>1
<1>15. ASSUME NEW i \in Len(m) + 1 .. l PROVE t[i] \in Blank
  <2>1. i \in a + Len(m) + 1 .. Len(p) /\ i \in 1 .. Len(p)
    BY <1>8, <1>11, <1>12, <1>13
  <2> QED
    BY <1>8, <1>10, <2>1
<1>16. ShapeAt(t, m, u, l)
  BY <1>6, <1>13, <1>14, <1>15 DEF ShapeAt
<1> QED
  BY <1>16 DEF m, u, split

\* and what is in front of the first letter or blank.
LEMMA PeriodShape ==
    ASSUME NEW t \in Text, Trimmed(t), IsInteger(PeriodSplit(t).number), PeriodSplit(t).unit \in UnitText
    PROVE  PeriodSplit(t).number \in Text /\ \E l : ShapeAt(t, PeriodSplit(t).number, PeriodSplit(t).unit, l)
<1> DEFINE S == Sign \cup DOMAIN DigitOf
           next == FirstNot(t, S)
           split == PeriodSplit(t)
           m == split.number
           u == split.unit
<1>1. next \in 0 .. Len(t) /\ (next # 0 => t[next] \notin S) /\ Len(t) \in Nat
  BY FirstNotIs DEF Text
<1>2. split = IF next = 0 THEN [number |-> t, unit |-> <<>>]
              ELSE [number |-> UpTo(t, next - 1), unit |-> Trim(From(t, next))]
  BY DEF PeriodSplit, SplitPeriod
<1>3. u \in UnitText
  OBVIOUS
<1> HIDE DEF split
<1>4. CASE next = 0
  <2>1. m = t /\ u = <<>>
    BY <1>2, <1>4
  <2> HIDE DEF m, u
  <2>2. ShapeAt(t, m, u, Len(t))
    BY <1>1, <2>1 DEF ShapeAt
  <2> QED
    BY <2>1, <2>2 DEF m, u, split
<1>5. CASE next # 0
  <2> DEFINE k == next - 1
             p == SubSeq(t, 1, k)
             q == SubSeq(t, next, Len(t))
  <2>1. m = p /\ u = Trim(q)
    BY <1>2, <1>5 DEF UpTo, From
  <2> HIDE DEF m, u, S, next
  <2>2. k \in 0 .. Len(t) /\ k \in Nat /\ 1 \in Nat \ {0} /\ next \in Nat \ {0} /\ Len(t) \in 0 .. Len(t) /\ next <= Len(t)
    BY <1>1, <1>5
  <2>3. p \in Text /\ Len(p) = (IF 1 <= k THEN k - 1 + 1 ELSE 0) /\ \A j \in 1 .. Len(p) : p[j] = t[1 + j - 1]
    <3> HIDE DEF k
    <3> QED
      BY <2>2, Piece
  <2>4. q \in Text /\ Len(q) = (IF next <= Len(t) THEN Len(t) - next + 1 ELSE 0)
        /\ \A j \in 1 .. Len(q) : q[j] = t[next + j - 1]
    BY <2>2, Piece
  <2> HIDE DEF p, q
  <2>5. Len(p) = k /\ Len(q) = Len(t) - k /\ Len(q) > 0
    BY <1>1, <2>2, <2>3, <2>4
  <2>6. PICK a \in Nat : Around(q, a, u)
    BY <2>1, <2>4, TrimIs
  <2>7. /\ a + Len(u) <= Len(q)
        /\ \A i \in 1 .. Len(u) : u[i] = q[a + i]
        /\ \A i \in 1 .. a : q[i] \in Blank
        /\ \A i \in a + Len(u) + 1 .. Len(q) : q[i] \in Blank
    BY <2>6 DEF Around
  <2>8. Len(u) \in Nat
    BY <1>3, UnitTrimmed DEF u
  <2>9. t[Len(t)] \notin Blank
    BY <1>1, <1>5, <2>2 DEF Trimmed
  <2>10. q[Len(q)] = t[Len(t)]
    <3>1. Len(q) \in 1 .. Len(q) /\ next + Len(q) - 1 = Len(t)
      BY <1>1, <2>2, <2>5
    <3> QED
      BY <2>4, <3>1
  <2>11. a + Len(u) = Len(q)
    <3>1. SUFFICES ASSUME a + Len(u) # Len(q) PROVE FALSE
      OBVIOUS
    <3>2. Len(q) \in a + Len(u) + 1 .. Len(q)
      <4>1. Len(q) \in Nat
        BY <2>4 DEF Text
      <4>2. a + Len(u) <= Len(q)
        BY <2>7
      <4> DEFINE x == Len(q)
                 y == Len(u)
      <4> HIDE DEF x, y
      <4>3. x \in Nat /\ y \in Nat /\ a + y <= x /\ a + y # x
        BY <2>8, <3>1, <4>1, <4>2 DEF x, y
      <4>4. x \in a + y + 1 .. x
        BY <4>3
      <4> QED
        BY <4>4 DEF x, y
    <3> QED
      BY <2>7, <2>9, <2>10, <3>2
  <2> DEFINE l == k + a
  <2>12. l \in Nat /\ k <= l /\ l + Len(u) = Len(t)
    BY <1>1, <2>2, <2>5, <2>8, <2>11
  <2>13. ASSUME NEW i \in 1 .. Len(p) PROVE p[i] = t[i]
    <3>1. 1 + i - 1 = i
      OBVIOUS
    <3> QED
      BY <2>3, <3>1
  <2>14. ASSUME NEW i \in Len(p) + 1 .. l PROVE t[i] \in Blank
    <3>1. i - k \in 1 .. a /\ i - k \in 1 .. Len(q) /\ next + (i - k) - 1 = i
      BY <1>1, <2>2, <2>5, <2>8, <2>11
    <3>2. q[i - k] = t[i]
      BY <2>4, <3>1
    <3> QED
      BY <2>7, <3>1, <3>2
  <2>15. ASSUME NEW i \in 1 .. Len(u) PROVE u[i] = t[l + i]
    <3>1. a + i \in 1 .. Len(q) /\ next + (a + i) - 1 = l + i
      BY <1>1, <2>2, <2>5, <2>8, <2>11
    <3>2. q[a + i] = t[l + i]
      BY <2>4, <3>1
    <3> QED
      BY <2>7, <3>2
  <2> HIDE DEF k, l
  <2>16. ShapeAt(t, p, u, l)
    BY <2>5, <2>12, <2>13, <2>14, <2>15 DEF ShapeAt
  <2> QED
    BY <2>1, <2>3, <2>16 DEF m, u, split
<1> QED
  BY <1>4, <1>5

\* So a period is cut as any other text, and an integer is all number.
LEMMA SameCut ==
    ASSUME NEW t \in Text, Trimmed(t), NEW units \in SUBSET UnitText
    PROVE  LET a == PeriodSplit(t)  b == SplitNumberUnit(t) IN
           /\ (IsInteger(a.number) /\ a.unit \in units) <=> (IsInteger(b.number) /\ b.unit \in units)
           /\ IsInteger(a.number) /\ a.unit \in units =>
                  a.number = b.number /\ a.unit = b.unit /\ a.number \in Text
<1> DEFINE a == PeriodSplit(t)
           b == SplitNumberUnit(t)
<1>1. b.number \in Text /\ b.unit \in UnitText
  <2> HIDE DEF b
  <2> QED
    BY SplitIs DEF b
<1>2. ASSUME IsInteger(a.number), a.unit \in units
      PROVE  a.number = b.number /\ a.unit = b.unit /\ a.number \in Text
  <2>1. a.unit \in UnitText
    BY <1>2
  <2>2. a.number \in Text /\ \E l : ShapeAt(t, a.number, a.unit, l)
    BY <1>2, <2>1, PeriodShape
  <2>3. PICK l : ShapeAt(t, a.number, a.unit, l)
    BY <2>2
  <2> QED
    BY <1>2, <2>1, <2>2, <2>3, ShapeNumber
<1>3. ASSUME IsInteger(b.number), b.unit \in units
      PROVE  a.number = b.number /\ a.unit = b.unit
  <2>1. PICK l : ShapeAt(t, b.number, b.unit, l)
    BY <1>3, NumberShape
  <2> QED
    BY <1>1, <1>3, <2>1, ShapePeriod
<1> HIDE DEF a, b
<1> QED
  BY <1>1, <1>2, <1>3 DEF a, b

LEMMA IntegerCut ==
    ASSUME NEW m \in Text, IsInteger(m) PROVE Trim(m) = m /\ PeriodSplit(m).number = m /\ PeriodSplit(m).unit = <<>>
<1>1. Trimmed(m) /\ Len(m) \in Nat
  BY IntegerTrimmed
<1>2. <<>> \in UnitText
  BY Spellings
<1>3. ShapeAt(m, m, <<>>, Len(m))
  BY <1>1 DEF ShapeAt
<1> QED
  BY <1>1, <1>2, <1>3, ShapePeriod, TrimKeeps

\* An integer that stops growing past a limit is within it when the integer is.
LEMMA CappedFits ==
    ASSUME NEW v \in Nat, NEW max \in Nat, NEW minus
    PROVE  LET c == Signed(minus, IF v > max + 2 THEN max + 2 ELSE v)
               z == Signed(minus, v)
           IN  /\ z \in Int /\ ((-max - 1 <= c /\ c <= max) <=> Within(z, max))
               /\ Within(z, max) => c = z
BY DEF Signed, Within

\* An integer that is capped beyond a limit is within the limit when the integer is.
LEMMA IntegerFits ==
    ASSUME NEW m \in Text, IsInteger(m), NEW max \in Nat
    PROVE  LET c == UpToMax(m, max + 2)
               z == Signed(Minus(m), Value(Unsigned(m)))
           IN  /\ z \in Int /\ ((-max - 1 <= c /\ c <= max) <=> Within(z, max))
               /\ Within(z, max) => c = z
<1> DEFINE v == Value(Unsigned(m))
<1>1. v \in Nat /\ max + 2 \in Nat
  BY IntegerIs
<1>2. UpToMax(m, max + 2) = Signed(Minus(m), IF v > max + 2 THEN max + 2 ELSE v)
  BY <1>1, IntegerIs
<1> HIDE DEF v
<1> QED
  BY <1>1, <1>2, CappedFits DEF v

\* What a period is worth.
PeriodValue(m) == Signed(Minus(m), Value(Unsigned(m)))
Periods(u, n) == [i \in 1 .. 3 |-> IF i = Field[u] THEN n ELSE 0]
SpellsPeriod(raw) ==
    IsInteger(PeriodSplit(Trim(raw)).number) /\ PeriodSplit(Trim(raw)).unit \in DOMAIN PeriodUnit

\* What a text is worth as a period.
LEMMA PeriodWorth ==
    ASSUME NEW raw \in RawText
    PROVE  LET a == PeriodSplit(Trim(raw))
               z == PeriodValue(a.number)
               n == z * Times(a.unit)
           IN  WorthAsPeriod(raw) =
                   IF SpellsPeriod(raw) /\ Value(Unsigned(a.number)) <= MaxI32 + 1 /\ Within(n, MaxI32)
                   THEN {Periods(a.unit, n)} ELSE {}
<1> DEFINE t == Trim(raw)
           a == PeriodSplit(t)
           b == SplitNumberUnit(t)
           units == DOMAIN PeriodUnit
           v == Spelt(Notated(b.number))
           m == [value |-> v, unit |-> b.unit]
           All == Means(raw, units)
           N(w) == Signed(w.value.negative, w.value.mantissa) * Times(w.unit)
           P(w) == Find(Trim(UpTo(t, Len(t) - Len(w.unit))), Exponent \cup {"."}) = 0
           Fits(w) == P(w) /\ w.value.mantissa <= MaxI32 + 1 /\ Within(N(w), MaxI32)
<1>1. WorthAsPeriod(raw) = {Periods(w.unit, N(w)) : w \in {w \in All : Fits(w)}}
  BY DEF WorthAsPeriod, Periods
<1>2. raw \in Text /\ units \in SUBSET UnitText
  BY RawTextsAre, PeriodTable DEF RawTextIs, Table
<1>3. All = IF b.unit \in units /\ IsDecimal(b.number) THEN {m} ELSE {}
  BY <1>2, MeansAre
<1>4. t \in Text /\ Trimmed(t)
  BY SplitShort
<1> HIDE DEF t, units
<1>5. b.number \in Text /\ b.number = Trim(UpTo(t, Len(t) - Len(b.unit)))
  BY <1>4, SplitIs
<1>6. /\ (IsInteger(a.number) /\ a.unit \in units) <=> (IsInteger(b.number) /\ b.unit \in units)
      /\ IsInteger(a.number) /\ a.unit \in units => a.number = b.number /\ a.unit = b.unit
  <2> HIDE DEF a, b
  <2> QED
    BY <1>2, <1>4, SameCut DEF a, b
<1>7. SpellsPeriod(raw) <=> IsInteger(a.number) /\ a.unit \in units
  BY DEF SpellsPeriod, t, units
<1> DEFINE plain == Find(b.number, Exponent \cup {"."}) = 0
<1>8. IsDecimal(b.number) /\ plain <=> IsInteger(b.number)
  <2> HIDE DEF b
  <2> QED
    BY <1>5, PlainIs, IntegerChars
<1>9. plain /\ IsDecimal(b.number) => v.negative = Minus(b.number) /\ v.mantissa = Value(Unsigned(b.number))
  <2> HIDE DEF b
  <2> QED
    BY <1>5, PlainIs
<1> HIDE DEF b, v
<1>10. m.value = v /\ m.unit = b.unit
  OBVIOUS
<1> HIDE DEF m
<1>11. P(m) <=> plain
  BY <1>5, <1>10
<1> HIDE DEF P, plain, a, All
<1>12. CASE SpellsPeriod(raw)
  <2>1. IsInteger(b.number) /\ b.unit \in units /\ a.number = b.number /\ a.unit = b.unit
    BY <1>6, <1>7, <1>12
  <2>2. plain /\ IsDecimal(b.number) /\ P(m)
    BY <1>8, <1>11, <2>1
  <2>3. v.negative = Minus(a.number) /\ v.mantissa = Value(Unsigned(a.number))
    BY <1>9, <2>1, <2>2
  <2>4. N(m) = PeriodValue(a.number) * Times(a.unit)
    BY <1>10, <2>1, <2>3 DEF PeriodValue
  <2>5. All = {m}
    BY <1>3, <2>1, <2>2
  <2>6. m.value.mantissa = Value(Unsigned(a.number))
    BY <1>10, <2>3
  <2> HIDE DEF N
  <2>7. Fits(m) <=> Value(Unsigned(a.number)) <= MaxI32 + 1 /\ Within(PeriodValue(a.number) * Times(a.unit), MaxI32)
    BY <2>2, <2>4, <2>6
  <2> HIDE DEF Fits
  <2>8. WorthAsPeriod(raw) = IF Fits(m) THEN {Periods(m.unit, N(m))} ELSE {}
    BY <1>1, <2>5
  <2>9. Periods(m.unit, N(m)) = Periods(a.unit, PeriodValue(a.number) * Times(a.unit))
    BY <1>10, <2>1, <2>4
  <2> QED
    BY <1>12, <2>7, <2>8, <2>9 DEF a, t
<1>13. CASE ~SpellsPeriod(raw)
  <2>1. ~(b.unit \in units /\ IsDecimal(b.number) /\ plain)
    BY <1>6, <1>7, <1>8, <1>13
  <2>2. ASSUME NEW w \in All, Fits(w) PROVE FALSE
    <3>1. w = m /\ b.unit \in units /\ IsDecimal(b.number)
      BY <1>3
    <3>2. P(w)
      BY <2>2
    <3> QED
      BY <1>11, <2>1, <3>1, <3>2
  <2> HIDE DEF Fits, N
  <2>3. WorthAsPeriod(raw) = {}
    BY <1>1, <2>2
  <2> QED
    BY <1>13, <2>3
<1> QED
  BY <1>12, <1>13

\* The fields of a period,
LEMMA PeriodFields ==
    ASSUME NEW u \in DOMAIN PeriodUnit, NEW z \in Int
    PROVE  /\ PeriodUnit[u] = "days" => Times(u) = 1 /\ Periods(u, z * Times(u)) = <<0, 0, z>>
           /\ PeriodUnit[u] = "weeks" => Times(u) = 7 /\ Periods(u, z * Times(u)) = <<0, 0, 7 * z>>
           /\ PeriodUnit[u] = "months" => Times(u) = 1 /\ Periods(u, z * Times(u)) = <<0, z, 0>>
           /\ PeriodUnit[u] = "years" => Times(u) = 1 /\ Periods(u, z * Times(u)) = <<z, 0, 0>>
<1>1. Field[u] = CASE PeriodUnit[u] = "years" -> 1 [] PeriodUnit[u] = "months" -> 2 [] OTHER -> 3
  BY DEF Field
<1>2. Times(u) = IF PeriodUnit[u] = "weeks" THEN 7 ELSE 1
  BY DEF Times
<1>3. \A n : /\ Field[u] = 3 => Periods(u, n) = <<0, 0, n>>
             /\ Field[u] = 2 => Periods(u, n) = <<0, n, 0>>
             /\ Field[u] = 1 => Periods(u, n) = <<n, 0, 0>>
  <2> TAKE n
  <2>1. Periods(u, n) = [i \in 1 .. 3 |-> IF i = Field[u] THEN n ELSE 0]
    BY DEF Periods
  <2> HIDE DEF Periods
  <2> DEFINE f == Field[u]
  <2>2. Periods(u, n) = [i \in 1 .. 3 |-> IF i = f THEN n ELSE 0]
    BY <2>1
  <2> HIDE DEF f
  <2>3. ASSUME f = 3 PROVE Periods(u, n) = <<0, 0, n>>
    BY <2>2, <2>3
  <2>4. ASSUME f = 2 PROVE Periods(u, n) = <<0, n, 0>>
    BY <2>2, <2>4
  <2>5. ASSUME f = 1 PROVE Periods(u, n) = <<n, 0, 0>>
    BY <2>2, <2>5
  <2> QED
    BY <2>3, <2>4, <2>5 DEF f
<1>4. z * 1 = z /\ z * 7 = 7 * z
  OBVIOUS
<1>5. CASE PeriodUnit[u] = "days"
  <2>1. Field[u] = 3 /\ Times(u) = 1
    BY <1>1, <1>2, <1>5
  <2> QED
    BY <1>3, <1>4, <1>5, <2>1
<1>6. CASE PeriodUnit[u] = "weeks"
  <2>1. Field[u] = 3 /\ Times(u) = 7
    BY <1>1, <1>2, <1>6
  <2> QED
    BY <1>3, <1>4, <1>6, <2>1
<1>7. CASE PeriodUnit[u] = "months"
  <2>1. Field[u] = 2 /\ Times(u) = 1
    BY <1>1, <1>2, <1>7
  <2> QED
    BY <1>3, <1>4, <1>7, <2>1
<1>8. CASE PeriodUnit[u] = "years"
  <2>1. Field[u] = 1 /\ Times(u) = 1
    BY <1>1, <1>2, <1>8
  <2> QED
    BY <1>3, <1>4, <1>8, <2>1
<1> QED
  BY <1>5, <1>6, <1>7, <1>8

\* and what the grammar of periods says of a number and a unit.
LEMMA PeriodSays ==
    ASSUME NEW u \in DOMAIN PeriodUnit, NEW z \in Int, Within(z, MaxI32)
    PROVE  /\ Period(z, PeriodUnit[u]).t \in {"ok", "error"}
           /\ Says(Period(z, PeriodUnit[u]),
                   IF Within(z * Times(u), MaxI32) THEN {Periods(u, z * Times(u))} ELSE {})
<1>1. PeriodUnit[u] \in Spans
  BY PeriodTable DEF Table
<1>2. \A n \in Int : FitsI32(n) <=> Within(n, MaxI32)
  BY UnitsAssumption DEF FitsI32, Within
<1> DEFINE n == z * Times(u)
           p == Periods(u, n)
           k == PeriodUnit[u]
<1>3. CASE PeriodUnit[u] = "days"
  <2>1. Times(u) = 1 /\ p = <<0, 0, z>>
    BY <1>3, PeriodFields
  <2> HIDE DEF p
  <2>2. Period(z, PeriodUnit[u]) = Ok(p)
    BY <1>3, <2>1 DEF Period
  <2>3. n = z
    BY <2>1
  <2> HIDE DEF n
  <2>4. (IF Within(n, MaxI32) THEN {p} ELSE {}) = {p}
    BY <2>3
  <2> QED
    BY <2>2, <2>4, OkSays DEF n, p
<1>4. CASE PeriodUnit[u] = "months"
  <2>1. Times(u) = 1 /\ p = <<0, z, 0>>
    BY <1>4, PeriodFields
  <2> HIDE DEF p
  <2>2. Period(z, PeriodUnit[u]) = Ok(p)
    BY <1>4, <2>1 DEF Period
  <2>3. n = z
    BY <2>1
  <2> HIDE DEF n
  <2>4. (IF Within(n, MaxI32) THEN {p} ELSE {}) = {p}
    BY <2>3
  <2> QED
    BY <2>2, <2>4, OkSays DEF n, p
<1>5. CASE PeriodUnit[u] = "years"
  <2>1. Times(u) = 1 /\ p = <<z, 0, 0>>
    BY <1>5, PeriodFields
  <2> HIDE DEF p
  <2>2. Period(z, PeriodUnit[u]) = Ok(p)
    BY <1>5, <2>1 DEF Period
  <2>3. n = z
    BY <2>1
  <2> HIDE DEF n
  <2>4. (IF Within(n, MaxI32) THEN {p} ELSE {}) = {p}
    BY <2>3
  <2> QED
    BY <2>2, <2>4, OkSays DEF n, p
<1>6. CASE PeriodUnit[u] = "weeks"
  <2>1. Times(u) = 7 /\ p = <<0, 0, 7 * z>>
    BY <1>6, PeriodFields
  <2> HIDE DEF p
  <2>2. n = 7 * z /\ 7 * z \in Int
    BY <2>1
  <2> HIDE DEF n
  <2>3. FitsI32(7 * z) <=> Within(n, MaxI32)
    BY <1>2, <2>2
  <2>4. Period(z, PeriodUnit[u]) = IF FitsI32(7 * z) THEN Ok(p) ELSE Error("invalid period")
    BY <1>6, <2>1 DEF Period
  <2>5. CASE FitsI32(7 * z)
    <3>1. (IF Within(n, MaxI32) THEN {p} ELSE {}) = {p}
      BY <2>3, <2>5
    <3>2. Period(z, PeriodUnit[u]) = Ok(p)
      BY <2>4, <2>5
    <3> QED
      BY <3>1, <3>2, OkSays DEF n, p
  <2>6. CASE ~FitsI32(7 * z)
    <3>1. (IF Within(n, MaxI32) THEN {p} ELSE {}) = {}
      BY <2>3, <2>6
    <3>2. Period(z, PeriodUnit[u]) = Error("invalid period")
      BY <2>4, <2>6
    <3> QED
      BY <3>1, <3>2, ErrorSays DEF n, p
  <2> QED
    BY <2>5, <2>6
<1> QED
  BY <1>1, <1>3, <1>4, <1>5, <1>6 DEF Spans

\* A period is read as what it is worth, and the retry with bare days never
\* finds more.
LEMMA PeriodReads ==
    ASSUME NEW raw \in RawText, NEW ty
    PROVE  /\ ReadPeriod(raw, ty).t \in {"ok", "error"}
           /\ Says(ReadPeriod(raw, ty), WorthAsPeriod(raw))
<1> DEFINE t == Trim(raw)
           a == PeriodSplit(t)
           m == a.number
           u == a.unit
           V == Value(Unsigned(m))
           z == PeriodValue(m)
           n == z * Times(u)
           units == DOMAIN PeriodUnit
           good == IsInteger(m) /\ u \in units
           i == Integer(m)
           period == ParsePeriod(a)
<1>0. MaxI32 \in Nat
  BY UnitsAssumption
<1>1. raw \in Text /\ t \in Text /\ Trimmed(t) /\ units \in SUBSET UnitText
  BY RawTextsAre, PeriodTable, SplitShort DEF RawTextIs, Table
<1>2. ReadPeriod(raw, ty) = OrDays(period, raw, ty)
  BY DEF ReadPeriod, PeriodSplit
<1>3. WorthAsPeriod(raw) = IF good /\ V <= MaxI32 + 1 /\ Within(n, MaxI32) THEN {Periods(u, n)} ELSE {}
  BY PeriodWorth DEF SpellsPeriod
<1>4. good => m \in Text
  <2> HIDE DEF t, units, a
  <2>1. IsInteger(a.number) /\ a.unit \in units => a.number \in Text
    BY <1>1, SameCut DEF a
  <2> QED
    BY <2>1
<1>5. period = IF IsInteger(m) /\ FitsI32(i) /\ u \in units THEN Period(i, PeriodUnit[u]) ELSE Error("invalid period")
  BY DEF ParsePeriod
<1>6. IsInteger(raw) => t = raw /\ m = raw /\ u = <<>>
  <2>1. SUFFICES ASSUME IsInteger(raw) PROVE t = raw /\ m = raw /\ u = <<>>
    OBVIOUS
  <2>2. t = raw
    BY <1>1, <2>1, IntegerCut
  <2>3. PeriodSplit(raw).number = raw /\ PeriodSplit(raw).unit = <<>>
    BY <1>1, <2>1, IntegerCut
  <2> QED
    BY <2>2, <2>3
<1> HIDE DEF t, a, m, u
<1>7. ASSUME good PROVE /\ z \in Int /\ (FitsI32(i) <=> Within(z, MaxI32)) /\ (Within(z, MaxI32) => i = z)
                        /\ V \in Nat
  <2>1. m \in Text /\ IsInteger(m)
    BY <1>4, <1>7
  <2>2. LET c == UpToMax(m, MaxI32 + 2)
            y == Signed(Minus(m), Value(Unsigned(m)))
        IN  /\ y \in Int /\ ((-MaxI32 - 1 <= c /\ c <= MaxI32) <=> Within(y, MaxI32))
            /\ Within(y, MaxI32) => c = y
    BY <1>0, <2>1, IntegerFits
  <2>3. V \in Nat
    BY <2>1, IntegerIs
  <2> QED
    BY <2>2, <2>3 DEF FitsI32, Integer, PeriodValue
<1>8. ASSUME good, Within(n, MaxI32) PROVE V <= MaxI32 + 1 /\ Within(z, MaxI32)
  <2>1. z \in Int /\ V \in Nat
    BY <1>7, <1>8
  <2>2. Times(u) \in {1, 7}
    BY DEF Times
  <2>3. n = z \/ n = 7 * z
    BY <2>1, <2>2
  <2> HIDE DEF n
  <2>4. Within(z, MaxI32)
    <3> HIDE DEF z
    <3> QED
      BY <1>0, <1>8, <2>1, <2>3 DEF Within
  <2>5. z = V \/ z = -V
    BY DEF PeriodValue, Signed
  <2> HIDE DEF V, z
  <2> QED
    BY <1>0, <2>1, <2>4, <2>5 DEF Within
<1> HIDE DEF i, V, z, period
<1>9. CASE good /\ FitsI32(i)
  <2>1. z \in Int /\ Within(z, MaxI32) /\ i = z /\ u \in units
    BY <1>7, <1>9
  <2>2. period = Period(z, PeriodUnit[u])
    BY <1>5, <1>9, <2>1
  <2>3. /\ Period(z, PeriodUnit[u]).t \in {"ok", "error"}
        /\ Says(Period(z, PeriodUnit[u]), IF Within(n, MaxI32) THEN {Periods(u, n)} ELSE {})
    <3> HIDE DEF units
    <3> QED
      BY <2>1, PeriodSays DEF units
  <2>4. WorthAsPeriod(raw) = IF Within(n, MaxI32) THEN {Periods(u, n)} ELSE {}
    BY <1>3, <1>8, <1>9
  <2>5. period.t = "error" => ~IsInteger(raw)
    <3>1. SUFFICES ASSUME IsInteger(raw) PROVE period.t # "error"
      OBVIOUS
    <3>2. u = <<>>
      BY <1>6, <3>1
    <3>3. PeriodUnit[u] = "days"
      BY <3>2 DEF PeriodUnit
    <3>4. period = Ok(<<0, 0, z>>)
      BY <2>2, <3>3 DEF Period
    <3> QED
      BY <3>4, OkSays
  <2>6. ReadPeriod(raw, ty) = period
    BY <1>2, <2>5 DEF OrDays
  <2> QED
    BY <2>2, <2>3, <2>4, <2>6
<1>10. CASE ~(good /\ FitsI32(i))
  <2>1. period = Error("invalid period")
    BY <1>5, <1>10
  <2>2. WorthAsPeriod(raw) = {}
    <3>1. ~(good /\ V <= MaxI32 + 1 /\ Within(n, MaxI32))
      BY <1>7, <1>8, <1>10
    <3> QED
      BY <1>3, <3>1
  <2>3. ~(IsInteger(raw) /\ FitsI32(Integer(raw)))
    <3>1. SUFFICES ASSUME IsInteger(raw) PROVE ~FitsI32(Integer(raw))
      OBVIOUS
    <3>2. m = raw /\ u = <<>>
      BY <1>6, <3>1
    <3>3. <<>> \in units
      BY DEF PeriodUnit
    <3>4. good
      BY <3>1, <3>2, <3>3
    <3> QED
      BY <1>10, <3>2, <3>4 DEF i
  <2>4. ReadPeriod(raw, ty) = period
    BY <1>2, <2>3 DEF OrDays
  <2> QED
    BY <2>1, <2>2, <2>4, ErrorSays
<1> QED
  BY <1>9, <1>10

(* -------------------------- values of pieces -------------------------- *)
\* The value of digits is the value of any front of them, shifted, and of the rest.
LEMMA ValueSplit ==
    ASSUME NEW s \in Text, Digits(s), NEW k \in 0 .. Len(s)
    PROVE  LET p == SubSeq(s, 1, k)
               q == SubSeq(s, k + 1, Len(s))
           IN  /\ p \in Text /\ Digits(p) /\ Len(p) = k /\ Value(p) \in Nat
               /\ q \in Text /\ Digits(q) /\ Len(q) = Len(s) - k /\ Value(q) \in Nat
               /\ Value(s) = Value(p) * Ten(Len(s) - k) + Value(q)
               /\ Value(q) < Ten(Len(s) - k)
               /\ Value(q) = 0 <=> \A i \in 1 .. Len(q) : q[i] = "0"
               /\ \A i \in 1 .. k : p[i] = s[i]
               /\ \A i \in 1 .. Len(q) : q[i] = s[k + i]
<1> DEFINE p == SubSeq(s, 1, k)
           q == SubSeq(s, k + 1, Len(s))
           n == Len(s) - k
<1>1. Len(s) \in Nat /\ k \in Nat /\ 1 \in Nat \ {0} /\ k + 1 \in Nat \ {0} /\ Len(s) \in 0 .. Len(s) /\ n \in Nat
      /\ k + n = Len(s)
  BY DEF Text
<1>2. p \in Text /\ Len(p) = (IF 1 <= k THEN k - 1 + 1 ELSE 0) /\ \A j \in 1 .. Len(p) : p[j] = s[1 + j - 1]
  BY <1>1, Piece
<1>3. q \in Text /\ Len(q) = (IF k + 1 <= Len(s) THEN Len(s) - (k + 1) + 1 ELSE 0)
      /\ \A j \in 1 .. Len(q) : q[j] = s[k + 1 + j - 1]
  BY <1>1, Piece
<1>4. Digits(p) /\ Digits(q)
  <2>1. \A i \in 1 .. Len(s) : s[i] \in Digit
    BY DigitsAre
  <2>2. Digits(p) <=> \A i \in 1 .. k : s[i] \in Digit
    BY <1>1, PieceDigits
  <2>3. Digits(q) <=> \A i \in k + 1 .. Len(s) : s[i] \in Digit
    BY <1>1, PieceDigits
  <2> QED
    BY <1>1, <2>1, <2>2, <2>3
<1> HIDE DEF p, q
<1>5. Len(p) = k /\ Len(q) = n
  <2>1. Len(p) = k
    BY <1>1, <1>2
  <2>2. Len(q) = Len(s) - k
    <3>1. Len(s) \in Nat /\ k \in Nat /\ k <= Len(s)
      BY <1>1
    <3>2. Len(q) = IF k + 1 <= Len(s) THEN Len(s) - (k + 1) + 1 ELSE 0
      BY <1>3
    <3> DEFINE l == Len(s)
    <3> HIDE DEF l, n
    <3> QED
      BY <3>1, <3>2 DEF l
  <2> QED
    BY <2>1, <2>2
<1>6. \A i \in 1 .. k : p[i] = s[i]
  <2> TAKE i \in 1 .. k
  <2>1. i \in 1 .. Len(p) /\ 1 + i - 1 = i
    BY <1>5
  <2> QED
    BY <1>2, <2>1
<1>7. \A i \in 1 .. Len(q) : q[i] = s[k + i]
  <2> TAKE i \in 1 .. Len(q)
  <2>1. k + 1 + i - 1 = k + i
    BY <1>1, <1>5
  <2> QED
    BY <1>3, <2>1
<1> HIDE DEF n
<1> DEFINE a == Ciphers(s)
           b == Ciphers(q)
           c == Ciphers(p)
<1>8. /\ a \in Seq(0 .. 9) /\ Len(a) = Len(s) /\ (\A i \in 1 .. Len(s) : a[i] = DigitOf[s[i]])
      /\ Value(s) = Upto(a, Len(s)) /\ Value(s) \in Nat
  BY CiphersTyped
<1>9. /\ b \in Seq(0 .. 9) /\ Len(b) = n /\ (\A i \in 1 .. n : b[i] = DigitOf[q[i]])
      /\ Value(q) = Upto(b, n) /\ Value(q) \in Nat
  <2>1. /\ b \in Seq(0 .. 9) /\ Len(b) = Len(q) /\ (\A i \in 1 .. Len(q) : b[i] = DigitOf[q[i]])
        /\ Value(q) = Upto(b, Len(q)) /\ Value(q) \in Nat
    BY <1>3, <1>4, CiphersTyped
  <2> HIDE DEF b
  <2> QED
    BY <1>5, <2>1
<1>10. /\ c \in Seq(0 .. 9) /\ Len(c) = k /\ (\A i \in 1 .. k : c[i] = DigitOf[p[i]])
       /\ Value(p) = Upto(c, k) /\ Value(p) \in Nat
  <2>1. /\ c \in Seq(0 .. 9) /\ Len(c) = Len(p) /\ (\A i \in 1 .. Len(p) : c[i] = DigitOf[p[i]])
        /\ Value(p) = Upto(c, Len(p)) /\ Value(p) \in Nat
    BY <1>2, <1>4, CiphersTyped
  <2> HIDE DEF c
  <2> QED
    BY <1>5, <2>1
<1> HIDE DEF a, b, c
<1>11. Upto(a, k + n) = Upto(a, k) * Ten(n) + Upto(b, n)
  <2>1. ASSUME NEW i \in 1 .. n PROVE b[i] = a[k + i]
    <3>1. k + i \in 1 .. Len(s)
      BY <1>1
    <3> QED
      BY <1>5, <1>7, <1>8, <1>9, <3>1
  <2>2. k + n <= Len(a) /\ n <= Len(b)
    BY <1>1, <1>8, <1>9
  <2>3. k \in Nat /\ n \in Nat /\ a \in Seq(0 .. 9) /\ b \in Seq(0 .. 9)
    BY <1>1, <1>8, <1>9
  <2> QED
    BY <2>1, <2>2, <2>3, UptoSplit
<1>12. Upto(a, k) = Upto(c, k)
  <2>1. \A i \in 1 .. k : c[i] = a[0 + i]
    <3> TAKE i \in 1 .. k
    <3>1. i \in 1 .. Len(s) /\ 0 + i = i
      BY <1>1
    <3> QED
      BY <1>6, <1>8, <1>10, <3>1
  <2>2. 0 + k <= Len(a) /\ k <= Len(c) /\ 0 \in Nat
    BY <1>1, <1>8, <1>10
  <2>3. Upto(a, 0 + k) = Upto(a, 0) * Ten(k) + Upto(c, k)
    BY <1>1, <1>8, <1>10, <2>1, <2>2, UptoSplit
  <2>4. Upto(a, 0) = 0
    BY <1>8, UptoTurns
  <2>5. 0 + k = k /\ Ten(k) \in Nat /\ Upto(c, k) \in Nat
    BY <1>1, <1>10, TenTurns
  <2>6. 0 * Ten(k) + Upto(c, k) = Upto(c, k)
    BY <2>5
  <2> QED
    BY <2>3, <2>4, <2>5, <2>6
<1>13. n \in 0 .. Len(b)
  BY <1>1, <1>9
<1>14. Upto(b, n) < Ten(n) /\ (Upto(b, n) = 0 <=> \A i \in 1 .. n : b[i] = 0)
  BY <1>9, <1>13, UptoBelow
<1>15. (\A i \in 1 .. n : b[i] = 0) <=> (\A i \in 1 .. Len(q) : q[i] = "0")
  <2>1. \A i \in 1 .. n : q[i] \in Digit
    BY <1>3, <1>4, <1>5, DigitsAre
  <2>2. \A i \in 1 .. n : b[i] = 0 <=> q[i] = "0"
    BY <1>9, <2>1, DigitIs
  <2> QED
    BY <1>5, <2>2
<1>16. Value(s) = Value(p) * Ten(n) + Value(q)
  BY <1>1, <1>8, <1>9, <1>10, <1>11, <1>12
<1> QED
  BY <1>2, <1>3, <1>4, <1>5, <1>6, <1>7, <1>9, <1>10, <1>14, <1>15, <1>16 DEF p, q, n

\* Digits without a zero in front are worth as much as their number says.
LEMMA ValueGrows ==
    ASSUME NEW s \in Text, Digits(s), Len(s) > 0, s[1] # "0"
    PROVE  Len(s) - 1 \in Nat /\ Ten(Len(s) - 1) <= Value(s) /\ Value(s) < Ten(Len(s)) /\ Value(s) \in Nat \ {0}
<1> DEFINE a == Ciphers(s)
<1>1. /\ a \in Seq(0 .. 9) /\ Len(a) = Len(s) /\ (\A i \in 1 .. Len(s) : a[i] = DigitOf[s[i]])
      /\ Value(s) = Upto(a, Len(s)) /\ Value(s) \in Nat
  BY CiphersTyped
<1> HIDE DEF a
<1>2. Len(s) \in 1 .. Len(a) /\ Len(s) \in 0 .. Len(a) /\ 1 \in 1 .. Len(s) /\ Len(s) - 1 \in Nat
  BY <1>1 DEF Text
<1>3. a[1] # 0 /\ a # <<>>
  <2>1. s[1] \in Digit
    BY <1>2, DigitsAre
  <2> QED
    BY <1>1, <1>2, <2>1, DigitIs
<1>4. Upto(a, Len(s)) >= Ten(Len(s) - 1)
  BY <1>1, <1>2, <1>3, UptoGrows
<1>5. Upto(a, Len(s)) < Ten(Len(s))
  BY <1>1, <1>2, UptoBelow
<1>6. Ten(Len(s) - 1) \in Nat \ {0} /\ Ten(Len(s)) \in Nat
  <2>1. Len(s) \in Nat
    BY <1>2
  <2>2. Ten(Len(s) - 1) \in Nat \ {0}
    BY <1>2, TenTurns
  <2>3. Ten(Len(s)) \in Nat
    BY <2>1, TenTurns
  <2> QED
    BY <2>2, <2>3
<1> QED
  BY <1>1, <1>2, <1>4, <1>5, <1>6

\* Appended zeros shift it.
Noughts(e) == [i \in 1 .. e |-> "0"]

LEMMA NoughtsAre ==
    ASSUME NEW e \in Nat PROVE Noughts(e) \in Text /\ Len(Noughts(e)) = e /\ \A i \in 1 .. e : Noughts(e)[i] = "0"
<1>1. "0" \in Char
  BY DEF Char
<1> QED
  BY <1>1 DEF Noughts, Text

LEMMA ValueShifted ==
    ASSUME NEW s \in Text, Digits(s), NEW e \in Nat
    PROVE  /\ s \o Noughts(e) \in Text /\ Digits(s \o Noughts(e))
           /\ Value(s \o Noughts(e)) = Value(s) * Ten(e)
<1> DEFINE z == Noughts(e)
           w == s \o z
<1>1. z \in Text /\ Len(z) = e /\ \A i \in 1 .. e : z[i] = "0"
  BY NoughtsAre
<1> HIDE DEF z
<1>2. w \in Text /\ Len(w) = Len(s) + Len(z) /\ Len(s) \in Nat
      /\ (\A i \in 1 .. Len(s) : w[i] = s[i]) /\ (\A i \in 1 .. Len(z) : w[Len(s) + i] = z[i])
  BY <1>1 DEF Text
<1> HIDE DEF w
<1> DEFINE k == Len(s)
<1>3. Len(w) = k + e /\ k \in 0 .. Len(w) /\ Len(w) - k = e
  BY <1>1, <1>2
<1>4. Digits(w)
  <2>1. \A i \in 1 .. Len(s) : s[i] \in Digit
    BY DigitsAre
  <2>2. "0" \in Digit
    BY DEF Digit
  <2>3. ASSUME NEW i \in 1 .. Len(w) PROVE w[i] \in Digit
    <3>1. CASE i <= k
      <4>1. i \in 1 .. Len(s)
        BY <1>2, <3>1
      <4> QED
        BY <1>2, <2>1, <4>1
    <3>2. CASE ~(i <= k)
      <4>1. i - k \in 1 .. e /\ k + (i - k) = i
        BY <1>2, <1>3, <3>2
      <4>2. w[k + (i - k)] = z[i - k] /\ z[i - k] = "0"
        BY <1>1, <1>2, <4>1
      <4> QED
        BY <2>2, <4>1, <4>2
    <3> QED
      BY <3>1, <3>2
  <2> QED
    BY <1>2, <2>3, DigitsAre
<1> DEFINE p == SubSeq(w, 1, k)
           q == SubSeq(w, k + 1, Len(w))
<1>5. /\ p \in Text /\ Len(p) = k /\ Value(p) \in Nat
      /\ q \in Text /\ Len(q) = Len(w) - k /\ Value(q) \in Nat
      /\ Value(w) = Value(p) * Ten(Len(w) - k) + Value(q)
      /\ (Value(q) = 0 <=> \A i \in 1 .. Len(q) : q[i] = "0")
      /\ \A i \in 1 .. k : p[i] = w[i]
      /\ \A i \in 1 .. Len(q) : q[i] = w[k + i]
  BY <1>2, <1>3, <1>4, ValueSplit
<1> HIDE DEF p, q
<1>6. p = s
  BY <1>2, <1>5, SameText
<1>7. Value(q) = 0
  <2>1. \A i \in 1 .. Len(q) : q[i] = "0"
    BY <1>1, <1>2, <1>3, <1>5
  <2> QED
    BY <1>5, <2>1
<1>8. Ten(e) \in Nat
  BY TenTurns
<1>9. Value(w) = Value(s) * Ten(e) + 0 /\ Value(s) \in Nat
  BY <1>3, <1>5, <1>6, <1>7
<1>10. Value(s) * Ten(e) \in Nat
  BY <1>8, <1>9, TimesNat
<1>11. Value(w) = Value(s) * Ten(e)
  BY <1>9, <1>10
<1> QED
  BY <1>2, <1>4, <1>11 DEF w, z

(* ------------------------------- integers ------------------------------ *)
Integers64(minus, n) == IF Within(Signed(minus, n), MaxI64) THEN {Signed(minus, n)} ELSE {}

\* A magnitude with its sign is an i64, or refused.
LEMMA MagnitudeSays ==
    ASSUME NEW n \in Nat, NEW minus \in BOOLEAN
    PROVE  LET a == Magnitude(minus, IF n > MaxU64 + 1 THEN MaxU64 + 1 ELSE n)
           IN  a.t \in {"ok", "error"} /\ Says(a, Integers64(minus, n))
<1> DEFINE mag == IF n > MaxU64 + 1 THEN MaxU64 + 1 ELSE n
           top == IF minus THEN MaxI64 + 1 ELSE MaxI64
<1>1. MaxI64 \in Nat /\ MaxU64 \in Nat /\ MaxI64 < MaxU64
  BY UnitsAssumption
<1>2. Magnitude(minus, mag) = IF mag > MaxU64 \/ mag > top THEN NotAnInteger ELSE Ok(Signed(minus, mag))
  BY DEF Magnitude
<1>3. Within(Signed(minus, n), MaxI64) <=> n <= top
  BY <1>1 DEF Within, Signed
<1>4. CASE n <= top
  <2>1. mag = n /\ ~(mag > MaxU64 \/ mag > top)
    BY <1>1, <1>4
  <2> HIDE DEF mag, top
  <2>2. Magnitude(minus, mag) = Ok(Signed(minus, n))
    BY <1>2, <2>1
  <2>3. Integers64(minus, n) = {Signed(minus, n)}
    BY <1>3, <1>4 DEF Integers64
  <2> QED
    BY <2>2, <2>3, OkSays DEF mag
<1>5. CASE ~(n <= top)
  <2>1. mag > MaxU64 \/ mag > top
    BY <1>1, <1>5
  <2> HIDE DEF mag, top
  <2>2. Magnitude(minus, mag) = NotAnInteger
    BY <1>2, <2>1
  <2>3. Integers64(minus, n) = {}
    BY <1>3, <1>5 DEF Integers64
  <2> QED
    BY <2>2, <2>3, ErrorSays DEF mag, NotAnInteger
<1> QED
  BY <1>4, <1>5

\* Zeros in front are worth nothing.
LEMMA WithoutZerosIs ==
    ASSUME NEW all \in Text, Digits(all)
    PROVE  LET w == WithoutZeros(all) IN
           /\ w \in Text /\ Digits(w) /\ Value(w) = Value(all)
           /\ w = <<>> <=> Value(all) = 0
           /\ w # <<>> => Len(w) > 0 /\ w[1] # "0"
<1> DEFINE first == FirstNot(all, {"0"})
           w == WithoutZeros(all)
<1>1. /\ first \in 0 .. Len(all) /\ Len(all) \in Nat
      /\ first = 0 => \A i \in 1 .. Len(all) : all[i] = "0"
      /\ first # 0 => all[first] # "0" /\ \A i \in 1 .. first - 1 : all[i] = "0"
  <2>1. /\ first \in 0 .. Len(all)
        /\ first = 0 => \A i \in 1 .. Len(all) : all[i] \in {"0"}
        /\ first # 0 => all[first] \notin {"0"} /\ \A i \in 1 .. first - 1 : all[i] \in {"0"}
    BY FirstNotIs
  <2> QED
    BY <2>1 DEF Text
<1>2. DOMAIN all = 1 .. Len(all)
  BY DEF Text
<1>3. w = IF \A i \in 1 .. Len(all) : all[i] = "0" THEN <<>> ELSE SubSeq(all, first, Len(all))
  BY <1>2 DEF WithoutZeros, AllIn, From
<1> HIDE DEF w, first
<1>4. Value(all) = 0 <=> \A i \in 1 .. Len(all) : all[i] = "0"
  <2> DEFINE q == SubSeq(all, 0 + 1, Len(all))
  <2>1. 0 \in 0 .. Len(all)
    BY <1>1
  <2>2. /\ q \in Text /\ Len(q) = Len(all) - 0
        /\ (Value(q) = 0 <=> \A i \in 1 .. Len(q) : q[i] = "0")
        /\ \A i \in 1 .. Len(q) : q[i] = all[0 + i]
    BY <2>1, ValueSplit
  <2> HIDE DEF q
  <2>3. Len(q) = Len(all)
    BY <1>1, <2>2
  <2>4. q = all
    <3>1. ASSUME NEW i \in 1 .. Len(q) PROVE q[i] = all[i]
      <4>1. 0 + i = i
        OBVIOUS
      <4> QED
        BY <2>2, <4>1
    <3> QED
      BY <2>2, <2>3, <3>1, SameText
  <2> QED
    BY <2>2, <2>4
<1>5. CASE \A i \in 1 .. Len(all) : all[i] = "0"
  <2>1. w = <<>>
    BY <1>3, <1>5
  <2>2. w \in Text /\ Len(w) = 0
    BY <2>1 DEF Text
  <2>3. Digits(w)
    BY <2>2, DigitsAre
  <2>4. Value(w) = 0
    <3>1. Ciphers(w) \in Seq(0 .. 9) /\ Value(w) = Upto(Ciphers(w), 0)
      BY <2>2, <2>3, CiphersTyped
    <3> QED
      BY <3>1, UptoTurns
  <2>5. Value(all) = 0
    BY <1>4, <1>5
  <2> QED
    BY <2>1, <2>2, <2>3, <2>4, <2>5 DEF w
<1>6. CASE ~(\A i \in 1 .. Len(all) : all[i] = "0")
  <2>1. first # 0
    BY <1>1, <1>6
  <2> DEFINE k == first - 1
             p == SubSeq(all, 1, k)
             q == SubSeq(all, k + 1, Len(all))
  <2>2. k \in 0 .. Len(all) /\ k + 1 = first /\ first \in 1 .. Len(all)
    BY <1>1, <2>1
  <2>3. w = q
    BY <1>3, <1>6, <2>2
  <2> HIDE DEF k
  <2>4. /\ p \in Text /\ Digits(p) /\ Len(p) = k /\ Value(p) \in Nat
        /\ q \in Text /\ Digits(q) /\ Len(q) = Len(all) - k /\ Value(q) \in Nat
        /\ Value(all) = Value(p) * Ten(Len(all) - k) + Value(q)
        /\ \A i \in 1 .. k : p[i] = all[i]
        /\ \A i \in 1 .. Len(q) : q[i] = all[k + i]
    BY <2>2, ValueSplit
  <2> HIDE DEF p, q
  <2>5. \A i \in 1 .. Len(p) : p[i] = "0"
    BY <1>1, <2>1, <2>4 DEF k
  <2>6. Value(p) = 0
    <3> DEFINE r == SubSeq(p, 0 + 1, Len(p))
    <3>1. 0 \in 0 .. Len(p)
      BY <2>2, <2>4
    <3>2. /\ r \in Text /\ Len(r) = Len(p) - 0
          /\ (Value(r) = 0 <=> \A i \in 1 .. Len(r) : r[i] = "0")
          /\ \A i \in 1 .. Len(r) : r[i] = p[0 + i]
      BY <2>4, <3>1, ValueSplit
    <3> HIDE DEF r
    <3>3. Len(r) = Len(p)
      BY <2>2, <2>4, <3>2
    <3>4. ASSUME NEW i \in 1 .. Len(r) PROVE r[i] = p[i]
      <4>1. 0 + i = i
        OBVIOUS
      <4> QED
        BY <3>2, <4>1
    <3>5. r = p
      BY <2>4, <3>2, <3>3, <3>4, SameText
    <3> QED
      BY <2>5, <3>2, <3>5
  <2>7. Ten(Len(all) - k) \in Nat
    <3>1. Len(all) - k \in Nat
      BY <1>1, <2>2
    <3> QED
      BY <3>1, TenTurns
  <2>8. Value(all) = Value(q)
    <3> DEFINE x == Ten(Len(all) - k)
    <3>1. x \in Nat /\ Value(all) = Value(p) * x + Value(q)
      BY <2>4, <2>7
    <3> HIDE DEF x
    <3>2. 0 * x = 0
      BY <3>1
    <3> QED
      BY <2>4, <2>6, <3>1, <3>2
  <2>9. Len(q) > 0 /\ q # <<>>
    <3>1. Len(q) > 0
      BY <1>1, <2>2, <2>4
    <3> QED
      BY <3>1
  <2>10. q[1] # "0"
    <3>1. 1 \in 1 .. Len(q)
      BY <2>4, <2>9 DEF Text
    <3>2. q[1] = all[k + 1]
      BY <2>4, <3>1
    <3> QED
      BY <1>1, <2>1, <2>2, <3>2
  <2>11. Value(all) # 0
    BY <1>4, <1>6
  <2> QED
    BY <2>3, <2>4, <2>8, <2>9, <2>10, <2>11 DEF w
<1> QED
  BY <1>5, <1>6

\* What a whole number is worth as an integer,
WholeWorth(v) ==
    IF IsWhole(v) /\ Within(Signed(v.negative, Whole(v)), MaxI64) THEN {Signed(v.negative, Whole(v))} ELSE {}

\* Zero is a whole number in any notation.
LEMMA WholeZero ==
    ASSUME NEW v, v.mantissa = 0 PROVE WholeWorth(v) = {0}
<1>1. IsWhole(v) /\ Whole(v) = 0
  BY DEF IsWhole, Whole
<1> DEFINE z == Whole(v)
           n == Signed(v.negative, z)
<1>2. n = IF v.negative THEN -z ELSE z
  BY DEF Signed
<1>3. z = 0 /\ z \in Int
  BY <1>1
<1>4. WholeWorth(v) = IF Within(n, MaxI64) THEN {n} ELSE {}
  BY <1>1 DEF WholeWorth
<1> HIDE DEF z, n
<1>5. n = 0
  <2>1. \A i \in Int : 0 - i = -i
    OBVIOUS
  <2>2. -z = 0 - z
    BY <1>3, <2>1
  <2>3. 0 - z = z
    BY <1>3
  <2> QED
    BY <1>2, <1>3, <2>2, <2>3
<1>6. Within(n, MaxI64)
  BY <1>5, UnitsAssumption DEF Within
<1> QED
  BY <1>4, <1>5, <1>6

\* without an exponent below zero,
LEMMA WholeUp ==
    ASSUME NEW v, v.mantissa \in Nat \ {0}, v.exp \in Nat, v.negative \in BOOLEAN, NEW l \in Nat,
           Ten(l) <= v.mantissa
    PROVE  WholeWorth(v) = IF l + 1 + v.exp > WholeDigits THEN {}
                           ELSE Integers64(v.negative, v.mantissa * Ten(v.exp))
<1> DEFINE m == v.mantissa
           e == v.exp
           n == m * Ten(e)
           minus == v.negative
<1>1. MaxI64 \in Nat /\ WholeDigits \in Nat /\ MaxI64 + 1 < Ten(WholeDigits)
  BY UnitsAssumption
<1>2. m \in Nat \ {0} /\ e \in Nat /\ minus \in BOOLEAN /\ Ten(e) \in Nat \ {0} /\ Ten(l) \in Nat \ {0} /\ Ten(l) <= m
  <2>1. Ten(e) \in Nat \ {0}
    BY TenTurns
  <2>2. Ten(l) \in Nat \ {0}
    BY TenTurns
  <2> QED
    BY <2>1, <2>2
<1>3. IsWhole(v) <=> m <= MaxI64 + 1 /\ e <= WholeDigits
  <2>1. e >= 0 /\ m # 0
    BY <1>2
  <2> QED
    BY <2>1 DEF IsWhole
<1>4. Whole(v) = n
  <2>1. e >= 0 /\ m # 0
    BY <1>2
  <2> QED
    BY <2>1 DEF Whole
<1> HIDE DEF m, e, minus
<1>5. n \in Nat /\ m <= n
  <2> DEFINE x == Ten(e)
  <2>1. x \in Nat \ {0}
    BY <1>2
  <2> HIDE DEF x
  <2>2. m * 1 <= m * x
    BY <1>2, <2>1, TimesGrows
  <2>3. m * x \in Nat
    BY <1>2, <2>1, TimesNat
  <2> QED
    BY <1>2, <2>2, <2>3 DEF x
<1>6. Ten(l + e) <= n
  <2>1. Ten(l + e) = Ten(l) * Ten(e)
    BY <1>2, TenSum
  <2> DEFINE x == Ten(e)
             y == Ten(l)
  <2>2. x \in Nat /\ y \in Nat /\ y <= m
    BY <1>2
  <2> HIDE DEF x, y
  <2>3. x * y <= x * m
    BY <1>2, <2>2, TimesGrows
  <2>4. x * y = y * x /\ x * m = m * x
    BY <1>2, <2>2, TimesSwap
  <2> QED
    BY <2>1, <2>3, <2>4 DEF x, y
<1> HIDE DEF n
<1>7. Within(Signed(minus, n), MaxI64) => n <= MaxI64 + 1
  BY <1>1, <1>2, <1>5 DEF Within, Signed
<1>8. CASE l + 1 + e > WholeDigits
  <2>1. WholeDigits \in Nat /\ l + e \in Nat /\ WholeDigits <= l + e
    BY <1>1, <1>2, <1>8
  <2>2. Ten(WholeDigits) <= Ten(l + e)
    BY <2>1, TenGrows
  <2>3. Ten(WholeDigits) \in Nat /\ Ten(l + e) \in Nat
    <3>1. Ten(WholeDigits) \in Nat
      BY <2>1, TenTurns
    <3>2. Ten(l + e) \in Nat
      BY <2>1, TenTurns
    <3> QED
      BY <3>1, <3>2
  <2>4. n > MaxI64 + 1
    BY <1>1, <1>5, <1>6, <2>2, <2>3
  <2>5. ~Within(Signed(minus, n), MaxI64)
    BY <1>1, <1>5, <1>7, <2>4
  <2>6. WholeWorth(v) = {}
    BY <1>4, <2>5 DEF WholeWorth, minus
  <2> QED
    BY <1>8, <2>6 DEF e
<1>9. CASE ~(l + 1 + e > WholeDigits)
  <2>1. e <= WholeDigits
    BY <1>1, <1>2, <1>9
  <2>2. Within(Signed(minus, n), MaxI64) => IsWhole(v)
    BY <1>1, <1>2, <1>3, <1>5, <1>7, <2>1
  <2>3. WholeWorth(v) = Integers64(minus, n)
    BY <1>4, <2>2 DEF WholeWorth, Integers64, minus
  <2> QED
    BY <1>9, <2>3 DEF e, n, m, minus
<1> QED
  BY <1>8, <1>9

\* and with one.
LEMMA WholeDown ==
    ASSUME NEW v, v.mantissa \in Nat \ {0}, v.negative \in BOOLEAN, NEW k \in Nat \ {0}, v.exp = -k,
           NEW l \in Nat, Ten(l) <= v.mantissa, v.mantissa < Ten(l + 1),
           NEW q \in Nat, NEW r \in Nat, k <= l => v.mantissa = q * Ten(k) + r /\ r < Ten(k)
    PROVE  WholeWorth(v) = IF k > l \/ r # 0 THEN {} ELSE Integers64(v.negative, q)
<1> DEFINE m == v.mantissa
           x == Ten(k)
<1>1. m \in Nat \ {0} /\ x \in Nat \ {0} /\ -v.exp = k /\ ~(v.exp >= 0)
  <2>1. x \in Nat \ {0}
    BY TenTurns
  <2> QED
    BY <2>1
<1>2. IsWhole(v) <=> (\A j \in 0 .. k : Ten(j) <= m) /\ m % x = 0
  BY <1>1 DEF IsWhole
<1>3. Whole(v) = m \div x
  BY <1>1 DEF Whole
<1>4. CASE k > l
  <2>1. l + 1 \in 0 .. k /\ l + 1 \in Nat
    BY <1>4
  <2>2. Ten(l + 1) \in Nat
    BY <2>1, TenTurns
  <2>3. ~(Ten(l + 1) <= m)
    BY <1>1, <2>2
  <2>4. ~IsWhole(v)
    BY <1>2, <2>1, <2>3
  <2> QED
    BY <1>4, <2>4 DEF WholeWorth
<1>5. CASE ~(k > l)
  <2>1. m = q * x + r /\ r < x
    BY <1>5
  <2>2. \A j \in 0 .. k : Ten(j) <= m
    <3> TAKE j \in 0 .. k
    <3>1. j \in Nat /\ j <= l
      BY <1>5
    <3>2. Ten(j) <= Ten(l)
      BY <3>1, TenGrows
    <3>3. Ten(j) \in Nat
      BY <3>1, TenTurns
    <3>4. Ten(l) \in Nat
      BY TenTurns
    <3> QED
      BY <1>1, <3>2, <3>3, <3>4
  <2> HIDE DEF m, x
  <2>3. m \div x = q
    <3>1. q * x <= m /\ m < (q + 1) * x
      <4>1. q * x \in Nat /\ (q + 1) * x = q * x + x
        BY <1>1, Z3
      <4> QED
        BY <1>1, <2>1, <4>1
    <3> QED
      BY <1>1, <3>1, QuotientIs
  <2>4. m % x = r
    <3>1. m = x * (m \div x) + (m % x)
      BY <1>1
    <3>2. m % x \in Nat
      BY <1>1, WholeAndRest
    <3>3. x * q = q * x /\ q * x \in Nat
      BY <1>1, Z3
    <3> DEFINE y == q * x
               z == m % x
    <3>4. m = y + z
      BY <2>3, <3>1, <3>3
    <3>5. m = y + r
      BY <2>1
    <3>6. y \in Nat /\ z \in Nat
      BY <3>2, <3>3
    <3> HIDE DEF y, z
    <3>7. z = r
      BY <3>4, <3>5, <3>6
    <3> QED
      BY <3>7 DEF z
  <2>5. IsWhole(v) <=> r = 0
    BY <1>2, <2>2, <2>4
  <2>6. Whole(v) = q
    BY <1>3, <2>3
  <2>7. WholeWorth(v) = IF r # 0 THEN {} ELSE Integers64(v.negative, q)
    BY <2>5, <2>6 DEF WholeWorth, Integers64
  <2> QED
    BY <1>5, <2>7
<1> QED
  BY <1>4, <1>5

\* The digits and where the point is are read as what they are worth.
LEMMA ShiftedSays ==
    ASSUME NEW all \in Text, Digits(all), NEW minus \in BOOLEAN, NEW behind \in Int,
           NEW v, v.negative = minus, v.mantissa = Value(all), v.exp = -behind
    PROVE  LET a == Shifted(minus, WithoutZeros(all), behind)
           IN  a.t \in {"ok", "error"} /\ Says(a, WholeWorth(v))
<1> DEFINE w == WithoutZeros(all)
           a == Shifted(minus, w, behind)
           l == Len(w) - 1
<1>1. /\ w \in Text /\ Digits(w) /\ Value(w) = Value(all)
      /\ w = <<>> <=> Value(all) = 0
      /\ w # <<>> => Len(w) > 0 /\ w[1] # "0"
  BY WithoutZerosIs
<1> HIDE DEF w
<1>2. CASE w = <<>>
  <2>1. a = Ok(0)
    BY <1>2 DEF Shifted
  <2>2. WholeWorth(v) = {0}
    BY <1>1, <1>2, WholeZero
  <2> QED
    BY <2>1, <2>2, OkSays DEF w
<1>3. CASE w # <<>>
  <2>1. Len(w) > 0 /\ w[1] # "0" /\ Len(w) \in Nat
    BY <1>1, <1>3 DEF Text
  <2>2. l \in Nat /\ Ten(l) <= Value(w) /\ Value(w) < Ten(Len(w)) /\ Value(w) \in Nat \ {0}
    BY <1>1, <2>1, ValueGrows
  <2>3. l + 1 = Len(w)
    BY <2>1
  <2>4. v.mantissa \in Nat \ {0} /\ Ten(l) <= v.mantissa /\ v.mantissa < Ten(l + 1) /\ v.mantissa = Value(w)
        /\ v.negative \in BOOLEAN
    BY <1>1, <2>2, <2>3
  <2> HIDE DEF l
  <2>5. CASE behind <= 0
    <3> DEFINE e == -behind
               d == w \o Noughts(e)
    <3>1. v.exp = e /\ e \in Nat /\ Len(w) - behind = l + 1 + e
      BY <2>1, <2>3, <2>5
    <3> HIDE DEF e
    <3>2. WholeWorth(v) = IF l + 1 + e > WholeDigits THEN {} ELSE Integers64(minus, Value(w) * Ten(e))
      <4>1. v.exp \in Nat
        BY <3>1
      <4>2. WholeWorth(v) = IF l + 1 + v.exp > WholeDigits THEN {}
                            ELSE Integers64(v.negative, v.mantissa * Ten(v.exp))
        BY <2>2, <2>4, <4>1, WholeUp
      <4> QED
        BY <2>4, <3>1, <4>2
    <3>3. a = IF l + 1 + e > WholeDigits THEN NotAnInteger ELSE Magnitude(minus, Reading(d, MaxU64 + 1))
      BY <1>3, <2>5, <3>1 DEF Shifted, Noughts, e
    <3>4. d \in Text /\ Digits(d) /\ Value(d) = Value(w) * Ten(e)
      BY <1>1, <3>1, ValueShifted
    <3> HIDE DEF d, a
    <3>5. CASE l + 1 + e > WholeDigits
      <4>1. a = NotAnInteger /\ WholeWorth(v) = {}
        BY <3>2, <3>3, <3>5
      <4> QED
        BY <4>1, ErrorSays DEF NotAnInteger, a, w
    <3>6. CASE ~(l + 1 + e > WholeDigits)
      <4> DEFINE n == Value(d)
      <4>1. MaxU64 + 1 \in Nat
        BY UnitsAssumption
      <4>2. Reading(d, MaxU64 + 1) = IF n > MaxU64 + 1 THEN MaxU64 + 1 ELSE n
        BY <3>4, <4>1, ReadingIs
      <4>3. n \in Nat
        BY <3>4, CiphersTyped
      <4>4. a = Magnitude(minus, IF n > MaxU64 + 1 THEN MaxU64 + 1 ELSE n)
        BY <3>3, <3>6, <4>2
      <4>5. WholeWorth(v) = Integers64(minus, n)
        BY <3>2, <3>4, <3>6
      <4> HIDE DEF n
      <4>6. a.t \in {"ok", "error"} /\ Says(a, Integers64(minus, n))
        BY <4>3, <4>4, MagnitudeSays
      <4> QED
        BY <4>5, <4>6 DEF a, w
    <3> QED
      BY <3>5, <3>6
  <2>6. CASE ~(behind <= 0)
    <3> DEFINE k == behind
               j == Len(w) - k
               p == SubSeq(w, 1, j)
               s == SubSeq(w, j + 1, Len(w))
    <3>1. k \in Nat \ {0} /\ v.exp = -k
      BY <2>6
    <3>2. CASE k > l
      <4>1. WholeWorth(v) = {}
        <5>1. 0 \in Nat /\ (k <= l => v.mantissa = 0 * Ten(k) + 0 /\ 0 < Ten(k))
          BY <2>2, <3>2
        <5>2. WholeWorth(v) = IF k > l \/ 0 # 0 THEN {} ELSE Integers64(v.negative, 0)
          BY <2>2, <2>4, <3>1, <5>1, WholeDown
        <5> QED
          BY <3>2, <5>2
      <4>2. behind >= Len(w)
        BY <2>1, <2>2, <2>3, <3>1, <3>2
      <4>3. a = NotAnInteger
        BY <1>3, <2>6, <4>2 DEF Shifted
      <4> HIDE DEF a
      <4> QED
        BY <4>1, <4>3, ErrorSays DEF NotAnInteger, a, w
    <3>3. CASE ~(k > l)
      <4>1. j \in 0 .. Len(w) /\ Len(w) - j = k /\ k <= l /\ ~(behind >= Len(w))
        BY <2>1, <2>2, <2>3, <3>1, <3>3
      <4> HIDE DEF j
      <4>2. /\ p \in Text /\ Digits(p) /\ Value(p) \in Nat
            /\ s \in Text /\ Len(s) = Len(w) - j /\ Value(s) \in Nat
            /\ Value(w) = Value(p) * Ten(Len(w) - j) + Value(s)
            /\ Value(s) < Ten(Len(w) - j)
            /\ Value(s) = 0 <=> \A i \in 1 .. Len(s) : s[i] = "0"
        BY <1>1, <4>1, ValueSplit
      <4>3. Value(w) = Value(p) * Ten(k) + Value(s) /\ Value(s) < Ten(k)
        BY <4>1, <4>2
      <4>4. AllIn(From(w, Len(w) - behind + 1), {"0"}) <=> Value(s) = 0
        <5>1. From(w, Len(w) - behind + 1) = s
          BY DEF From, j
        <5>2. DOMAIN s = 1 .. Len(s)
          BY <4>2 DEF Text
        <5> HIDE DEF s
        <5>3. AllIn(s, {"0"}) <=> \A i \in 1 .. Len(s) : s[i] = "0"
          BY <5>2 DEF AllIn
        <5> QED
          BY <4>2, <5>1, <5>3
      <4>5. UpTo(w, Len(w) - behind) = p
        BY DEF UpTo, j
      <4> HIDE DEF p, s
      <4>6. a = IF Value(s) # 0 THEN NotAnInteger ELSE Magnitude(minus, Reading(p, MaxU64 + 1))
        BY <1>3, <2>6, <4>1, <4>4, <4>5 DEF Shifted
      <4>7. WholeWorth(v) = IF k > l \/ Value(s) # 0 THEN {} ELSE Integers64(v.negative, Value(p))
        <5> DEFINE q == Value(p)
                   r == Value(s)
        <5>1. q \in Nat /\ r \in Nat /\ v.mantissa = q * Ten(k) + r /\ r < Ten(k)
          BY <2>4, <4>2, <4>3
        <5> HIDE DEF q, r, k
        <5>2. WholeWorth(v) = IF k > l \/ r # 0 THEN {} ELSE Integers64(v.negative, q)
          BY <2>2, <2>4, <3>1, <5>1, WholeDown
        <5> QED
          BY <5>2 DEF q, r
      <4> HIDE DEF a
      <4>8. CASE Value(s) # 0
        <5>1. a = NotAnInteger /\ WholeWorth(v) = {}
          BY <4>6, <4>7, <4>8
        <5> QED
          BY <5>1, ErrorSays DEF NotAnInteger, a, w
      <4>9. CASE Value(s) = 0
        <5> DEFINE n == Value(p)
        <5>1. MaxU64 + 1 \in Nat
          BY UnitsAssumption
        <5>2. Reading(p, MaxU64 + 1) = IF n > MaxU64 + 1 THEN MaxU64 + 1 ELSE n
          BY <4>2, <5>1, ReadingIs
        <5>3. a = Magnitude(minus, IF n > MaxU64 + 1 THEN MaxU64 + 1 ELSE n)
          BY <4>6, <4>9, <5>2
        <5>4. WholeWorth(v) = Integers64(minus, n)
          BY <3>3, <4>7, <4>9
        <5>5. n \in Nat
          BY <4>2
        <5> HIDE DEF n
        <5>6. a.t \in {"ok", "error"} /\ Says(a, Integers64(minus, n))
          BY <5>3, <5>5, MagnitudeSays
        <5> QED
          BY <5>4, <5>6 DEF a, w
      <4> QED
        BY <4>8, <4>9
    <3> QED
      BY <3>2, <3>3
  <2> QED
    BY <2>5, <2>6
<1> QED
  BY <1>2, <1>3

\* An integer is read as what it is worth, in any notation.
LEMMA BareInteger ==
    ASSUME NEW raw \in Text, Find(raw, Exponent \cup {"."}) = 0
    PROVE  /\ ReadInteger(raw).t \in {"ok", "error"}
           /\ Says(ReadInteger(raw), WorthAsInteger(raw))
<1> DEFINE a == ReadInteger(raw)
           c == UpToMax(raw, MaxI64 + 2)
           V == Value(Unsigned(raw))
           z == Signed(Minus(raw), V)
           v == Spelt(Notated(raw))
           All == Spells(raw)
           W(w) == Signed(w.negative, Whole(w))
           Fits(w) == IsWhole(w) /\ Within(w.written, MaxI32) /\ Within(W(w), MaxI64)
<1>0. MaxI64 \in Nat /\ MaxI32 \in Nat /\ WholeDigits \in Nat
  BY UnitsAssumption
<1>1. WorthAsInteger(raw) = {W(w) : w \in {w \in All : Fits(w)}}
  BY DEF WorthAsInteger
<1>2. All = IF IsDecimal(raw) THEN {v} ELSE {}
  BY SpellsAre
<1>3. a = IF IsInteger(raw) /\ FitsI64(c) THEN Ok(c) ELSE NotAnInteger
  BY DEF ReadInteger
<1>4. (IsDecimal(raw) <=> IsInteger(raw))
      /\ (IsDecimal(raw) => v.negative = Minus(raw) /\ v.mantissa = V /\ v.written = 0 /\ v.exp = 0)
  BY PlainIs
<1> HIDE DEF a, v, All
<1>5. CASE ~IsInteger(raw)
  <2>1. a = NotAnInteger
    BY <1>3, <1>5
  <2>2. All = {}
    BY <1>2, <1>4, <1>5
  <2> HIDE DEF Fits, W
  <2>3. WorthAsInteger(raw) = {}
    BY <1>1, <2>2
  <2> QED
    BY <2>1, <2>3, ErrorSays DEF NotAnInteger, a
<1>6. CASE IsInteger(raw)
  <2>1. /\ z \in Int /\ ((-MaxI64 - 1 <= c /\ c <= MaxI64) <=> Within(z, MaxI64))
        /\ Within(z, MaxI64) => c = z
    BY <1>0, <1>6, IntegerFits
  <2>2. V \in Nat
    BY <1>6, IntegerIs
  <2>3. FitsI64(c) <=> Within(z, MaxI64)
    BY <2>1 DEF FitsI64
  <2>4. v.negative = Minus(raw) /\ v.mantissa = V /\ v.written = 0 /\ v.exp = 0
    BY <1>4, <1>6
  <2> HIDE DEF V, c
  <2>5. Whole(v) = V
    <3>1. Ten(0) = 1
      BY TenTurns
    <3>2. V * 1 = V
      BY <2>2
    <3>3. Whole(v) = IF V = 0 THEN 0 ELSE V * Ten(0)
      BY <2>4 DEF Whole
    <3> QED
      BY <3>1, <3>2, <3>3
  <2>6. W(v) = z
    BY <2>4, <2>5
  <2>7. IsWhole(v) <=> (V = 0 \/ V <= MaxI64 + 1)
    BY <1>0, <2>4 DEF IsWhole
  <2>8. Within(z, MaxI64) => V <= MaxI64 + 1
    BY <1>0, <2>2 DEF Within, Signed
  <2> HIDE DEF z, W
  <2>9. Fits(v) <=> Within(z, MaxI64)
    <3>1. Within(v.written, MaxI32)
      BY <1>0, <2>4 DEF Within
    <3> QED
      BY <2>6, <2>7, <2>8, <3>1
  <2> HIDE DEF Fits
  <2>10. All = {v}
    BY <1>2, <1>4, <1>6
  <2>11. WorthAsInteger(raw) = IF Fits(v) THEN {W(v)} ELSE {}
    BY <1>1, <2>10
  <2>12. CASE Within(z, MaxI64)
    <3>1. a = Ok(z)
      BY <1>3, <1>6, <2>1, <2>3, <2>12
    <3>2. WorthAsInteger(raw) = {z}
      BY <2>6, <2>9, <2>11, <2>12
    <3> QED
      BY <3>1, <3>2, OkSays DEF a
  <2>13. CASE ~Within(z, MaxI64)
    <3>1. a = NotAnInteger
      BY <1>3, <2>3, <2>13
    <3>2. WorthAsInteger(raw) = {}
      BY <2>9, <2>11, <2>13
    <3> QED
      BY <3>1, <3>2, ErrorSays DEF NotAnInteger, a
  <2> QED
    BY <2>12, <2>13
<1> QED
  BY <1>5, <1>6

\* An integer with a point or an e, and any integer, is read as what it is worth.
LEMMA MarkedInteger ==
    ASSUME NEW raw \in Text, Find(raw, Exponent \cup {"."}) # 0
    PROVE  /\ ReadInteger(raw).t \in {"ok", "error"}
           /\ Says(ReadInteger(raw), WorthAsInteger(raw))
<1> DEFINE a == ReadInteger(raw)
           s == Trim(raw)
           n == Notated(s)
           v == Spelt(n)
           All == Spells(s)
           W(w) == Signed(w.negative, Whole(w))
           Fits(w) == IsWhole(w) /\ Within(w.written, MaxI32) /\ Within(W(w), MaxI64)
           e == IF n.scientific THEN Integer(n.e) ELSE 0
           behind == Len(n.frac) - e
           all == n.int \o n.frac
<1>0. MaxI32 \in Nat
  BY UnitsAssumption
<1>1. WorthAsInteger(raw) = {W(w) : w \in {w \in All : Fits(w)}}
  BY DEF WorthAsInteger
<1>2. s \in Text
  BY TrimIs
<1> HIDE DEF s
<1>3. All = IF IsDecimal(s) THEN {v} ELSE {}
  BY <1>2, SpellsAre
<1>4. a = WholeFloat(n)
  <2>1. ~IsInteger(raw)
    BY IntegerChars
  <2> QED
    BY <2>1 DEF ReadInteger, s
<1>5. Parses(n) <=> IsDecimal(s)
  BY DEF IsDecimal
<1>6. a = IF ~IsDecimal(s) \/ (n.scientific /\ ~FitsI32(Integer(n.e))) THEN NotAnInteger
          ELSE Shifted(n.minus, WithoutZeros(all), behind)
  <2> HIDE DEF n, a
  <2> QED
    BY <1>4, <1>5 DEF WholeFloat
<1> HIDE DEF a, All
<1>7. CASE ~IsDecimal(s)
  <2>1. a = NotAnInteger
    BY <1>6, <1>7
  <2>2. All = {}
    BY <1>3, <1>7
  <2> HIDE DEF Fits, W
  <2>3. WorthAsInteger(raw) = {}
    BY <1>1, <2>2
  <2> QED
    BY <2>1, <2>3, ErrorSays DEF NotAnInteger, a
<1>8. CASE IsDecimal(s)
  <2>1. /\ n.minus \in BOOLEAN /\ n.scientific \in BOOLEAN
        /\ n.int \in Text /\ n.frac \in Text /\ n.e \in Text
        /\ all \in Text /\ Digits(all)
        /\ n.scientific => IsInteger(n.e)
        /\ ~n.scientific => n.e = <<>>
    BY <1>2, <1>8, PartsAre
  <2>2. v.negative = n.minus /\ v.mantissa = Value(all) /\ v.written = Written(n.e)
        /\ v.exp = Written(n.e) - Len(n.frac)
    <3> HIDE DEF n
    <3> QED
      BY DEF Spelt
  <2> HIDE DEF n
  <2>3. CASE n.scientific
    <3>1. n.e \in Text /\ IsInteger(n.e) /\ e = Integer(n.e)
      BY <2>1, <2>3
    <3> DEFINE x == n.e
               z == Signed(Minus(x), Value(Unsigned(x)))
               c == UpToMax(x, MaxI32 + 2)
    <3>2. /\ z \in Int /\ ((-MaxI32 - 1 <= c /\ c <= MaxI32) <=> Within(z, MaxI32))
          /\ Within(z, MaxI32) => c = z
      <4>1. x \in Text /\ IsInteger(x)
        BY <3>1
      <4> HIDE DEF x
      <4> QED
        BY <1>0, <4>1, IntegerFits
    <3>3. Written(x) = z
      BY <3>1, IntegerIs
    <3>4. FitsI32(Integer(n.e)) <=> Within(v.written, MaxI32)
      BY <2>2, <3>2, <3>3 DEF FitsI32, Integer
    <3>5. Within(v.written, MaxI32) => e = v.written
      BY <2>2, <3>1, <3>2, <3>3 DEF Integer
    <3>6. v.written \in Int
      BY <2>2, <3>2, <3>3
    <3> HIDE DEF e, x, z, c
    <3>7. CASE ~Within(v.written, MaxI32)
      <4>1. a = NotAnInteger
        BY <1>6, <2>3, <3>4, <3>7
      <4>2. All = {v} /\ ~Fits(v)
        BY <1>3, <1>8, <3>7
      <4> HIDE DEF Fits, W, v
      <4>3. WorthAsInteger(raw) = {}
        BY <1>1, <4>2
      <4> QED
        BY <4>1, <4>3, ErrorSays DEF NotAnInteger, a
    <3>8. CASE Within(v.written, MaxI32)
      <4>1. a = Shifted(n.minus, WithoutZeros(all), behind)
        BY <1>6, <1>8, <3>4, <3>8
      <4>2. behind \in Int /\ v.exp = -behind
        <5>1. behind = Len(n.frac) - v.written /\ v.exp = v.written - Len(n.frac)
          BY <2>2, <3>5, <3>8
        <5>2. Len(n.frac) \in Nat
          BY <2>1 DEF Text
        <5> HIDE DEF behind, v
        <5> QED
          BY <3>6, <5>1, <5>2
      <4>3. All = {v} /\ (Fits(v) <=> IsWhole(v) /\ Within(W(v), MaxI64))
        BY <1>3, <1>8, <3>8
      <4> HIDE DEF behind, v, all
      <4>4. a.t \in {"ok", "error"} /\ Says(a, WholeWorth(v))
        BY <2>1, <2>2, <4>1, <4>2, ShiftedSays
      <4>5. WholeWorth(v) = IF IsWhole(v) /\ Within(W(v), MaxI64) THEN {W(v)} ELSE {}
        BY DEF WholeWorth
      <4> HIDE DEF Fits, W
      <4>6. WorthAsInteger(raw) = IF Fits(v) THEN {W(v)} ELSE {}
        BY <1>1, <4>3
      <4>7. WorthAsInteger(raw) = WholeWorth(v)
        BY <4>3, <4>5, <4>6
      <4> QED
        BY <4>4, <4>7 DEF a
    <3> QED
      BY <3>7, <3>8
  <2>4. CASE ~n.scientific
    <3>1. e = 0 /\ n.e = <<>>
      BY <2>1, <2>4
    <3>2. v.written = 0
      BY <2>2, <3>1 DEF Written
    <3> HIDE DEF e
    <3>3. Within(v.written, MaxI32)
      BY <1>0, <3>2 DEF Within
    <3>4. a = Shifted(n.minus, WithoutZeros(all), behind)
      BY <1>6, <1>8, <2>4
    <3>5. behind \in Int /\ v.exp = -behind
      <4>1. behind = Len(n.frac) - 0 /\ v.exp = 0 - Len(n.frac)
        BY <2>2, <3>1, <3>2
      <4>2. Len(n.frac) \in Nat
        BY <2>1 DEF Text
      <4> DEFINE f == Len(n.frac)
      <4> HIDE DEF behind, v, f
      <4>3. behind = f - 0 /\ v.exp = 0 - f /\ f \in Nat
        BY <4>1, <4>2 DEF f
      <4>4. behind = f
        BY <4>3
      <4> QED
        BY <4>3, <4>4
    <3>6. All = {v} /\ (Fits(v) <=> IsWhole(v) /\ Within(W(v), MaxI64))
      BY <1>3, <1>8, <3>3
    <3> HIDE DEF behind, v, all
    <3>7. a.t \in {"ok", "error"} /\ Says(a, WholeWorth(v))
      BY <2>1, <2>2, <3>4, <3>5, ShiftedSays
    <3>8. WholeWorth(v) = IF IsWhole(v) /\ Within(W(v), MaxI64) THEN {W(v)} ELSE {}
      BY DEF WholeWorth
    <3> HIDE DEF Fits, W
    <3>9. WorthAsInteger(raw) = IF Fits(v) THEN {W(v)} ELSE {}
      BY <1>1, <3>6
    <3>10. WorthAsInteger(raw) = WholeWorth(v)
      BY <3>6, <3>8, <3>9
    <3> QED
      BY <3>7, <3>10 DEF a
  <2> QED
    BY <2>3, <2>4
<1> QED
  BY <1>7, <1>8

LEMMA IntegerReads ==
    ASSUME NEW raw \in RawText
    PROVE  /\ ReadInteger(raw).t \in {"ok", "error"}
           /\ Says(ReadInteger(raw), WorthAsInteger(raw))
<1>1. raw \in Text
  BY RawTextsAre DEF RawTextIs
<1> QED
  BY <1>1, BareInteger, MarkedInteger

(* ----------------------------- the readers ----------------------------- *)
\* What becomes of a product.
DurationOf(x) == IF x # None /\ x.n <= MaxNanos THEN {<<x.n \div Second, x.n % Second>>} ELSE {}
BytesOf(x, d) == IF x # None /\ x.n <= (IF IsNegative(d) THEN 0 ELSE MaxI64) THEN {x.n} ELSE {}

\* The loops run for a reader that has the number and the unit right: the text
\* is worth what their product is.
Computes ==
    step # "idle" /\ answer = Waiting =>
        /\ scalar # NoScalar /\ number \in Numbers /\ factor \in Factors
        /\ \/ scalar.as = "duration" /\ Worth = DurationOf(Outcome(number, factor))
           \/ scalar.as = "bytes" /\ Worth = BytesOf(Outcome(number, factor), number)

Asked == scalar # NoScalar => scalar.raw \in RawText /\ scalar.as \in UnitReaders
Quiet == scalar = NoScalar => step = "idle" /\ answer = Waiting

ReaderInv == IInv /\ Exact /\ Asked /\ Quiet /\ Computes /\ ReadsTheText

\* Whatever the step of the arithmetic, what it has computed stays right.
LEMMA ArithmeticKept ==
    ASSUME IInv, Exact, [ProductNext]_decimalVars PROVE IInv' /\ Exact'
<1>1. IInv'
  BY Kept
<1>2. CASE \E d \in Numbers, f \in Factors : Multiply(d, f)
  BY <1>2, <1>1, MultiplyExact
<1>3. CASE Compute
  BY <1>3, <1>1, GatherDigitExact, PushLimbExact, MultiplyLimbExact, PushCarryExact, RaiseExact, DropExact,
     DivideLimbExact, PackExact, PackLimbExact, PackedExact DEF Compute
<1>4. CASE UNCHANGED decimalVars
  <2>1. Total' = Total /\ Undivided' = Undivided /\ Multiplier' = Multiplier /\ Gathered' = Gathered
    BY <1>4 DEF decimalVars, Total, Undivided, Multiplier, Gathered, Divisor
  <2>2. Exact'
    BY <1>4, <2>1 DEF decimalVars, Exact, Nonzero, GatherValue, MultiplyValue, DivideValue, PackValue, ProductExact
  <2> QED
    BY <1>1, <2>2
<1> QED
  BY <1>1, <1>2, <1>3, <1>4 DEF ProductNext

LEMMA ComputeFrame == ASSUME Compute PROVE UNCHANGED <<number, factor>> /\ step \notin {"idle", "done"}
BY DEF Compute, GatherDigit, PushLimb, MultiplyLimb, PushCarry, Raise, Drop, DivideLimb, Pack, PackLimb, Packed

\* The product the loops end with.
LEMMA ProductIs ==
    ASSUME IInv, Exact, step = "done"
    PROVE  product = Outcome(number, factor) /\ (product = None \/ \E n \in 0 .. MaxWord : product = Some(n))
<1>1. Mantissa(number.digits) \in Nat /\ number.exp \in Int /\ factor \in Nat
  BY StateTyped DEF IInv
<1>2. product = Outcome(number, factor)
  BY DEF Exact, ProductExact, Outcome
<1>3. Outcome(number, factor) = None \/ \E n \in 0 .. MaxWord : Outcome(number, factor) = Some(n)
  BY <1>1, ExactlyTyped DEF Outcome
<1> QED
  BY <1>2, <1>3

\* A reader either answers, and rightly, or asks for the right product.
LEMMA StartIs ==
    ASSUME scalar # NoScalar, Asked
    PROVE  LET st == Start(scalar.raw, scalar.ty, scalar.as) IN
           \/ st.t \in {"ok", "error"} /\ Says(st, Worth)
           \/ \E d \in Numbers, f \in Factors :
                  /\ st = Product(d, f)
                  /\ \/ scalar.as = "duration" /\ Worth = DurationOf(Outcome(d, f))
                     \/ scalar.as = "bytes" /\ Worth = BytesOf(Outcome(d, f), d)
<1> DEFINE raw == scalar.raw
           ty == scalar.ty
           st == Start(raw, ty, scalar.as)
<1>1. raw \in RawText /\ scalar.as \in {"duration", "bytes", "period", "integer"}
  BY DEF Asked, UnitReaders
<1> HIDE DEF raw, ty
<1>2. CASE scalar.as = "duration"
  <2>1. st = Start(raw, ty, "duration") /\ Worth = WorthAsDuration(raw)
    BY <1>2 DEF Worth, raw
  <2>2. \/ st.t = "error" /\ Says(st, WorthAsDuration(raw))
        \/ \E d \in Numbers, f \in Factors :
               /\ st = Product(d, f)
               /\ WorthAsDuration(raw) = DurationOf(Outcome(d, f))
    BY <1>1, <2>1, DurationStarts DEF DurationOf
  <2> QED
    BY <1>2, <2>1, <2>2 DEF raw, ty
<1>3. CASE scalar.as = "bytes"
  <2>1. st = Start(raw, ty, "bytes") /\ Worth = WorthAsBytes(raw, ty)
    BY <1>3 DEF Worth, raw, ty
  <2>2. \/ st.t = "error" /\ Says(st, WorthAsBytes(raw, ty))
        \/ \E d \in Numbers, f \in Factors :
               /\ st = Product(d, f)
               /\ WorthAsBytes(raw, ty) = BytesOf(Outcome(d, f), d)
    BY <1>1, <2>1, BytesStarts DEF BytesOf
  <2> QED
    BY <1>3, <2>1, <2>2 DEF raw, ty
<1>4. CASE scalar.as = "period"
  <2>1. st = ReadPeriod(raw, ty) /\ Worth = WorthAsPeriod(raw)
    BY <1>4 DEF Worth, Start, raw
  <2> QED
    BY <1>1, <2>1, PeriodReads DEF raw, ty
<1>5. CASE scalar.as = "integer"
  <2>1. st = ReadInteger(raw) /\ Worth = WorthAsInteger(raw)
    BY <1>5 DEF Worth, Start, raw
  <2> QED
    BY <1>1, <2>1, IntegerReads DEF raw, ty
<1> QED
  BY <1>1, <1>2, <1>3, <1>4, <1>5

\* Each step of a reader keeps the invariant.
LEMMA ReadKeeps ==
    ASSUME ReaderInv, Read PROVE ReaderInv'
<1> DEFINE st == Start(scalar.raw, scalar.ty, scalar.as)
<1>1. scalar # NoScalar /\ step = "idle" /\ answer = Waiting /\ scalar' = scalar /\ Asked /\ IInv /\ Exact
  BY DEF Read, ReaderInv
<1>2. IF st.t = "product" THEN Multiply(st.number, st.factor) /\ UNCHANGED answer
                          ELSE answer' = st /\ UNCHANGED decimalVars
  BY DEF Read, Proceed
<1>3. Worth' = Worth
  BY <1>1 DEF Worth
<1>4. \/ st.t \in {"ok", "error"} /\ Says(st, Worth)
      \/ \E d \in Numbers, f \in Factors :
             /\ st = Product(d, f)
             /\ \/ scalar.as = "duration" /\ Worth = DurationOf(Outcome(d, f))
                \/ scalar.as = "bytes" /\ Worth = BytesOf(Outcome(d, f), d)
  BY <1>1, StartIs
<1> HIDE DEF st
<1>5. CASE st.t \in {"ok", "error"} /\ Says(st, Worth)
  <2>1. answer' = st /\ UNCHANGED decimalVars
    BY <1>2, <1>5
  <2>2. IInv' /\ Exact'
    BY <1>1, <2>1, ArithmeticKept
  <2>3. step' = "idle"
    BY <1>1, <2>1 DEF decimalVars
  <2>4. Asked' /\ Quiet' /\ Computes'
    BY <1>1, <2>3 DEF Asked, Quiet, Computes
  <2>5. ReadsTheText'
    BY <1>3, <1>5, <2>1 DEF ReadsTheText, Says
  <2> QED
    BY <2>2, <2>4, <2>5 DEF ReaderInv
<1>6. ASSUME NEW d \in Numbers, NEW f \in Factors, st = Product(d, f),
             \/ scalar.as = "duration" /\ Worth = DurationOf(Outcome(d, f))
             \/ scalar.as = "bytes" /\ Worth = BytesOf(Outcome(d, f), d)
      PROVE  ReaderInv'
  <2>1. st.t = "product" /\ st.number = d /\ st.factor = f
    BY <1>6, ProductParts
  <2>2. Multiply(d, f) /\ UNCHANGED answer
    BY <1>2, <2>1
  <2>3. ProductNext
    BY <1>1, <2>2 DEF ProductNext
  <2>4. IInv' /\ Exact'
    BY <1>1, <2>3, ArithmeticKept
  <2>5. number' = d /\ factor' = f /\ answer' = Waiting
    BY <1>1, <2>2 DEF Multiply
  <2>6. \/ scalar'.as = "duration" /\ Worth' = DurationOf(Outcome(number', factor'))
        \/ scalar'.as = "bytes" /\ Worth' = BytesOf(Outcome(number', factor'), number')
    BY <1>1, <1>3, <1>6, <2>5
  <2>7. Computes'
    BY <1>1, <2>5, <2>6 DEF Computes
  <2>8. Asked' /\ Quiet' /\ ReadsTheText'
    BY <1>1, <2>5 DEF Asked, Quiet, ReadsTheText
  <2> QED
    BY <2>4, <2>7, <2>8 DEF ReaderInv
<1> QED
  BY <1>4, <1>5, <1>6

LEMMA ComputeKeepsReader ==
    ASSUME ReaderInv, Compute, UNCHANGED <<scalar, answer>> PROVE ReaderInv'
<1>1. IInv /\ Exact /\ Asked /\ Quiet /\ Computes /\ ReadsTheText
  BY DEF ReaderInv
<1>2. IInv' /\ Exact'
  BY <1>1, ArithmeticKept DEF ProductNext
<1>3. number' = number /\ factor' = factor /\ step # "idle"
  BY ComputeFrame
<1>4. Worth' = Worth
  BY DEF Worth
<1>5. Asked' /\ Quiet' /\ ReadsTheText'
  BY <1>1, <1>3, <1>4 DEF Asked, Quiet, ReadsTheText
<1>6. Computes'
  BY <1>1, <1>3, <1>4 DEF Computes
<1> QED
  BY <1>2, <1>5, <1>6 DEF ReaderInv

LEMMA FinishKeeps ==
    ASSUME ReaderInv, Finish PROVE ReaderInv'
<1>1. IInv /\ Exact /\ Asked /\ Quiet /\ Computes /\ ReadsTheText
  BY DEF ReaderInv
<1>2. /\ step = "done" /\ answer = Waiting /\ UNCHANGED <<scalar, decimalVars>>
      /\ answer' = IF scalar.as = "duration" THEN FinishDuration ELSE FinishBytes
  BY DEF Finish
<1>3. IInv' /\ Exact'
  BY <1>1, <1>2, ArithmeticKept
<1>4. UNCHANGED <<number, factor, step, product>>
  BY <1>2 DEF decimalVars
<1>5. Worth' = Worth
  BY <1>2 DEF Worth
<1>6. Asked' /\ Quiet'
  BY <1>1, <1>2, <1>4 DEF Asked, Quiet
<1>7. /\ scalar # NoScalar
      /\ \/ scalar.as = "duration" /\ Worth = DurationOf(Outcome(number, factor))
         \/ scalar.as = "bytes" /\ Worth = BytesOf(Outcome(number, factor), number)
  BY <1>1, <1>2 DEF Computes
<1>8. Computes'
  BY <1>1, <1>2, <1>4, <1>5 DEF Computes
<1>9. product = Outcome(number, factor) /\ (product = None \/ \E n \in 0 .. MaxWord : product = Some(n))
  BY <1>1, <1>2, ProductIs
<1>10. Says(answer', Worth)
  <2>1. CASE scalar.as = "duration" /\ Worth = DurationOf(Outcome(number, factor))
    <3>1. Says(FinishDuration, DurationOf(product))
      BY <1>9, DurationFinishes DEF DurationOf
    <3> QED
      BY <1>2, <1>9, <2>1, <3>1
  <2>2. CASE scalar.as = "bytes" /\ Worth = BytesOf(Outcome(number, factor), number)
    <3>1. Says(FinishBytes, BytesOf(product, number))
      BY <1>9, BytesFinishes DEF BytesOf
    <3> QED
      BY <1>2, <1>9, <2>2, <3>1
  <2> QED
    BY <1>7, <2>1, <2>2
<1>11. ReadsTheText'
  BY <1>5, <1>10 DEF ReadsTheText, Says
<1> QED
  BY <1>3, <1>6, <1>8, <1>11 DEF ReaderInv

LEMMA ForgetKeeps ==
    ASSUME Forget PROVE ReaderInv'
<1>1. /\ scalar' = NoScalar /\ answer' = Waiting /\ step' = "idle" /\ product' = None
      /\ number' = NoNumber /\ factor' = 0 /\ limbs' = <<>> /\ left' = 0 /\ at' = 1 /\ carry' = 0
  BY DEF Forget
<1>2. IInv'
  BY <1>1 DEF IInv, Typed, Numbers, NoNumber, IsZero, LimbSeq, GatherSmall, MultiplySmall, DivideSmall, PackSmall
<1>3. Exact'
  BY <1>1 DEF Exact, Nonzero, GatherValue, MultiplyValue, DivideValue, PackValue, ProductExact
<1> QED
  BY <1>1, <1>2, <1>3 DEF ReaderInv, Asked, Quiet, Computes, ReadsTheText

LEMMA RequestKeeps ==
    ASSUME ReaderInv, scalar = NoScalar, NEW raw \in RawText, NEW ty, NEW as \in UnitReaders, Request(raw, ty, as)
    PROVE  ReaderInv'
<1>1. IInv /\ Exact /\ step = "idle" /\ answer = Waiting
  BY DEF ReaderInv, Quiet
<1>2. scalar' = [raw |-> raw, ty |-> ty, as |-> as] /\ UNCHANGED <<answer, decimalVars>>
  BY DEF Request
<1>3. IInv' /\ Exact'
  BY <1>1, <1>2, ArithmeticKept
<1>4. answer' = Waiting /\ step' = "idle"
  BY <1>1, <1>2 DEF decimalVars
<1>5. scalar'.raw = raw /\ scalar'.as = as
  BY <1>2
<1> QED
  BY <1>3, <1>4, <1>5 DEF ReaderInv, Asked, Quiet, Computes, ReadsTheText

\* Whatever is read, the loops keep what they owe (IInv, Exact), and they run for
\* the number and the unit of the text (units.rs:75 to 134).
THEOREM ReaderInvariant == UnitsSpec => []ReaderInv
<1>1. UnitsInit => ReaderInv
  BY DEF UnitsInit, Idle, IInv, Typed, Numbers, NoNumber, IsZero, LimbSeq, GatherSmall, MultiplySmall, DivideSmall,
     PackSmall, Exact, Nonzero, GatherValue, MultiplyValue, DivideValue, PackValue, ProductExact,
     ReaderInv, Asked, Quiet, Computes, ReadsTheText
<1>2. ReaderInv /\ [UnitsNext]_unitVars => ReaderInv'
  <2> SUFFICES ASSUME ReaderInv, [UnitsNext]_unitVars PROVE ReaderInv'
    OBVIOUS
  <2>1. CASE /\ scalar = NoScalar
             /\ \E raw \in RawText, ty \in {"string", "number", "boolean", "null"},
                   as \in {"duration", "bytes", "period", "integer"} : Request(raw, ty, as)
    BY <2>1, RequestKeeps DEF UnitReaders
  <2>2. CASE Read
    BY <2>2, ReadKeeps
  <2>3. CASE Compute /\ UNCHANGED <<scalar, answer>>
    BY <2>3, ComputeKeepsReader
  <2>4. CASE Finish
    BY <2>4, FinishKeeps
  <2>5. CASE Forget
    BY <2>5, ForgetKeeps
  <2>6. CASE UNCHANGED unitVars
    <3>1. IInv /\ Exact /\ Asked /\ Quiet /\ Computes /\ ReadsTheText
      BY DEF ReaderInv
    <3>2. scalar' = scalar /\ answer' = answer /\ UNCHANGED decimalVars
      BY <2>6 DEF unitVars
    <3>3. number' = number /\ factor' = factor /\ step' = step
      BY <3>2 DEF decimalVars
    <3>4. Worth' = Worth
      BY <3>2 DEF Worth
    <3>5. IInv' /\ Exact'
      BY <3>1, <3>2, ArithmeticKept
    <3>6. Asked' /\ Quiet' /\ Computes' /\ ReadsTheText'
      BY <3>1, <3>2, <3>3, <3>4 DEF Asked, Quiet, Computes, ReadsTheText
    <3> QED
      BY <3>5, <3>6 DEF ReaderInv
  <2> QED
    BY <2>1, <2>2, <2>3, <2>4, <2>5, <2>6 DEF UnitsNext, ReadScalar
<1> QED
  BY <1>1, <1>2, PTL DEF UnitsSpec

\* Whatever the text, its type and what it is read as: the reader answers with
\* what the text is worth, and refuses what is worth nothing to it (units.rs:75
\* to 134, config.rs:328).
THEOREM TextsRead == UnitsSpec => []ReadsTheText
<1>1. ReaderInv => ReadsTheText
  BY DEF ReaderInv
<1> QED
  BY <1>1, ReaderInvariant, PTL

\* No reader asks the loops over the limbs (decimal.rs:133 to 183) for a product
\* on the way to which a word would wrap, whatever the text.
THEOREM ReadersNeverWrap == UnitsSpec => []NeverWraps
<1>1. ReaderInv => NeverWraps
  BY GatherFits, MultiplyFits, DivideFits DEF ReaderInv, IInv, NeverWraps
<1> QED
  BY <1>1, ReaderInvariant, PTL
=============================================================================
