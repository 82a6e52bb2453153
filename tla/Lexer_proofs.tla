---------------------------- MODULE Lexer_proofs ----------------------------
(***************************************************************************)
(* Located for every text: every token is where it says and all that can   *)
(* be read there, and nothing but blanks and comments is left out.  The    *)
(* inductive invariant adds where the cursor is and what stands between it *)
(* and the last token (or the $ of the substitution being read).           *)
(***************************************************************************)
EXTENDS ReadingProperties, FiniteSetTheorems, WellFoundedInduction, TLAPS

(* ------------------------------- naturals ------------------------------ *)
\* A set of naturals has a least element.
LEMMA Least ==
    ASSUME NEW S \in SUBSET Nat, S # {}
    PROVE  \E i \in S : \A k \in S : i <= k
<1> DEFINE R == OpToRel(<, Nat)
<1>1. IsWellFoundedOn(R, Nat)
  BY NatLessThanWellFounded
<1>2. \A i, k \in Nat : <<k, i>> \in R <=> k < i
  BY DEF OpToRel
<1> HIDE DEF R
<1>3. PICK i \in S : \A k \in S : ~(<<k, i>> \in R)
  BY <1>1, WFMin
<1>4. ASSUME NEW k \in S PROVE i <= k
  <2>1. i \in Nat /\ k \in Nat
    OBVIOUS
  <2>2. ~(k < i)
    BY <1>2, <1>3, <2>1, Zenon
  <2> QED
    BY <2>1, <2>2
<1> QED
  BY <1>4

\* And the last of some positions is the greatest of them.
LEMMA LastIsGreatest ==
    ASSUME NEW n \in Nat, NEW S \in SUBSET (0 .. n), S # {}
    PROVE  /\ LastOf(S) \in S /\ \A k \in S : k <= LastOf(S)
           /\ \A k \in S : (\A l \in S : l <= k) => k = LastOf(S)
<1> DEFINE T == {t \in 0 .. n : n - t \in S}
<1>1. PICK t \in T : \A k \in T : t <= k
  <2>1. T \in SUBSET Nat
    OBVIOUS
  <2>2. PICK k \in S : k \in 0 .. n
    OBVIOUS
  <2>3. n - k \in T
    BY <2>2
  <2> QED
    BY <2>1, <2>3, Least
<1>2. n - t \in S /\ \A l \in S : l <= n - t
  <2>1. n - t \in S /\ t \in 0 .. n
    BY <1>1
  <2>2. ASSUME NEW l \in S PROVE l <= n - t
    <3>1. n - l \in T /\ l \in 0 .. n
      OBVIOUS
    <3>2. t <= n - l
      BY <1>1, <3>1
    <3> QED
      BY <2>1, <3>1, <3>2
  <2> QED
    BY <2>1, <2>2
<1>3. LastOf(S) \in S /\ \A l \in S : l <= LastOf(S)
  BY <1>2, Zenon DEF LastOf
<1>4. S \in SUBSET Int
  OBVIOUS
<1> HIDE DEF T
<1>5. ASSUME NEW k \in S, \A l \in S : l <= k PROVE k = LastOf(S)
  <2>1. k <= LastOf(S) /\ LastOf(S) <= k /\ k \in Int /\ LastOf(S) \in Int
    BY <1>3, <1>4, <1>5
  <2> QED
    BY <2>1
<1> QED
  BY <1>3, <1>5

\* A scan ends at the first position that is not in S.
LEMMA PastStops ==
    ASSUME Len(input) \in Nat, NEW S, Len(input) + 1 \notin S, NEW i \in 1 .. Len(input) + 1
    PROVE  /\ Past(i, S) \in i .. Len(input) + 1 /\ Past(i, S) \notin S
           /\ \A k \in i .. Past(i, S) - 1 : k \in S
<1> DEFINE stops == {j \in i .. Len(input) + 1 : j \notin S}
<1>1. stops \in SUBSET Nat /\ Len(input) + 1 \in stops
  OBVIOUS
<1>2. PICK j \in stops : \A k \in stops : j <= k
  BY <1>1, Least
<1>3. j \in i .. Len(input) + 1 /\ j \notin S /\ \A k \in i .. j - 1 : k \in S
  BY <1>2
<1> QED
  BY <1>3, Zenon DEF Past

(* ------------------------------- positions ----------------------------- *)
ItsText == input \in Seq(STRING) /\ \A i \in DOMAIN input : input[i] # ""

LEMMA Pieces ==
    ASSUME NEW S, NEW s \in Seq(S)
    PROVE  /\ Len(s) \in Nat /\ DOMAIN s = 1 .. Len(s)
           /\ \A i \in 1 .. Len(s) + 1 : \A j \in i .. Len(s) + 1 :
                 /\ SubSeq(s, i, j - 1) \in Seq(S) /\ Len(SubSeq(s, i, j - 1)) = j - i
                 /\ \A k \in 1 .. j - i : SubSeq(s, i, j - 1)[k] = s[i + k - 1]
  OBVIOUS

LEMMA Chars ==
    ASSUME ItsText
    PROVE  /\ Len(input) \in Nat /\ DOMAIN input = 1 .. Len(input)
           /\ \A i : Char(i) # "" <=> i \in 1 .. Len(input)
           /\ \A i \in 1 .. Len(input) : Char(i) = input[i]
<1>1. Len(input) \in Nat /\ DOMAIN input = 1 .. Len(input)
  BY Pieces, Zenon DEF ItsText
<1>2. ASSUME NEW i \in 1 .. Len(input)
      PROVE  Char(i) = input[i] /\ Char(i) # ""
  <2>1. input[i] # ""
    BY <1>1 DEF ItsText
  <2> QED
    BY <2>1 DEF Char
<1>3. \A i : i \notin 1 .. Len(input) => Char(i) = ""
  BY DEF Char
<1> QED
  BY <1>1, <1>2, <1>3

LEMMA BeginsAt ==
    ASSUME NEW i \in Int
    PROVE  /\ \A a : Is(i, <<a>>) <=> Char(i) = a
           /\ \A a, b : Is(i, <<a, b>>) <=> Char(i) = a /\ Char(i + 1) = b
           /\ \A a, b, c : Is(i, <<a, b, c>>) <=> Char(i) = a /\ Char(i + 1) = b /\ Char(i + 2) = c
<1>1. i + 1 - 1 = i /\ i + 2 - 1 = i + 1 /\ i + 3 - 1 = i + 2
  OBVIOUS
<1>2. \A a : Len(<<a>>) = 1 /\ <<a>>[1] = a
  OBVIOUS
<1>3. \A a, b : Len(<<a, b>>) = 2 /\ <<a, b>>[1] = a /\ <<a, b>>[2] = b
  OBVIOUS
<1>4. \A a, b, c : /\ Len(<<a, b, c>>) = 3 /\ <<a, b, c>>[1] = a /\ <<a, b, c>>[2] = b
                   /\ <<a, b, c>>[3] = c
  OBVIOUS
<1>5. 1 .. 1 = {1} /\ 1 .. 2 = {1, 2} /\ 1 .. 3 = {1, 2, 3}
  OBVIOUS
<1>6. \A a : Is(i, <<a>>) <=> Char(i) = a
  BY <1>1, <1>2, <1>5, Zenon DEF Is
<1>7. \A a, b : Is(i, <<a, b>>) <=> Char(i) = a /\ Char(i + 1) = b
  <2> TAKE a, b
  <2> DEFINE w == <<a, b>>
  <2>1. Len(w) = 2 /\ w[1] = a /\ w[2] = b
    OBVIOUS
  <2> HIDE DEF w
  <2>2. Is(i, w) <=> Char(i) = w[1] /\ Char(i + 1) = w[2]
    BY <1>1, <1>5, <2>1 DEF Is
  <2> QED
    BY <2>1, <2>2 DEF w
<1>8. \A a, b, c : Is(i, <<a, b, c>>) <=> Char(i) = a /\ Char(i + 1) = b /\ Char(i + 2) = c
  <2> TAKE a, b, c
  <2> DEFINE w == <<a, b, c>>
  <2>1. Len(w) = 3 /\ w[1] = a /\ w[2] = b /\ w[3] = c
    OBVIOUS
  <2> HIDE DEF w
  <2>2. Is(i, w) <=> Char(i) = w[1] /\ Char(i + 1) = w[2] /\ Char(i + 2) = w[3]
    BY <1>1, <1>5, <2>1 DEF Is
  <2> QED
    BY <2>1, <2>2 DEF w
<1> QED
  BY <1>6, <1>7, <1>8

LEMMA Excerpt ==
    ASSUME ItsText, NEW i \in 1 .. Len(input) + 1, NEW j \in i .. Len(input) + 1
    PROVE  /\ Text(i, j) \in Seq(STRING) /\ Len(Text(i, j)) = j - i
           /\ \A k \in 1 .. j - i : Text(i, j)[k] = Char(i + k - 1)
<1>1. /\ Text(i, j) \in Seq(STRING) /\ Len(Text(i, j)) = j - i
      /\ \A k \in 1 .. j - i : Text(i, j)[k] = input[i + k - 1]
  BY Pieces, Zenon DEF ItsText, Text
<1>2. \A k \in 1 .. j - i : i + k - 1 \in 1 .. Len(input)
  <2>1. Len(input) \in Nat
    BY Chars
  <2> QED
    BY <2>1
<1> QED
  <2>1. \A k \in 1 .. j - i : Char(i + k - 1) = input[i + k - 1]
    BY <1>2, Chars
  <2> QED
    BY <1>1, <2>1

\* The line ends of a text are counted piece by piece.
LEMMA NewlinesSplit ==
    ASSUME NEW i \in Nat, NEW j \in Nat, 1 <= i, i <= j
    PROVE  /\ IsFiniteSet(Newlines(i, j)) /\ Newlines(i, j) \in SUBSET (i .. j - 1)
           /\ Newlines(1, j) = Newlines(1, i) \cup Newlines(i, j)
           /\ Newlines(1, i) \cap Newlines(i, j) = {}
           /\ Cardinality(Newlines(i, j)) \in Nat /\ Cardinality(Newlines(1, i)) \in Nat
           /\ Cardinality(Newlines(1, j)) = Cardinality(Newlines(1, i)) + Cardinality(Newlines(i, j))
<1>1. \A k \in Nat, l \in Nat : IsFiniteSet(Newlines(k, l)) /\ Newlines(k, l) \in SUBSET (k .. l - 1)
  <2> TAKE k \in Nat, l \in Nat
  <2>1. IsFiniteSet(k .. l - 1)
    BY FS_Interval
  <2>2. Newlines(k, l) \in SUBSET (k .. l - 1)
    BY DEF Newlines
  <2> QED
    BY <2>1, <2>2, FS_Subset
<1>2. Newlines(1, j) = Newlines(1, i) \cup Newlines(i, j) /\ Newlines(1, i) \cap Newlines(i, j) = {}
  BY DEF Newlines
<1>3. IsFiniteSet(Newlines(1, i)) /\ IsFiniteSet(Newlines(i, j))
  BY <1>1
<1>4. Cardinality({}) = 0
  BY FS_EmptySet
<1>5. Cardinality(Newlines(1, i)) \in Nat /\ Cardinality(Newlines(i, j)) \in Nat
  BY <1>3, FS_CardinalityType
<1>6. Cardinality(Newlines(1, j)) = Cardinality(Newlines(1, i)) + Cardinality(Newlines(i, j))
                                      - Cardinality({})
  BY <1>2, <1>3, FS_Union
<1> QED
  BY <1>1, <1>2, <1>4, <1>5, <1>6

LEMMA HomeIs == Home \in 1 .. 2
  BY DEF Home

\* From one position to another: the line advances by the line ends between
\* them, and the column counts from the last of them.
LEMMA Moves ==
    ASSUME NEW i \in Nat, NEW j \in Nat, Home <= i, i <= j
    PROVE  /\ LineAt(i) \in Nat \ {0} /\ ColAt(i) \in Int
           /\ LineAt(j) = LineAt(i) + Cardinality(Newlines(i, j))
           /\ Newlines(i, j) = {} => LineAt(j) = LineAt(i) /\ ColAt(j) = ColAt(i) + (j - i)
           /\ Newlines(i, j) # {} => ColAt(j) = j - LastOf(Newlines(i, j))
<1>1. 1 <= i /\ Home \in Nat
  BY HomeIs
<1>2. /\ Newlines(i, j) \in SUBSET (i .. j - 1)
      /\ Newlines(1, j) = Newlines(1, i) \cup Newlines(i, j)
      /\ Cardinality(Newlines(i, j)) \in Nat /\ Cardinality(Newlines(1, i)) \in Nat
      /\ Cardinality(Newlines(1, j)) = Cardinality(Newlines(1, i)) + Cardinality(Newlines(i, j))
  BY <1>1, NewlinesSplit
<1>3. Newlines(1, i) \in SUBSET (1 .. i - 1)
  BY <1>1 DEF Newlines
<1>4. /\ LineAt(i) \in Nat \ {0}
      /\ LineAt(j) = LineAt(i) + Cardinality(Newlines(i, j))
  BY <1>2 DEF LineAt
<1>5. ColAt(i) \in Int
  <2>1. CASE Newlines(1, i) = {}
    BY <1>1, <2>1 DEF ColAt
  <2>2. CASE Newlines(1, i) # {}
    <3>1. Newlines(1, i) \in SUBSET (0 .. i)
      BY <1>3
    <3>2. LastOf(Newlines(1, i)) \in Newlines(1, i)
      BY <2>2, <3>1, LastIsGreatest
    <3> QED
      BY <1>3, <2>2, <3>2 DEF ColAt
  <2> QED
    BY <2>1, <2>2
<1>6. CASE Newlines(i, j) = {}
  <2>1. Newlines(1, j) = Newlines(1, i)
    BY <1>2, <1>6
  <2>2. ColAt(j) = ColAt(i) + (j - i)
    <3>1. CASE Newlines(1, i) = {}
      BY <1>1, <2>1, <3>1 DEF ColAt
    <3>2. CASE Newlines(1, i) # {}
      <4>1. Newlines(1, i) \in SUBSET (0 .. i)
        BY <1>3
      <4>2. LastOf(Newlines(1, i)) \in 1 .. i - 1
        BY <1>3, <3>2, <4>1, LastIsGreatest
      <4> QED
        BY <2>1, <3>2, <4>2 DEF ColAt
    <3> QED
      BY <3>1, <3>2
  <2> QED
    BY <1>4, <1>5, <1>6, <2>1, <2>2 DEF LineAt
<1>7. CASE Newlines(i, j) # {}
  <2>1. Newlines(1, j) \in SUBSET (0 .. j) /\ Newlines(i, j) \in SUBSET (0 .. j) /\ Newlines(1, j) # {}
    BY <1>2, <1>3, <1>7
  <2> DEFINE l == LastOf(Newlines(i, j))
  <2>2. l \in Newlines(i, j) /\ \A k \in Newlines(i, j) : k <= l
    BY <1>7, <2>1, LastIsGreatest
  <2>3. l \in Newlines(1, j) /\ \A k \in Newlines(1, j) : k <= l
    BY <1>1, <1>2, <1>3, <2>2
  <2>4. l = LastOf(Newlines(1, j))
    BY <2>1, <2>3, LastIsGreatest
  <2> QED
    BY <1>4, <1>5, <1>7, <2>1, <2>4 DEF ColAt
<1> QED
  BY <1>4, <1>5, <1>6, <1>7

\* Columns and lines count from one.
LEMMA FromOne ==
    ASSUME NEW i \in Nat, Home <= i
    PROVE  LineAt(i) \in Nat \ {0} /\ ColAt(i) \in Nat \ {0}
<1>1. LineAt(i) \in Nat \ {0} /\ Home \in 1 .. 2
  BY HomeIs, Moves
<1>2. CASE Newlines(1, i) = {}
  BY <1>1, <1>2 DEF ColAt
<1>3. CASE Newlines(1, i) # {}
  <2>1. Newlines(1, i) \in SUBSET (1 .. i - 1)
    BY <1>1 DEF Newlines
  <2>2. Newlines(1, i) \in SUBSET (0 .. i)
    BY <2>1
  <2>3. LastOf(Newlines(1, i)) \in 1 .. i - 1
    BY <1>3, <2>1, <2>2, LastIsGreatest
  <2> QED
    BY <1>1, <1>3, <2>3 DEF ColAt
<1> QED
  BY <1>1, <1>2, <1>3

LEMMA NoNewline ==
    ASSUME ItsText, NEW i \in 1 .. Len(input) + 1, NEW j \in Nat, i <= j, j <= Len(input) + 1
    PROVE  Newlines(i, j) = {} <=> \A k \in i .. j - 1 : Char(k) # Newline
<1>1. \A k \in i .. j - 1 : k \in 1 .. Len(input)
  <2>1. Len(input) \in Nat
    BY Chars
  <2> QED
    BY <2>1
<1>2. \A k \in i .. j - 1 : Char(k) = input[k]
  BY <1>1, Chars
<1> QED
  BY <1>2 DEF Newlines

(* ---------------------------- quoted strings --------------------------- *)
\* What a turn of the loop reads, and where the next one begins.
Ordinary(j) == Char(j) \notin {"", Newline, Quote, Backslash}
Escape(j)   == Char(j) = Backslash /\ Char(j + 1) \in DOMAIN Escapes
Leap(j, k)  == \/ Ordinary(j) /\ k = j + 1
               \/ Escape(j) /\ k = j + 2
               \/ IsUnicode(j) /\ k = j + 6
Ended(j)   == [ok |-> TRUE, why |-> "", text |-> <<>>, to |-> j + 1]
Refusals    == {"unterminated string", "invalid escape"}

LEMMA Turns ==
    ASSUME ItsText, NEW j \in 1 .. Len(input) + 1
    PROVE  \/ Char(j) = Quote /\ \A body : QuotedTurn(body, j) = Ended(j)
           \/ \E e \in Refusals : \A body : QuotedTurn(body, j) = Unread(e)
           \/ \E c, k : /\ Leap(j, k) /\ k \in j + 1 .. Len(input) + 1
                        /\ \A body : QuotedTurn(body, j) = Prefixed(c, body[k])
<1>1. \A i : Char(i) # "" <=> i \in 1 .. Len(input)
  BY Chars
<1>9. Len(input) \in Nat
  BY Chars
<1>2. DOMAIN Escapes = {Quote, Backslash, "/", "n", "t", "r", "b", "f"}
  BY DEF Escapes
<1>3. "" \notin DOMAIN Escapes /\ "u" \notin DOMAIN Escapes
  BY <1>2 DEF Quote, Backslash
<1>4. Quote # Backslash /\ Quote # "" /\ Quote # Newline /\ Backslash # "" /\ Backslash # Newline /\ "u" # ""
  BY DEF Quote, Backslash, Newline
<1>5. CASE Char(j) \in {"", Newline}
  <2>1. Char(j) # Quote /\ Char(j) # Backslash /\ ~IsUnicode(j)
    BY <1>4, <1>5 DEF IsUnicode
  <2>2. \A body : QuotedTurn(body, j) = Unread("unterminated string")
    BY <1>5, <2>1, Zenon DEF QuotedTurn
  <2> QED
    BY <2>2 DEF Refusals
<1>6. CASE Char(j) = Quote
  <2>1. Char(j) \notin {"", Newline} /\ Char(j) # Backslash /\ ~IsUnicode(j)
    BY <1>4, <1>6 DEF IsUnicode
  <2>2. \A body : QuotedTurn(body, j) = Ended(j)
    BY <1>6, <2>1, Zenon DEF QuotedTurn, Ended
  <2> QED
    BY <1>6, <2>2
<1>7. CASE Ordinary(j)
  <2>1. Char(j) \notin {"", Newline} /\ Char(j) # Quote /\ Char(j) # Backslash /\ ~IsUnicode(j)
    BY <1>7 DEF Ordinary, IsUnicode
  <2>2. \A body : QuotedTurn(body, j) = Prefixed(Char(j), body[j + 1])
    BY <1>7, <2>1, Zenon DEF QuotedTurn, Ordinary
  <2>3. Leap(j, j + 1)
    BY <1>7, Zenon DEF Leap
  <2>4. j \in 1 .. Len(input)
    BY <1>1, <2>1
  <2>5. j + 1 \in j + 1 .. Len(input) + 1
    BY <1>9, <2>4
  <2> QED
    BY <2>2, <2>3, <2>5
<1>8. CASE Char(j) = Backslash
  <2>1. Char(j) \notin {"", Newline} /\ Char(j) # Quote
        /\ ~(Char(j) \notin {"", Newline, Quote, Backslash})
    BY <1>4, <1>8
  <2>2. CASE Char(j + 1) = ""
    <3>1. Char(j + 1) \notin DOMAIN Escapes /\ ~IsUnicode(j)
      BY <1>3, <1>4, <2>2 DEF IsUnicode
    <3>2. \A body : QuotedTurn(body, j) = Unread("unterminated string")
      BY <1>8, <2>1, <2>2, <3>1, Zenon DEF QuotedTurn
    <3> QED
      BY <3>2 DEF Refusals
  <2>3. CASE Char(j + 1) \in DOMAIN Escapes
    <3>1. Char(j + 1) # "" /\ ~IsUnicode(j)
      BY <1>3, <2>3 DEF IsUnicode
    <3>2. \A body : QuotedTurn(body, j) = Prefixed(Escapes[Char(j + 1)], body[j + 2])
      BY <1>8, <2>1, <2>3, <3>1, Zenon DEF QuotedTurn
    <3>3. j + 1 \in 1 .. Len(input)
      BY <1>1, <3>1
    <3>4. Leap(j, j + 2)
      BY <1>8, <2>3, Zenon DEF Leap, Escape
    <3>5. j + 2 \in j + 1 .. Len(input) + 1
      BY <1>9, <3>3
    <3> QED
      BY <3>2, <3>4, <3>5
  <2>4. CASE IsUnicode(j)
    <3>1. Char(j + 1) # "" /\ Char(j + 1) \notin DOMAIN Escapes
      BY <1>3, <1>4, <2>4 DEF IsUnicode
    <3>2. \A body : QuotedTurn(body, j) = Prefixed(CodePoint[Text(j + 2, j + 6)], body[j + 6])
      BY <1>8, <2>1, <2>4, <3>1, Zenon DEF QuotedTurn
    <3>3. Leap(j, j + 6)
      BY <2>4, Zenon DEF Leap
    <3>4. j + 6 \in j + 1 .. Len(input) + 1
      <4>1. j + 5 <= Len(input)
        BY <2>4, Zenon DEF IsUnicode
      <4> QED
        BY <1>9, <4>1
    <3> QED
      BY <3>2, <3>3, <3>4
  <2>5. CASE Char(j + 1) # "" /\ Char(j + 1) \notin DOMAIN Escapes /\ ~IsUnicode(j)
    <3>1. \A body : QuotedTurn(body, j) = Unread("invalid escape")
      BY <1>8, <2>1, <2>5, Zenon DEF QuotedTurn
    <3> QED
      BY <3>1 DEF Refusals
  <2> QED
    BY <2>2, <2>3, <2>4, <2>5
<1> QED
  BY <1>5, <1>6, <1>7, <1>8 DEF Ordinary

\* The loop is a function: a turn needs only what comes after it.
LEMMA BodyExists ==
    ASSUME ItsText, NEW i \in 1 .. Len(input) + 1
    PROVE  \E body : body = [j \in i .. Len(input) + 1 |-> QuotedTurn(body, j)]
<1> DEFINE n == Len(input) + 1
           Good(m) == \E f : \A j \in m .. n : f[j] = QuotedTurn(f, j)
<1>1. n \in Nat /\ i \in 1 .. n
  <2>1. Len(input) \in Nat
    BY Chars
  <2> QED
    BY <2>1
<1>2. ASSUME NEW m \in i .. n, m < n => Good(m + 1)
      PROVE  Good(m)
  <2>1. PICK f : \A j \in m + 1 .. n : f[j] = QuotedTurn(f, j)
    BY <1>1, <1>2
  <2> DEFINE g == [j \in m .. n |-> IF j = m THEN QuotedTurn(f, m) ELSE f[j]]
  <2>2. \A j \in m + 1 .. n : g[j] = f[j]
    BY <1>1
  <2>3. g[m] = QuotedTurn(f, m)
    BY <1>1
  <2> HIDE DEF g
  <2>4. ASSUME NEW j \in m .. n PROVE QuotedTurn(g, j) = QuotedTurn(f, j)
    <3>1. j \in 1 .. Len(input) + 1 /\ \A k \in j + 1 .. Len(input) + 1 : k \in m + 1 .. n
      BY <1>1
    <3>2. \A k \in j + 1 .. Len(input) + 1 : g[k] = f[k]
      BY <2>2, <3>1
    <3> QED
      BY <3>1, <3>2, Turns, Zenon
  <2>5. ASSUME NEW j \in m .. n PROVE g[j] = QuotedTurn(g, j)
    <3>1. CASE j = m
      BY <2>3, <2>4, <3>1
    <3>2. CASE j # m
      <4>1. j \in m + 1 .. n
        BY <1>1, <3>2
      <4> QED
        BY <2>1, <2>2, <2>4, <4>1
    <3> QED
      BY <3>1, <3>2
  <2> QED
    BY <2>5
<1>3. Good(i)
  <2> DEFINE Bad == {d \in 0 .. n - i : ~Good(n - d)}
  <2>1. CASE Bad = {}
    <3>1. n - i \in 0 .. n - i /\ n - (n - i) = i
      BY <1>1
    <3> HIDE DEF Good
    <3> QED
      BY <2>1, <3>1
  <2>2. CASE Bad # {}
    <3> HIDE DEF Good
    <3>1. Bad \in SUBSET Nat
      BY <1>1
    <3>2. PICK d \in Bad : \A k \in Bad : d <= k
      BY <2>2, <3>1, Least
    <3>3. d \in 0 .. n - i /\ ~Good(n - d) /\ n - d \in i .. n
      BY <1>1, <3>2
    <3>4. n - d < n => Good(n - d + 1)
      <4> SUFFICES ASSUME n - d < n PROVE Good(n - d + 1)
        OBVIOUS
      <4>1. d - 1 \in 0 .. n - i /\ n - (d - 1) = n - d + 1 /\ ~(d <= d - 1)
        BY <1>1, <3>3
      <4>2. d - 1 \notin Bad
        BY <3>2, <4>1
      <4> QED
        BY <4>1, <4>2
    <3> QED
      BY <1>2, <3>3, <3>4
  <2> QED
    BY <2>1, <2>2
<1>4. PICK f : \A j \in i .. n : f[j] = QuotedTurn(f, j)
  BY <1>3
<1> DEFINE g == [j \in i .. n |-> f[j]]
<1>5. \A j \in i .. n : g[j] = f[j]
  OBVIOUS
<1>6. ASSUME NEW j \in i .. n PROVE QuotedTurn(g, j) = f[j]
  <2>1. j \in 1 .. Len(input) + 1 /\ \A k \in j + 1 .. Len(input) + 1 : k \in i .. n
    BY <1>1
  <2>2. \A k \in j + 1 .. Len(input) + 1 : g[k] = f[k]
    BY <1>5, <2>1
  <2> HIDE DEF g
  <2>3. QuotedTurn(g, j) = QuotedTurn(f, j)
    BY <2>1, <2>2, Turns, Zenon
  <2> QED
    BY <1>4, <2>3
<1>7. g = [j \in i .. n |-> QuotedTurn(g, j)]
  BY <1>6
<1> QED
  BY <1>7

\* A character is escaped by a backslash that is not escaped itself.
LEMMA EscapedStep ==
    ASSUME NEW q \in Nat, Char(q) = Quote
    PROVE  /\ ~Escaped(q, q + 1)
           /\ \A k \in Nat : k > q => (Escaped(q, k + 1) <=> Char(k) = Backslash /\ ~Escaped(q, k))
<1>1. Quote # Backslash
  BY DEF Quote, Backslash
<1> DEFINE Slashes(i, k) == \A l \in Int : i <= l /\ l < k => Char(l) = Backslash
           Odd(n, k) == 1 <= n /\ n <= k - q /\ n % 2 = 1 /\ Slashes(k - n, k) /\ Char(k - n - 1) # Backslash
<1>6. \A i, k \in Int : Only(i, k, {Backslash}) <=> Slashes(i, k)
  BY DEF Only
<1>2. \A k \in Int : Escaped(q, k) <=> \E n \in Int : Odd(n, k)
  <2> TAKE k \in Int
  <2> HIDE DEF Slashes
  <2>1. \A n \in Int : Only(k - n, k, {Backslash}) <=> Slashes(k - n, k)
    <3>1. \A n \in Int : k - n \in Int
      OBVIOUS
    <3> QED
      BY <1>6, <3>1
  <2>2. \A n : n \in 1 .. k - q <=> n \in Int /\ 1 <= n /\ n <= k - q
    OBVIOUS
  <2> QED
    BY <2>1, <2>2, Zenon DEF Escaped
<1> HIDE DEF Slashes
<1>3. ~Escaped(q, q + 1)
  <2> SUFFICES ASSUME NEW n \in Int, Odd(n, q + 1) PROVE FALSE
    BY <1>2
  <2>1. q + 1 - n = q
    OBVIOUS
  <2>2. Slashes(q, q + 1)
    BY <2>1
  <2>3. Char(q) = Backslash
    BY <2>2 DEF Slashes
  <2> QED
    BY <1>1, <2>3
<1>4. ASSUME NEW k \in Nat, k > q, Escaped(q, k + 1)
      PROVE  Char(k) = Backslash /\ ~Escaped(q, k)
  <2>1. PICK n \in Int : Odd(n, k + 1)
    BY <1>2, <1>4
  <2>2. k + 1 - n - 1 = k - n
    OBVIOUS
  <2>3. Slashes(k + 1 - n, k + 1) /\ Char(k - n) # Backslash /\ n >= 1 /\ n % 2 = 1
    BY <2>1, <2>2
  <2>4. Char(k) = Backslash
    BY <2>3 DEF Slashes
  <2>5. ASSUME NEW m \in Int, Odd(m, k)
        PROVE  FALSE
    <3>1. Slashes(k - m, k) /\ Char(k - m - 1) # Backslash /\ m >= 1 /\ m % 2 = 1
      BY <2>5
    <3>2. ~(m < n - 1)
      <4>1. SUFFICES ASSUME m < n - 1 PROVE Char(k - m - 1) = Backslash
        BY <3>1
      <4>2. k - m - 1 \in Int /\ k + 1 - n <= k - m - 1 /\ k - m - 1 < k + 1
        BY <3>1, <4>1
      <4> QED
        BY <2>3, <4>2 DEF Slashes
    <3>3. ~(m > n - 1)
      <4>1. SUFFICES ASSUME m > n - 1 PROVE Char(k - n) = Backslash
        BY <2>3
      <4>2. k - n \in Int /\ k - m <= k - n /\ k - n < k
        BY <2>3, <4>1
      <4> QED
        BY <3>1, <4>2 DEF Slashes
    <3>4. m = n - 1
      BY <3>2, <3>3
    <3> QED
      BY <2>3, <3>1, <3>4
  <2>6. ~Escaped(q, k)
    BY <1>2, <2>5
  <2> QED
    BY <2>4, <2>6
<1>5. ASSUME NEW k \in Nat, k > q, Char(k) = Backslash, ~Escaped(q, k)
      PROVE  Escaped(q, k + 1)
  <2> DEFINE Ends == {m \in Nat : m <= k - q - 1 /\ Char(k - m - 1) # Backslash}
  <2>1. k - q - 1 \in Ends
    <3>1. k - q - 1 \in Nat /\ k - (k - q - 1) - 1 = q
      BY <1>5
    <3> QED
      BY <1>1, <3>1
  <2>2. PICK m \in Ends : \A e \in Ends : m <= e
    <3>1. Ends \in SUBSET Nat
      OBVIOUS
    <3> QED
      BY <2>1, <3>1, Least
  <2>3. m \in Nat /\ m <= k - q - 1 /\ Char(k - m - 1) # Backslash
    BY <2>2
  <2>4. ASSUME NEW l \in Int, k - m <= l, l < k PROVE Char(l) = Backslash
    <3>1. k - l - 1 \in Nat /\ k - l - 1 < m /\ k - (k - l - 1) - 1 = l
      BY <2>3, <2>4
    <3>2. ~(m <= k - l - 1) /\ k - l - 1 <= k - q - 1
      BY <2>3, <3>1
    <3>3. k - l - 1 \notin Ends
      BY <2>2, <3>2
    <3> QED
      BY <3>1, <3>2, <3>3
  <2> HIDE DEF Ends
  <2>5. Slashes(k - m, k)
    BY <2>4 DEF Slashes
  <2>6. m % 2 # 1
    <3> SUFFICES ASSUME m % 2 = 1 PROVE FALSE
      OBVIOUS
    <3>1. 1 <= m /\ m <= k - q /\ m \in Int
      BY <2>3
    <3>2. Odd(m, k)
      BY <2>3, <2>5, <3>1
    <3> QED
      <4>1. k \in Int
        OBVIOUS
      <4> HIDE DEF Odd
      <4>2. Escaped(q, k)
        BY <1>2, <3>1, <3>2, <4>1, Zenon
      <4> QED
        BY <1>5, <4>2
  <2> DEFINE n == m + 1
  <2>7. /\ n \in Int /\ 1 <= n /\ n <= k + 1 - q /\ n % 2 = 1
        /\ k + 1 - n - 1 = k - m - 1 /\ k + 1 - n = k - m /\ k + 1 \in Int
    BY <2>3, <2>6
  <2>8. Slashes(k + 1 - n, k + 1)
    <3>1. ASSUME NEW l \in Int, k - m <= l, l < k + 1 PROVE Char(l) = Backslash
      <4>1. l = k \/ (k - m <= l /\ l < k)
        BY <3>1
      <4> QED
        BY <1>5, <2>4, <4>1
    <3> QED
      BY <2>7, <3>1 DEF Slashes
  <2> HIDE DEF n
  <2>9. Odd(n, k + 1)
    BY <2>3, <2>7, <2>8
  <2> QED
    BY <1>2, <2>7, <2>9
<1> QED
  BY <1>3, <1>4, <1>5

\* What ReadsQuoted says of a character between the quotes.
GoodIn(q, k, e) ==
    /\ Char(k) # Newline
    /\ Char(k) = Quote => (Escaped(q, k) <=> k # e - 1)
    /\ Escaped(q, k) => Char(k) \in DOMAIN Escapes \/ (Char(k) = "u" /\ k + 4 <= Len(input) /\ Hexes(k) \in DOMAIN CodePoint)
\* The loop, from a character at j that is not escaped on, ends after the quote.
ReadsOn(q, j, e) ==
    /\ e \in j + 1 .. Len(input) + 1 /\ Char(e - 1) = Quote
    /\ \A k \in j .. e - 1 : GoodIn(q, k, e)

\* Over a turn, to an end that is further on.
LEMMA LeapReads ==
    ASSUME ItsText, NEW q \in Nat, Char(q) = Quote, NEW j \in Nat, j > q, ~Escaped(q, j),
           NEW k \in Nat, Leap(j, k)
    PROVE  /\ ~Escaped(q, k) /\ k > j
           /\ \A e \in Nat : e > k => \A l \in j .. k - 1 : GoodIn(q, l, e)
<1> DEFINE Step(n) == Escaped(q, n + 1) <=> Char(n) = Backslash /\ ~Escaped(q, n)
<1>1. \A n \in Nat : n > q => Step(n)
  BY EscapedStep
<1>2. /\ Quote # Backslash /\ Quote # Newline /\ Backslash # Newline /\ "u" # Newline /\ "u" # Quote
      /\ Newline \notin DOMAIN Escapes /\ "u" # Backslash
  BY DEF Quote, Backslash, Newline, Escapes
<1> HIDE DEF Step
<1>3. CASE Ordinary(j) /\ k = j + 1
  <2>1. Step(j)
    BY <1>1
  <2>2. Char(j) # Newline /\ Char(j) # Quote /\ Char(j) # Backslash
    BY <1>3 DEF Ordinary
  <2>3. ~Escaped(q, j + 1) /\ \A e : GoodIn(q, j, e)
    BY <2>1, <2>2, Zenon DEF Step, GoodIn
  <2>4. \A l \in j .. k - 1 : l = j
    BY <1>3
  <2> QED
    BY <1>3, <2>3, <2>4
<1>4. CASE Escape(j) /\ k = j + 2
  <2>1. Step(j) /\ Step(j + 1) /\ j + 1 + 1 = j + 2
    BY <1>1
  <2>2. Char(j) = Backslash /\ Char(j + 1) \in DOMAIN Escapes
    BY <1>4 DEF Escape
  <2>3. Escaped(q, j + 1) /\ ~Escaped(q, j + 2)
    BY <2>1, <2>2, Zenon DEF Step
  <2>4. \A e : GoodIn(q, j, e)
    BY <1>2, <2>2, Zenon DEF GoodIn
  <2>5. \A e \in Nat : e > k => j + 1 # e - 1
    BY <1>4
  <2>6. \A e \in Nat : e > k => GoodIn(q, j + 1, e)
    BY <1>2, <2>2, <2>3, <2>5, Zenon DEF GoodIn
  <2>7. \A l \in j .. k - 1 : l = j \/ l = j + 1
    BY <1>4
  <2> QED
    BY <1>4, <2>3, <2>4, <2>6, <2>7
<1>5. CASE IsUnicode(j) /\ k = j + 6
  <2>1. /\ Char(j) = Backslash /\ Char(j + 1) = "u" /\ j + 5 <= Len(input)
        /\ Text(j + 2, j + 6) \in DOMAIN CodePoint
    BY <1>5, Zenon DEF IsUnicode
  <2>2. Len(input) \in Nat
    BY Chars
  <2>3. j + 2 \in 1 .. Len(input) + 1 /\ j + 6 \in j + 2 .. Len(input) + 1 /\ j + 6 - (j + 2) = 4
    BY <2>1, <2>2
  <2>4. \A n \in 1 .. 4 : Text(j + 2, j + 6)[n] = Char(j + 2 + n - 1)
    <3> DEFINE a == j + 2
               b == j + 6
    <3>1. a \in 1 .. Len(input) + 1 /\ b \in a .. Len(input) + 1 /\ b - a = 4
      BY <2>3
    <3> HIDE DEF a, b
    <3>2. \A n \in 1 .. b - a : Text(a, b)[n] = Char(a + n - 1)
      BY <3>1, Excerpt
    <3>3. \A n \in 1 .. 4 : Text(a, b)[n] = Char(a + n - 1)
      BY <3>1, <3>2
    <3> QED
      BY <3>3 DEF a, b
  <2>5. \A n \in 1 .. 4 : Char(j + 2 + n - 1) \in HexDigit
    BY <2>1, <2>4, CodePointAssumption, Zenon
  <2>6. j + 2 + 1 - 1 = j + 2 /\ j + 2 + 2 - 1 = j + 3 /\ j + 2 + 3 - 1 = j + 4 /\ j + 2 + 4 - 1 = j + 5
    OBVIOUS
  <2>7. Char(j + 2) \in HexDigit /\ Char(j + 3) \in HexDigit /\ Char(j + 4) \in HexDigit /\ Char(j + 5) \in HexDigit
    <3>1. 1 \in 1 .. 4 /\ 2 \in 1 .. 4 /\ 3 \in 1 .. 4 /\ 4 \in 1 .. 4
      OBVIOUS
    <3> QED
      BY <2>5, <2>6, <3>1, Zenon
  <2>8. Newline \notin HexDigit /\ Quote \notin HexDigit /\ Backslash \notin HexDigit
    BY DEF HexDigit, Digit, Newline, Quote, Backslash
  <2>9. /\ Step(j) /\ Step(j + 1) /\ Step(j + 2) /\ Step(j + 3) /\ Step(j + 4) /\ Step(j + 5)
        /\ j + 1 + 1 = j + 2 /\ j + 2 + 1 = j + 3 /\ j + 3 + 1 = j + 4 /\ j + 4 + 1 = j + 5
        /\ j + 5 + 1 = j + 6
    BY <1>1
  <2>10. Escaped(q, j + 1) /\ ~Escaped(q, j + 2)
    BY <2>1, <2>9, Zenon DEF Step
  <2>11. ~Escaped(q, j + 3) /\ ~Escaped(q, j + 4) /\ ~Escaped(q, j + 5) /\ ~Escaped(q, j + 6)
    BY <2>7, <2>8, <2>9, Zenon DEF Step
  <2>12. \A e : /\ GoodIn(q, j, e) /\ GoodIn(q, j + 2, e) /\ GoodIn(q, j + 3, e)
                /\ GoodIn(q, j + 4, e) /\ GoodIn(q, j + 5, e)
    BY <1>2, <2>1, <2>7, <2>8, <2>10, <2>11, Zenon DEF GoodIn
  <2>13. \A e : GoodIn(q, j + 1, e)
    <3>1. Hexes(j + 1) = Text(j + 2, j + 6) /\ j + 1 + 4 <= Len(input)
      BY <2>1, <2>2 DEF Hexes
    <3> QED
      BY <1>2, <2>1, <3>1, Zenon DEF GoodIn
  <2>14. \A l \in j .. k - 1 : l \in {j, j + 1, j + 2, j + 3, j + 4, j + 5}
    BY <1>5
  <2> QED
    BY <1>5, <2>11, <2>12, <2>13, <2>14
<1> QED
  BY <1>3, <1>4, <1>5 DEF Leap

\* read_quoted_body stops after the first quote that is not escaped, or says why not.
LEMMA QuotedShape ==
    ASSUME ItsText, NEW q \in 1 .. Len(input), Char(q) = Quote
    PROVE  /\ QuotedBody(q + 1).ok =>
                 /\ QuotedBody(q + 1).to \in q + 2 .. Len(input) + 1
                 /\ ReadsQuoted(q, QuotedBody(q + 1).to)
           /\ ~QuotedBody(q + 1).ok => QuotedBody(q + 1).why \in Refusals
<1> DEFINE n == Len(input) + 1
           i == q + 1
<1>1. n \in Nat /\ i \in 1 .. n /\ i \in 1 .. Len(input) + 1
  <2>1. Len(input) \in Nat
    BY Chars
  <2> QED
    BY <2>1
<1>2. PICK body : /\ body = [j \in i .. n |-> QuotedTurn(body, j)]
                  /\ QuotedBody(i) = body[i]
  <2>1. \E body : body = [j \in i .. n |-> QuotedTurn(body, j)]
    BY <1>1, BodyExists
  <2> DEFINE b == CHOOSE body : body = [j \in i .. n |-> QuotedTurn(body, j)]
  <2>2. b = [j \in i .. n |-> QuotedTurn(b, j)]
    BY <2>1, Zenon
  <2>3. QuotedBody(i) = b[i]
    BY Zenon DEF QuotedBody
  <2> HIDE DEF b
  <2> QED
    BY <2>2, <2>3
<1>3. \A j \in i .. n : body[j] = QuotedTurn(body, j)
  BY <1>2, Zenon
<1> DEFINE Holds(j) == /\ {"ok", "to", "text", "why"} \subseteq DOMAIN body[j]
                       /\ body[j].ok /\ ~Escaped(q, j) => ReadsOn(q, j, body[j].to)
                       /\ ~body[j].ok => body[j].why \in Refusals
<1>4. ASSUME NEW j \in i .. n, \A k \in j + 1 .. n : Holds(k)
      PROVE  Holds(j)
  <2>1. j \in 1 .. Len(input) + 1 /\ q \in Nat /\ j \in Nat /\ j > q
    BY <1>1
  <2>2. CASE Char(j) = Quote /\ body[j] = Ended(j)
    <3>1. body[j].to = j + 1 /\ body[j].ok = TRUE /\ {"ok", "to", "text", "why"} \subseteq DOMAIN body[j]
      <4> DEFINE b == body[j]
      <4>1. b = Ended(j)
        BY <2>2
      <4> HIDE DEF b
      <4>2. b.to = j + 1 /\ b.ok = TRUE /\ {"ok", "to", "text", "why"} \subseteq DOMAIN b
        BY <4>1 DEF Ended
      <4> QED
        BY <4>2 DEF b
    <3>2. j \in 1 .. Len(input)
      <4>1. Quote # ""
        BY DEF Quote
      <4> QED
        BY <2>2, <4>1, Chars
    <3>3. j + 1 \in j + 1 .. Len(input) + 1 /\ j + 1 - 1 = j /\ \A k \in j .. j : k = j
      BY <1>1, <3>2
    <3>4. ~Escaped(q, j) => GoodIn(q, j, j + 1)
      <4>1. Quote # Newline
        BY DEF Quote, Newline
      <4>2. Char(j) # Newline /\ ~(j # j + 1 - 1)
        BY <2>2, <3>3, <4>1
      <4> SUFFICES ASSUME ~Escaped(q, j) PROVE GoodIn(q, j, j + 1)
        OBVIOUS
      <4> QED
        BY <4>2, SMT DEF GoodIn
    <3> QED
      BY <2>2, <3>1, <3>3, <3>4 DEF ReadsOn
  <2>3. ASSUME NEW e \in Refusals, body[j] = Unread(e) PROVE Holds(j)
    <3> DEFINE b == body[j]
    <3>1. b = Unread(e)
      BY <2>3
    <3> HIDE DEF b
    <3>2. b.ok = FALSE /\ b.why = e /\ {"ok", "to", "text", "why"} \subseteq DOMAIN b
      BY <3>1 DEF Unread
    <3> QED
      BY <3>2 DEF b
  <2>4. ASSUME NEW c, NEW k, Leap(j, k), k \in j + 1 .. Len(input) + 1, body[j] = Prefixed(c, body[k])
        PROVE  Holds(j)
    <3>1. k \in j + 1 .. n /\ k \in Nat
      BY <1>1, <2>1, <2>4
    <3>2. {"ok", "to", "text", "why"} \subseteq DOMAIN body[k]
      BY <1>4, <3>1
    <3>3. /\ body[j].ok = body[k].ok /\ body[j].to = body[k].to
          /\ body[j].why = body[k].why /\ {"ok", "to", "text", "why"} \subseteq DOMAIN body[j]
      <4> DEFINE b == body[k]
                 a == body[j]
      <4>1. {"ok", "to", "text", "why"} \subseteq DOMAIN b /\ a = [b EXCEPT !.text = <<c>> \o @]
        BY <2>4, <3>2 DEF Prefixed
      <4> HIDE DEF a, b
      <4>2. a.ok = b.ok /\ a.to = b.to /\ a.why = b.why /\ {"ok", "to", "text", "why"} \subseteq DOMAIN a
        BY <4>1
      <4> QED
        BY <4>2 DEF a, b
    <3> DEFINE e == body[k].to
    <3>9. ~body[j].ok => body[j].why \in Refusals
      BY <1>4, <3>1, <3>3
    <3> SUFFICES ASSUME body[j].ok, ~Escaped(q, j) PROVE ReadsOn(q, j, e)
      BY <3>3, <3>9
    <3>4. /\ ~Escaped(q, k)
          /\ \A x \in Nat : x > k => \A l \in j .. k - 1 : GoodIn(q, l, x)
      BY <2>1, <2>4, <3>1, LeapReads
    <3>5. ReadsOn(q, k, e)
      BY <1>4, <3>1, <3>3, <3>4
    <3> HIDE DEF e
    <3>6. e \in k + 1 .. Len(input) + 1 /\ Char(e - 1) = Quote /\ \A l \in k .. e - 1 : GoodIn(q, l, e)
      BY <3>5 DEF ReadsOn
    <3>7. e \in Nat /\ e > k /\ e \in j + 1 .. Len(input) + 1 /\ \A l \in j .. e - 1 : l \in j .. k - 1 \/ l \in k .. e - 1
      BY <1>1, <2>1, <3>1, <3>6
    <3>8. \A l \in j .. e - 1 : GoodIn(q, l, e)
      BY <3>4, <3>6, <3>7, Zenon
    <3> QED
      BY <3>6, <3>7, <3>8 DEF ReadsOn
  <2>5. body[j] = QuotedTurn(body, j)
    BY <1>3
  <2> HIDE DEF Holds
  <2> QED
    BY <2>1, <2>2, <2>3, <2>4, <2>5, Turns, Zenon
<1>5. Holds(i)
  <2> DEFINE Bad == {d \in 0 .. n - i : ~Holds(n - d)}
  <2> HIDE DEF Holds
  <2>1. SUFFICES ASSUME Bad # {} PROVE FALSE
    <3>1. n - i \in 0 .. n - i /\ n - (n - i) = i
      BY <1>1
    <3> QED
      BY <2>1, <3>1
  <2>2. PICK d \in Bad : \A k \in Bad : d <= k
    <3>1. Bad \in SUBSET Nat
      BY <1>1
    <3> QED
      BY <2>1, <3>1, Least
  <2>3. d \in 0 .. n - i /\ ~Holds(n - d) /\ n - d \in i .. n
    BY <1>1, <2>2
  <2>4. ASSUME NEW k \in n - d + 1 .. n PROVE Holds(k)
    <3>1. n - k \in 0 .. n - i /\ n - (n - k) = k /\ ~(d <= n - k)
      BY <1>1, <2>3
    <3> QED
      BY <2>2, <3>1
  <2> QED
    BY <1>4, <2>3, <2>4
<1>6. /\ QuotedBody(i).ok => ReadsOn(q, i, QuotedBody(i).to)
      /\ ~QuotedBody(i).ok => QuotedBody(i).why \in Refusals
  BY <1>1, <1>2, <1>5, EscapedStep
<1> DEFINE e == QuotedBody(i).to
<1>7. ASSUME QuotedBody(i).ok PROVE e \in q + 2 .. Len(input) + 1 /\ ReadsQuoted(q, e)
  <2>1. e \in i + 1 .. Len(input) + 1 /\ Char(e - 1) = Quote /\ \A k \in i .. e - 1 : GoodIn(q, k, e)
    BY <1>6, <1>7 DEF ReadsOn
  <2> HIDE DEF e
  <2>2. e \in q + 2 .. Len(input) + 1 /\ e - q >= 2
    BY <1>1, <2>1
  <2>3. ReadsQuoted(q, e)
    BY <2>1, <2>2, Zenon DEF ReadsQuoted, GoodIn
  <2> QED
    BY <2>2, <2>3
<1> QED
  BY <1>6, <1>7

(* -------------------------------- shapes ------------------------------- *)
\* A step that leaves the text alone moves nothing in it.
LEMMA SameText ==
    ASSUME input' = input
    PROVE  /\ ItsText' <=> ItsText
           /\ Home' = Home
           /\ \A i : Char(i)' = Char(i) /\ LineAt(i)' = LineAt(i) /\ ColAt(i)' = ColAt(i)
           /\ \A i, w : Is(i, w)' <=> Is(i, w)
           /\ \A i, j : Newlines(i, j)' = Newlines(i, j)
           /\ \A i, k : Commented(i, k)' <=> Commented(i, k)
           /\ \A t : HasShape(t)' <=> HasShape(t)
<1>1. \A i : Char(i)' = Char(i)
  BY DEF Char
<1>2. \A i, w : Is(i, w)' <=> Is(i, w)
  BY <1>1 DEF Is
<1>3. \A i, j : Newlines(i, j)' = Newlines(i, j) /\ Text(i, j)' = Text(i, j)
  BY DEF Newlines, Text
<1>4. Home' = Home
  BY <1>1 DEF Home
<1>5. \A i : LineAt(i)' = LineAt(i) /\ ColAt(i)' = ColAt(i)
  BY <1>3, <1>4 DEF LineAt, ColAt
<1>6. \A i, k : Commented(i, k)' <=> Commented(i, k)
  BY <1>2, <1>3 DEF Commented
<1>7. \A i, j, S : Only(i, j, S)' <=> Only(i, j, S)
  BY <1>1 DEF Only
<1>8. /\ \A i : Triple(i)' <=> Triple(i)
      /\ \A i : Breaks(i)' <=> Breaks(i)
      /\ \A k : Hexes(k)' = Hexes(k)
  BY <1>2, <1>3 DEF Triple, Breaks, Hexes
<1>9. \A i, k : Escaped(i, k)' <=> Escaped(i, k)
  BY <1>1, <1>7 DEF Escaped
<1>10. /\ \A i, j : ReadsQuoted(i, j)' <=> ReadsQuoted(i, j)
       /\ \A i, j : ReadsTriple(i, j)' <=> ReadsTriple(i, j)
       /\ \A i, j : ReadsUnquoted(i, j)' <=> ReadsUnquoted(i, j)
       /\ \A i, j : Encloses(i, j)' <=> Encloses(i, j)
  <2>1. \A i, j : ReadsQuoted(i, j)' <=> ReadsQuoted(i, j)
    BY <1>1, <1>8, <1>9 DEF ReadsQuoted
  <2>2. \A i, j : ReadsTriple(i, j)' <=> ReadsTriple(i, j)
    BY <1>1, <1>7, <1>8 DEF ReadsTriple
  <2>3. \A i, j : ReadsUnquoted(i, j)' <=> ReadsUnquoted(i, j)
    BY <1>1, <1>8 DEF ReadsUnquoted
  <2>4. \A i, j : Encloses(i, j)' <=> Encloses(i, j)
    BY <1>1, <1>2 DEF Encloses
  <2> QED
    BY <2>1, <2>2, <2>3, <2>4
<1>11. \A t : HasShape(t)' <=> HasShape(t)
  BY <1>3, <1>8, <1>10 DEF HasShape
<1>12. ItsText' <=> ItsText
  BY Zenon DEF ItsText
<1> QED
  BY <1>1, <1>2, <1>3, <1>4, <1>5, <1>6, <1>11, <1>12

LEMMA UnquotedShape ==
    ASSUME ItsText, NEW i \in 1 .. Len(input), Starts(Char(i)), ~Is(i, <<"/", "/">>)
    PROVE  LET j == Past(i, {k \in 1 .. Len(input) : Continues(k)}) IN
           /\ j \in i + 1 .. Len(input) + 1 /\ ReadsUnquoted(i, j)
           /\ \A k \in i .. j - 1 : Char(k) # Newline
<1> DEFINE S == {k \in 1 .. Len(input) : Continues(k)}
           j == Past(i, S)
<1>1. Len(input) \in Nat
  BY Chars
<1>2. j \in i .. Len(input) + 1 /\ j \notin S /\ \A k \in i .. j - 1 : k \in S
  <2>1. Len(input) + 1 \notin S /\ i \in 1 .. Len(input) + 1
    BY <1>1
  <2> HIDE DEF S
  <2> QED
    BY <1>1, <2>1, PastStops
<1>3. \A k \in 1 .. Len(input) :
         Continues(k) <=> Char(k) \notin Whitespace \cup Forbidden /\ ~Breaks(k)
  <2> TAKE k \in 1 .. Len(input)
  <2>1. Char(k) = input[k]
    BY Chars
  <2>3. k <= Len(input)
    BY <1>1
  <2> QED
    BY <2>1, <2>3 DEF Continues, Breaks
<1>4. Char(i) \notin Whitespace \cup Forbidden /\ Char(i) # "+"
  BY DEF Starts
<1>5. i \in S
  <2>1. ~Is(i, <<"+", "=">>)
    BY <1>4, BeginsAt
  <2> QED
    BY <1>3, <1>4, <2>1 DEF Breaks
<1> HIDE DEF j
<1>6. j \in i + 1 .. Len(input) + 1
  BY <1>1, <1>2, <1>5
<1>7. ASSUME NEW k \in i .. j - 1
      PROVE  Char(k) \notin Whitespace \cup Forbidden /\ ~Breaks(k) /\ Char(k) # Newline
  <2>1. k \in 1 .. Len(input) /\ Continues(k)
    BY <1>2
  <2>2. Newline \in Whitespace
    BY DEF Whitespace
  <2> QED
    BY <1>3, <2>1, <2>2
<1>8. Char(j) \in Whitespace \cup Forbidden \cup {""} \/ Breaks(j)
  <2>1. CASE j \in 1 .. Len(input)
    BY <1>2, <1>3, <2>1
  <2>2. CASE j \notin 1 .. Len(input)
    <3>1. Char(j) = ""
      BY <2>2 DEF Char
    <3> QED
      BY <3>1
  <2> QED
    BY <2>1, <2>2
<1>9. ReadsUnquoted(i, j)
  <2>1. j > i
    BY <1>6
  <2> QED
    BY <1>4, <1>7, <1>8, <2>1 DEF ReadsUnquoted
<1> QED
  BY <1>6, <1>7, <1>9 DEF j

\* The first three quotes after the opening ones, and what follows of them.
LEMMA TripleShape ==
    ASSUME ItsText, pos \in 1 .. Len(input), Triple(pos), TripleStops # {}
    PROVE  TripleEnd \in pos + 6 .. Len(input) + 1 /\ ReadsTriple(pos, TripleEnd)
<1>1. Len(input) \in Nat
  BY Chars
<1> DEFINE First == CHOOSE i \in TripleStops : \A k \in TripleStops : i <= k
           S == {k \in 1 .. Len(input) : input[k] = Quote}
<1>2. First \in TripleStops /\ \A k \in TripleStops : First <= k
  <2>1. TripleStops \in SUBSET Nat
    BY <1>1 DEF TripleStops
  <2>2. \E i \in TripleStops : \A k \in TripleStops : i <= k
    BY <2>1, Least
  <2> QED
    BY <2>2, Zenon
<1>3. TripleEnd = Past(First, S)
  BY Zenon DEF TripleEnd
<1> HIDE DEF First
<1>4. First \in pos + 3 .. Len(input) /\ Is(First, <<Quote, Quote, Quote>>)
  BY <1>2 DEF TripleStops
<1>5. First \in 1 .. Len(input) + 1 /\ First \in Int
  BY <1>1, <1>4
<1> DEFINE j == TripleEnd
<1>6. j \in First .. Len(input) + 1 /\ j \notin S /\ \A k \in First .. j - 1 : k \in S
  <2>1. Len(input) + 1 \notin S
    BY <1>1
  <2> HIDE DEF S
  <2> QED
    BY <1>1, <1>3, <1>5, <2>1, PastStops
<1>7. \A k \in 1 .. Len(input) : Char(k) = input[k]
  BY Chars
<1>8. \A k : Char(k) = Quote <=> k \in S
  <2>1. ASSUME NEW k, k \notin 1 .. Len(input) PROVE Char(k) # Quote
    BY <2>1 DEF Char, Quote
  <2> QED
    BY <1>7, <2>1
<1>9. Char(First) = Quote /\ Char(First + 1) = Quote /\ Char(First + 2) = Quote
  BY <1>4, <1>5, BeginsAt
<1> HIDE DEF j
<1>10. j >= First + 3 /\ j \in Int
  <2>1. First \in S /\ First + 1 \in S /\ First + 2 \in S
    BY <1>8, <1>9
  <2>2. j # First /\ j # First + 1 /\ j # First + 2
    BY <1>6, <2>1
  <2> QED
    BY <1>5, <1>6, <2>2
<1>11. \A k \in First .. j - 1 : Char(k) = Quote
  BY <1>6, <1>8
<1>12. Char(j) # Quote
  BY <1>6, <1>8
<1>13. Triple(j - 3)
  <2>1. /\ j - 3 \in First .. j - 1 /\ j - 3 + 1 \in First .. j - 1 /\ j - 3 + 2 \in First .. j - 1
        /\ j - 3 \in Int
    BY <1>5, <1>10
  <2> QED
    BY <1>11, <2>1, BeginsAt DEF Triple
<1>14. ASSUME NEW k \in pos + 3 .. j - 3, Triple(k) PROVE Only(k, j, {Quote})
  <2>1. k \in pos + 3 .. Len(input)
    BY <1>1, <1>6
  <2>2. k \in TripleStops
    BY <1>14, <2>1 DEF TripleStops, Triple
  <2>3. First <= k
    BY <1>2, <2>2
  <2> QED
    BY <1>5, <1>11, <2>1, <2>3 DEF Only
<1>15. j \in pos + 6 .. Len(input) + 1 /\ j - pos >= 6
  BY <1>1, <1>4, <1>6, <1>10
<1> QED
  BY <1>12, <1>13, <1>14, <1>15 DEF ReadsTriple, j

LEMMA Shapes ==
    ASSUME NEW t
    PROVE  /\ t.kind = "quoted" /\ ReadsQuoted(t.from, t.to) /\ ~Triple(t.from) => HasShape(t)
           /\ t.kind = "triple" /\ ReadsTriple(t.from, t.to) /\ t.value = Text(t.from + 3, t.to - 3) => HasShape(t)
           /\ t.kind = "unquoted" /\ ReadsUnquoted(t.from, t.to) /\ t.value = Text(t.from, t.to) => HasShape(t)
           /\ t.kind = "subst" /\ Encloses(t.from, t.to) => HasShape(t)
           /\ t.kind = "newline" /\ Text(t.from, t.to) = <<Newline>> => HasShape(t)
           /\ t.kind = "+=" /\ Text(t.from, t.to) = <<"+", "=">> => HasShape(t)
           /\ t.kind = "eof" /\ t.from = Len(input) + 1 /\ t.to = t.from => HasShape(t)
           /\ t.kind \in DOMAIN Punctuation /\ Text(t.from, t.to) = <<t.kind>> => HasShape(t)
<1>1. t.kind \in DOMAIN Punctuation =>
        t.kind \notin {"quoted", "triple", "unquoted", "subst", "newline", "+=", "eof"}
  BY DEF Punctuation
<1>2. t.kind = "quoted" /\ ReadsQuoted(t.from, t.to) /\ ~Triple(t.from) => HasShape(t)
  BY DEF HasShape
<1>3. t.kind = "triple" /\ ReadsTriple(t.from, t.to) /\ t.value = Text(t.from + 3, t.to - 3) => HasShape(t)
  BY DEF HasShape
<1>4. t.kind = "unquoted" /\ ReadsUnquoted(t.from, t.to) /\ t.value = Text(t.from, t.to) => HasShape(t)
  BY DEF HasShape
<1>5. t.kind = "subst" /\ Encloses(t.from, t.to) => HasShape(t)
  BY DEF HasShape
<1>6. t.kind = "newline" /\ Text(t.from, t.to) = <<Newline>> => HasShape(t)
  BY DEF HasShape
<1>7. t.kind = "+=" /\ Text(t.from, t.to) = <<"+", "=">> => HasShape(t)
  BY DEF HasShape
<1>8. t.kind = "eof" /\ t.from = Len(input) + 1 /\ t.to = t.from => HasShape(t)
  BY DEF HasShape
<1>9. t.kind \in DOMAIN Punctuation /\ Text(t.from, t.to) = <<t.kind>> => HasShape(t)
  BY <1>1 DEF HasShape
<1> QED
  BY <1>2, <1>3, <1>4, <1>5, <1>6, <1>7, <1>8, <1>9

LEMMA Excerpts ==
    ASSUME ItsText, NEW i \in 1 .. Len(input)
    PROVE  /\ Text(i, i + 1) = <<Char(i)>>
           /\ Char(i + 1) # "" => Text(i, i + 2) = <<Char(i), Char(i + 1)>>
<1>1. Len(input) \in Nat
  BY Chars
<1>2. Text(i, i + 1) = <<Char(i)>>
  <2> DEFINE j == i + 1
  <2>1. i \in 1 .. Len(input) + 1 /\ j \in i .. Len(input) + 1 /\ j - i = 1
    BY <1>1
  <2> HIDE DEF j
  <2>2. Text(i, j) \in Seq(STRING) /\ Len(Text(i, j)) = 1
    BY <2>1, Excerpt
  <2>3. \A k \in 1 .. j - i : Text(i, j)[k] = Char(i + k - 1)
    BY <2>1, Excerpt
  <2>4. Text(i, j)[1] = Char(i)
    BY <2>1, <2>3
  <2> DEFINE s == Text(i, j)
  <2>5. s \in Seq(STRING) /\ Len(s) = 1 /\ s[1] = Char(i)
    BY <2>2, <2>4
  <2> HIDE DEF s
  <2>6. s = <<Char(i)>>
    BY <2>5
  <2> QED
    BY <2>6 DEF s, j
<1>3. ASSUME Char(i + 1) # "" PROVE Text(i, i + 2) = <<Char(i), Char(i + 1)>>
  <2> DEFINE j == i + 2
  <2>1. i \in 1 .. Len(input) + 1 /\ j \in i .. Len(input) + 1 /\ j - i = 2
    <3>1. i + 1 \in 1 .. Len(input)
      BY <1>3, Chars
    <3> QED
      BY <1>1, <3>1
  <2> HIDE DEF j
  <2>2. Text(i, j) \in Seq(STRING) /\ Len(Text(i, j)) = 2
    BY <2>1, Excerpt
  <2>3. \A k \in 1 .. j - i : Text(i, j)[k] = Char(i + k - 1)
    BY <2>1, Excerpt
  <2>4. Text(i, j)[1] = Char(i) /\ Text(i, j)[2] = Char(i + 1)
    <3>1. 1 \in 1 .. 2 /\ 2 \in 1 .. 2 /\ i + 1 - 1 = i /\ i + 2 - 1 = i + 1
      OBVIOUS
    <3> QED
      BY <2>1, <2>3, <3>1
  <2> DEFINE s == Text(i, j)
  <2>5. s \in Seq(STRING) /\ Len(s) = 2 /\ s[1] = Char(i) /\ s[2] = Char(i + 1)
    BY <2>2, <2>4
  <2> HIDE DEF s
  <2>6. s = <<Char(i), Char(i + 1)>>
    BY <2>5
  <2> QED
    BY <2>6 DEF s, j
<1> QED
  BY <1>2, <1>3

(* -------------------------------- the steps ---------------------------- *)
Lexed == \E S : tokens \in Seq(S)
\* Where the last token ends.
Since  == GapBefore(Len(tokens) + 1)
\* What is left out between the last token and j.
GapTo(j) ==
    /\ Since \in Home .. j
    /\ \A k \in Since .. j - 1 : Char(k) \in Whitespace \/ Commented(Since, k)
    /\ Newlines(Since, j) # {} => tokens # <<>> /\ tokens[Len(tokens)].kind = "newline"
    /\ Newlines(Since, j) = {} => (space <=> Since < j)

\* The cursor, and a substitution being read: on one line, no shorter than ${
\* and a character once a segment has begun.
CursorAt ==
    pos \in Home .. Len(input) + 1 /\ line = LineAt(pos) /\ col = ColAt(pos)
SubAt ==
    /\ sub.at \in Home .. pos - 2 /\ Is(sub.at, <<"$", "{">>)
    /\ \A k \in sub.at .. pos - 1 : Char(k) # Newline
    /\ sub.started => pos - sub.at >= 3
    /\ sub.col = ColAt(sub.at)

\* The inductive invariant.
LexInv ==
    /\ ItsText /\ CursorAt /\ Lexed /\ Located
    /\ {"open", "at", "col", "started"} \subseteq DOMAIN sub
    /\ lexing = "on" /\ ~sub.open => GapTo(pos)
    /\ lexing = "on" /\ sub.open  => GapTo(sub.at) /\ SubAt

LEMMA Places ==
    ASSUME LexInv
    PROVE  /\ Len(input) \in Nat /\ Len(tokens) \in Nat /\ DOMAIN tokens = 1 .. Len(tokens)
           /\ pos \in 1 .. Len(input) + 1 /\ Home \in 1 .. 2 /\ ItsText
<1>1. Len(tokens) \in Nat /\ DOMAIN tokens = 1 .. Len(tokens)
  BY DEF LexInv, Lexed
<1>2. Len(input) \in Nat /\ Home \in 1 .. 2 /\ ItsText
  BY Chars, HomeIs DEF LexInv
<1>3. pos \in 1 .. Len(input) + 1
  BY <1>2 DEF LexInv, CursorAt
<1> QED
  BY <1>1, <1>2, <1>3

\* The cursor moves along its line.
LEMMA Along ==
    ASSUME LexInv, NEW j \in pos .. Len(input) + 1, \A k \in pos .. j - 1 : Char(k) # Newline,
           input' = input, pos' = j, line' = line, col' = col + (j - pos)
    PROVE  CursorAt'
<1>1. /\ Len(input) \in Nat /\ pos \in Nat /\ Home \in 1 .. 2 /\ Home <= pos /\ pos \in 1 .. Len(input) + 1
      /\ j \in Nat /\ pos <= j /\ j <= Len(input) + 1 /\ ItsText
  BY Places DEF LexInv, CursorAt
<1>2. Newlines(pos, j) = {}
  BY <1>1, NoNewline
<1>3. LineAt(j) = LineAt(pos) /\ ColAt(j) = ColAt(pos) + (j - pos)
  BY <1>1, <1>2, Moves
<1>4. line' = LineAt(j) /\ col' = ColAt(j)
  BY <1>3 DEF LexInv, CursorAt
<1>5. j \in Home .. Len(input) + 1
  BY <1>1
<1> QED
  BY <1>4, <1>5, SameText DEF CursorAt

\* A token that is where it says and stands after a good gap is one more.
LEMMA PushLocates ==
    ASSUME LexInv, NEW t, HasShape(t), t.line = LineAt(t.from), t.col = ColAt(t.from),
           NEW i, i = t.from, GapTo(i), t.kind # "eof" => t.space = space,
           input' = input, tokens' = Append(tokens, t)
    PROVE  /\ Lexed' /\ Located' /\ Since' = t.to
           /\ tokens' # <<>> /\ tokens'[Len(tokens')] = t
<1> DEFINE n == Len(tokens)
<1>1. n \in Nat /\ DOMAIN tokens = 1 .. n
  BY Places
<1>2. PICK S : tokens \in Seq(S)
  BY DEF LexInv, Lexed
<1>3. tokens' \in Seq(S \cup {t})
  <2>1. tokens \in Seq(S \cup {t})
    BY <1>2
  <2> QED
    BY <2>1
<1>4. /\ Len(tokens') = n + 1 /\ DOMAIN tokens' = 1 .. n + 1
      /\ \A k \in 1 .. n : tokens'[k] = tokens[k]
      /\ tokens'[n + 1] = t /\ tokens' # <<>>
  BY <1>2
<1>5. Since' = t.to
  BY <1>1, <1>4 DEF Since, GapBefore
<1>6. \A k \in 1 .. n + 1 : GapBefore(k)' = GapBefore(k)
  <2> TAKE k \in 1 .. n + 1
  <2>1. CASE k = 1
    BY <2>1, SameText DEF GapBefore
  <2>2. CASE k # 1
    <3>1. k - 1 \in 1 .. n
      BY <1>1, <2>2
    <3> QED
      BY <1>4, <2>2, <3>1 DEF GapBefore
  <2> QED
    BY <2>1, <2>2
<1>7. ASSUME NEW k \in 1 .. n
      PROVE  /\ (tokens[k].line = LineAt(tokens[k].from))' /\ (tokens[k].col = ColAt(tokens[k].from))'
             /\ HasShape(tokens[k])' /\ GoodGap(k)'
  <2>1. /\ tokens[k].line = LineAt(tokens[k].from) /\ tokens[k].col = ColAt(tokens[k].from)
        /\ HasShape(tokens[k]) /\ GoodGap(k)
    BY <1>1 DEF LexInv, Located
  <2>2. tokens'[k] = tokens[k] /\ k > 1 => tokens'[k - 1] = tokens[k - 1]
    BY <1>1, <1>4
  <2>3. GoodGap(k)'
    <3>1. tokens'[k] = tokens[k] /\ GapBefore(k)' = GapBefore(k)
      BY <1>1, <1>4, <1>6
    <3>2. k > 1 => tokens'[k - 1] = tokens[k - 1]
      BY <1>1, <1>4
    <3> QED
      BY <2>1, <3>1, <3>2, SameText DEF GoodGap
  <2> QED
    BY <1>4, <2>1, <2>3, SameText
<1>8. ASSUME NEW k, k = n + 1
      PROVE  /\ (tokens[k].line = LineAt(tokens[k].from))' /\ (tokens[k].col = ColAt(tokens[k].from))'
             /\ HasShape(tokens[k])' /\ GoodGap(k)'
  <2>1. tokens'[k] = t
    BY <1>4, <1>8
  <2>2. k > 1 <=> tokens # <<>>
    BY <1>1, <1>2, <1>8
  <2>3. k > 1 => tokens'[k - 1] = tokens[Len(tokens)]
    <3>1. k > 1 => k - 1 = n /\ k - 1 \in 1 .. n
      BY <1>1, <1>8
    <3> QED
      BY <1>4, <3>1
  <2>4. GapBefore(k)' = Since
    BY <1>1, <1>6, <1>8 DEF Since
  <2>5. GoodGap(k)'
    <3>1. /\ Since <= i
          /\ \A l \in Since .. i - 1 : Char(l) \in Whitespace \/ Commented(Since, l)
          /\ Newlines(Since, i) # {} => k > 1 /\ tokens'[k - 1].kind = "newline"
      <4>1. /\ Since \in Home .. i
            /\ \A l \in Since .. i - 1 : Char(l) \in Whitespace \/ Commented(Since, l)
        BY Zenon DEF GapTo
      <4>2. Newlines(Since, i) # {} => tokens # <<>> /\ tokens[Len(tokens)].kind = "newline"
        BY Zenon DEF GapTo
      <4>3. Since <= i
        BY <4>1, HomeIs
      <4> QED
        BY <2>2, <2>3, <4>1, <4>2, <4>3, Zenon
    <3>2. Newlines(Since, i) = {} /\ t.kind # "eof" => (t.space <=> Since < i)
      BY DEF GapTo
    <3> QED
      BY <2>1, <2>4, <3>1, <3>2, SameText DEF GoodGap
  <2> QED
    BY <2>1, <2>5, SameText
<1>9. Located'
  <2>1. \A k \in DOMAIN tokens' : k \in 1 .. n \/ k = n + 1
    BY <1>1, <1>4
  <2> HIDE DEF n
  <2>2. ASSUME NEW k, (k \in DOMAIN tokens)'
        PROVE  (/\ tokens[k].line = LineAt(tokens[k].from) /\ tokens[k].col = ColAt(tokens[k].from)
                /\ HasShape(tokens[k]) /\ GoodGap(k))'
    BY <1>7, <1>8, <2>1, <2>2
  <2> QED
    BY <2>2 DEF Located
<1> QED
  BY <1>3, <1>4, <1>5, <1>9 DEF Lexed

\* With nothing left out since the token that ends at the cursor.
LEMMA NoGap ==
    ASSUME pos' \in Home .. Len(input) + 1, Since' = pos', input' = input, space' = FALSE
    PROVE  GapTo(pos)'
<1>1. Home \in 1 .. 2 /\ pos' \in Int
  BY HomeIs
<1>2. \A p \in Int : p .. p - 1 = {} /\ ~(p < p)
  OBVIOUS
<1>3. pos' .. pos' - 1 = {} /\ ~(pos' < pos')
  BY <1>1, <1>2
<1>4. Newlines(pos, pos)' = {}
  BY <1>3 DEF Newlines
<1>5. pos' \in Home .. pos'
  BY <1>1
<1> QED
  BY <1>3, <1>4, <1>5, SameText DEF GapTo

LEMMA WrongKeeps ==
    ASSUME LexInv, NEW e, Wrong(e), e # "on"
    PROVE  LexInv'
<1>1. UNCHANGED <<input, pos, line, col, tokens, sub>> /\ lexing' # "on"
  BY DEF Wrong
<1>2. CursorAt'
  BY <1>1, SameText DEF LexInv, CursorAt
<1>3. Lexed'
  BY <1>1 DEF LexInv, Lexed
<1>4. \A n : GoodGap(n)' <=> GoodGap(n)
  BY <1>1, SameText DEF GoodGap, GapBefore
<1>5. Located'
  BY <1>1, <1>4, SameText DEF LexInv, Located
<1> QED
  BY <1>1, <1>2, <1>3, <1>5, SameText DEF LexInv

\* What a step that adds no token keeps.
LEMMA Untold ==
    ASSUME LexInv, UNCHANGED <<input, tokens>>
    PROVE  ItsText' /\ Lexed' /\ Located' /\ Since' = Since
<1>1. \A n : GoodGap(n)' <=> GoodGap(n)
  BY SameText DEF GoodGap, GapBefore
<1>2. Located'
  BY <1>1, SameText DEF LexInv, Located
<1>3. Since' = Since
  BY SameText DEF Since, GapBefore
<1> QED
  BY <1>2, <1>3, SameText DEF LexInv, Lexed

\* Any token, from the cursor to j.
LEMMA PushKeeps ==
    ASSUME LexInv, Reading, NEW kind, NEW value, NEW payload, kind # "eof",
           NEW j \in pos .. Len(input) + 1, HasShape(Token(kind, value, payload, pos, j, col)),
           Push(Token(kind, value, payload, pos, j, col)),
           pos' = j, line' = LineAt(j), col' = ColAt(j), UNCHANGED <<input, sub, lexing>>
    PROVE  LexInv'
<1> DEFINE t == Token(kind, value, payload, pos, j, col)
<1>1. /\ t.kind = kind /\ t.line = line /\ t.col = col /\ t.from = pos /\ t.to = j /\ t.space = space
  BY DEF Token
<1>2. HasShape(t) /\ tokens' = Append(tokens, t) /\ space' = FALSE
  BY DEF Push
<1> HIDE DEF t
<1>3. GapTo(pos) /\ line = LineAt(pos) /\ col = ColAt(pos)
  BY DEF LexInv, CursorAt, Reading
<1>4. Lexed' /\ Located' /\ Since' = pos'
  <2>1. t.line = LineAt(t.from) /\ t.col = ColAt(t.from) /\ (t.kind # "eof" => t.space = space)
    BY <1>1, <1>3
  <2> QED
    BY <1>1, <1>2, <1>3, <2>1, PushLocates
<1>5. pos' \in Home .. Len(input) + 1
  <2>1. pos \in Home .. Len(input) + 1 /\ Home \in 1 .. 2
    BY HomeIs DEF LexInv, CursorAt
  <2> QED
    BY <2>1
<1>6. CursorAt' /\ GapTo(pos)'
  <2>1. GapTo(pos)'
    BY <1>2, <1>4, <1>5, NoGap
  <2>2. CursorAt'
    BY <1>5, SameText DEF CursorAt
  <2> QED
    BY <2>1, <2>2
<1>7. ~sub'.open /\ ItsText'
  BY SameText DEF LexInv, Reading
<1> QED
  BY <1>4, <1>6, <1>7 DEF LexInv

\* A token on one line.
LEMMA EmitKeeps ==
    ASSUME LexInv, Reading, NEW kind, NEW value, kind # "eof",
           NEW j \in pos .. Len(input) + 1, \A k \in pos .. j - 1 : Char(k) # Newline,
           HasShape(Token(kind, value, NoPayload, pos, j, col)), Emit(kind, value, j)
    PROVE  LexInv'
<1>1. /\ Push(Token(kind, value, NoPayload, pos, j, col))
      /\ pos' = j /\ line' = line /\ col' = col + (j - pos) /\ UNCHANGED <<input, sub, lexing>>
  BY DEF Emit
<1>2. CursorAt'
  BY <1>1, Along
<1>3. line' = LineAt(j) /\ col' = ColAt(j)
  BY <1>1, <1>2, SameText DEF CursorAt
<1> QED
  BY <1>1, <1>3, PushKeeps

\* What is read over is left out of the gap, and a line end only after its token.
LEMMA GapGrows ==
    ASSUME LexInv, GapTo(pos), NEW j \in pos + 1 .. Len(input) + 1,
           \A k \in pos .. j - 1 : Char(k) \in Whitespace \/ Commented(pos, k),
           (\E k \in pos .. j - 1 : Char(k) = Newline) =>
              tokens # <<>> /\ tokens[Len(tokens)].kind = "newline",
           (\A k \in pos .. j - 1 : Char(k) # Newline) => space' = TRUE,
           UNCHANGED <<input, tokens>>, pos' = j
    PROVE  GapTo(pos)'
<1> DEFINE i == Since
<1>1. /\ ItsText /\ Len(input) \in Nat /\ pos \in 1 .. Len(input) + 1 /\ Home \in 1 .. 2
  BY Places
<1>2. i \in Home .. pos /\ \A k \in i .. pos - 1 : Char(k) \in Whitespace \/ Commented(i, k)
  BY DEF GapTo
<1>3. Newlines(i, pos) # {} => tokens # <<>> /\ tokens[Len(tokens)].kind = "newline"
  BY DEF GapTo
<1> HIDE DEF i
<1>4. \A k \in pos .. j - 1 : Commented(pos, k) => Commented(i, k)
  <2>1. \A k \in pos .. j - 1 : \A c \in pos .. k : c \in i .. k
    BY <1>1, <1>2
  <2> QED
    BY <2>1 DEF Commented
<1>5. ASSUME NEW k \in i .. j - 1 PROVE Char(k) \in Whitespace \/ Commented(i, k)
  <2>1. k \in i .. pos - 1 \/ k \in pos .. j - 1
    BY <1>1, <1>2
  <2> QED
    BY <1>2, <1>4, <2>1
<1>6. /\ i \in 1 .. Len(input) + 1 /\ j \in Nat /\ i <= j /\ j <= Len(input) + 1 /\ i < j /\ i \in Home .. j
      /\ pos \in Nat /\ i <= pos /\ pos <= Len(input) + 1 /\ pos <= j
  BY <1>1, <1>2
<1>7. /\ Newlines(i, j) = {} <=> \A k \in i .. j - 1 : Char(k) # Newline
      /\ Newlines(i, pos) = {} <=> \A k \in i .. pos - 1 : Char(k) # Newline
  BY <1>1, <1>6, NoNewline
<1>8. ASSUME Newlines(i, j) # {} PROVE tokens # <<>> /\ tokens[Len(tokens)].kind = "newline"
  <2>1. PICK k \in i .. j - 1 : Char(k) = Newline
    BY <1>7, <1>8
  <2>2. k \in i .. pos - 1 \/ k \in pos .. j - 1
    BY <1>1, <1>6
  <2>3. CASE k \in i .. pos - 1
    BY <1>3, <1>7, <2>1, <2>3
  <2>4. CASE k \in pos .. j - 1
    BY <2>1, <2>4
  <2> QED
    BY <2>2, <2>3, <2>4
<1>9. ASSUME Newlines(i, j) = {} PROVE space' <=> i < j
  <2>1. \A k \in pos .. j - 1 : k \in i .. j - 1
    BY <1>1, <1>6
  <2>2. space' = TRUE
    BY <1>7, <1>9, <2>1
  <2> QED
    BY <1>6, <2>2
<1>10. Since' = i
  BY SameText DEF Since, GapBefore, i
<1> QED
  BY <1>5, <1>6, <1>8, <1>9, <1>10, SameText DEF GapTo

\* A turn of parse_subst_body goes on along the line.
LEMMA PathGoesOn ==
    ASSUME LexInv, InPath, NEW j \in pos + 1 .. Len(input) + 1, \A k \in pos .. j - 1 : Char(k) # Newline,
           UNCHANGED <<input, line, space, blanks, tokens, lexing>>, pos' = j, col' = col + (j - pos),
           {"open", "at", "col", "started"} \subseteq DOMAIN sub',
           sub'.open = sub.open, sub'.at = sub.at, sub'.col = sub.col
    PROVE  LexInv'
<1>1. Len(input) \in Nat /\ pos \in 1 .. Len(input) + 1 /\ Home \in 1 .. 2
  BY Places
<1>2. j \in pos .. Len(input) + 1
  BY <1>1
<1>3. CursorAt'
  BY <1>2, Along
<1>4. GapTo(sub.at) /\ SubAt /\ lexing = "on" /\ sub.open
  BY DEF LexInv, InPath
<1>5. ItsText' /\ Lexed' /\ Located' /\ Since' = Since
  BY Untold
<1>6. GapTo(sub.at)'
  BY <1>4, <1>5, SameText DEF GapTo
<1>7. SubAt'
  <2>1. /\ Is(sub.at, <<"$", "{">>) /\ sub.col = ColAt(sub.at)
        /\ \A k \in sub.at .. pos - 1 : Char(k) # Newline
    BY <1>4 DEF SubAt
  <2>2. sub.at \in Home .. pos - 2
    BY <1>4 DEF SubAt
  <2>3. sub.at \in Home .. j - 2 /\ j - sub.at >= 3
    BY <1>1, <2>2
  <2>4. ASSUME NEW k \in sub.at .. j - 1 PROVE Char(k) # Newline
    <3>1. k \in sub.at .. pos - 1 \/ k \in pos .. j - 1
      BY <1>1, <2>2
    <3> QED
      BY <2>1, <3>1
  <2> QED
    BY <2>1, <2>3, <2>4, SameText DEF SubAt
<1> QED
  BY <1>3, <1>4, <1>5, <1>6, <1>7 DEF LexInv

LEMMA AppendKeeps ==
    ASSUME LexInv, InPath, NEW text, NEW j \in pos + 1 .. Len(input) + 1,
           \A k \in pos .. j - 1 : Char(k) # Newline, SubAppend(text, j)
    PROVE  LexInv'
<1> DEFINE appended == sub.text \o (IF sub.started THEN sub.pending ELSE <<>>) \o text
<1>1. sub' = [sub EXCEPT !.text = appended, !.started = TRUE, !.pending = <<>>]
  BY Zenon DEF SubAppend
<1> HIDE DEF appended
<1>2. {"open", "at", "col", "started"} \subseteq DOMAIN sub
  BY DEF LexInv
<1>3. /\ {"open", "at", "col", "started"} \subseteq DOMAIN sub'
      /\ sub'.open = sub.open /\ sub'.at = sub.at /\ sub'.col = sub.col
  BY <1>1, <1>2
<1>4. UNCHANGED <<input, line, space, blanks, tokens, lexing>> /\ pos' = j /\ col' = col + (j - pos)
  BY DEF SubAppend
<1> QED
  BY <1>3, <1>4, PathGoesOn

\* The closing brace, the last character before j.
BraceBefore(j) == Char(j - 1) = "}"

LEMMA EndKeeps ==
    ASSUME LexInv, InPath, sub.started, NEW segments, NEW list, NEW j \in pos + 1 .. Len(input) + 1,
           \A k \in pos .. j - 1 : Char(k) # Newline, BraceBefore(j), EndSubst(segments, list, j)
    PROVE  LexInv'
<1> DEFINE payload == [segments |-> segments, optional |-> sub.optional, list |-> list]
           t == Token("subst", <<>>, payload, sub.at, j, sub.col)
<1>1. Push(t) /\ pos' = j /\ col' = col + (j - pos) /\ sub' = NoSub /\ UNCHANGED <<input, line, lexing>>
  BY DEF EndSubst
<1> HIDE DEF payload
<1>2. /\ t.kind = "subst" /\ t.line = line /\ t.col = sub.col /\ t.from = sub.at /\ t.to = j
      /\ t.space = space
  BY DEF Token
<1> HIDE DEF t
<1>3. tokens' = Append(tokens, t) /\ space' = FALSE
  BY <1>1 DEF Push
<1>4. Len(input) \in Nat /\ pos \in 1 .. Len(input) + 1 /\ Home \in 1 .. 2
  BY Places
<1>15. ItsText
  BY Places
<1>5. GapTo(sub.at) /\ SubAt /\ line = LineAt(pos)
  BY DEF LexInv, InPath, CursorAt
<1>6. sub.at \in Home .. pos - 2 /\ pos - sub.at >= 3
  BY <1>5 DEF SubAt
<1>16. /\ Is(sub.at, <<"$", "{">>) /\ sub.col = ColAt(sub.at)
       /\ \A k \in sub.at .. pos - 1 : Char(k) # Newline
  BY <1>5 DEF SubAt
<1>7. j \in pos .. Len(input) + 1
  BY <1>4
<1>8. CursorAt'
  BY <1>1, <1>7, Along
<1>9. HasShape(t)
  <2>1. ASSUME NEW k \in sub.at .. j - 1 PROVE Char(k) # Newline
    <3>1. k \in sub.at .. pos - 1 \/ k \in pos .. j - 1
      BY <1>4, <1>6
    <3> QED
      BY <1>16, <3>1
  <2>2. j - sub.at >= 4
    BY <1>4, <1>6
  <2>3. Encloses(sub.at, j)
    BY <1>16, <2>1, <2>2 DEF Encloses, BraceBefore
  <2> QED
    BY <1>2, <2>3, Shapes
<1>10. LineAt(sub.at) = line
  <2>1. /\ sub.at \in Nat /\ pos \in Nat /\ Home <= sub.at /\ sub.at <= pos /\ pos <= Len(input) + 1
        /\ sub.at \in 1 .. Len(input) + 1
    BY <1>4, <1>6
  <2>2. Newlines(sub.at, pos) = {}
    BY <1>15, <1>16, <2>1, NoNewline
  <2> QED
    BY <1>5, <2>1, <2>2, Moves
<1>11. Lexed' /\ Located' /\ Since' = pos'
  <2>1. t.line = LineAt(t.from) /\ t.col = ColAt(t.from) /\ (t.kind # "eof" => t.space = space)
    BY <1>2, <1>10, <1>16
  <2> QED
    BY <1>1, <1>2, <1>3, <1>5, <1>9, <2>1, PushLocates
<1>12. pos' \in Home .. Len(input) + 1
  <2>1. j \in Home .. Len(input) + 1
    BY <1>4, <1>6
  <2> QED
    BY <1>1, <2>1
<1>13. GapTo(pos)'
  BY <1>1, <1>3, <1>11, <1>12, NoGap
<1>14. /\ {"open", "at", "col", "started"} \subseteq DOMAIN sub' /\ ~sub'.open /\ ItsText'
  <2>1. ItsText'
    BY <1>1, <1>15, SameText
  <2>2. {"open", "at", "col", "started"} \subseteq DOMAIN sub' /\ sub'.open = FALSE
    BY <1>1 DEF NoSub
  <2> QED
    BY <2>1, <2>2
<1> QED
  BY <1>8, <1>11, <1>13, <1>14 DEF LexInv

LEMMA BlankKeeps ==
    ASSUME LexInv, LexBlank \/ LexComment
    PROVE  LexInv'
<1>1. /\ lexing = "on" /\ ~sub.open /\ pos <= Len(input) /\ GapTo(pos)
      /\ {"open", "at", "col", "started"} \subseteq DOMAIN sub
  BY DEF LexInv, LexBlank, LexComment, Reading
<1>2. Len(input) \in Nat /\ pos \in 1 .. Len(input) + 1 /\ Home \in 1 .. 2 /\ ItsText
  BY Places
<1>3. \A k \in 1 .. Len(input) : Char(k) = input[k]
  BY Chars, Places
<1>4. /\ UNCHANGED <<input, line, tokens, sub, lexing>> /\ space' = TRUE /\ col' = col + (pos' - pos)
      /\ pos' \in pos + 1 .. Len(input) + 1
      /\ \A k \in pos .. pos' - 1 : Char(k) # Newline /\ (Char(k) \in Whitespace \/ Commented(pos, k))
  <2>1. CASE LexBlank
    <3>1. /\ UNCHANGED <<input, line, tokens, sub, lexing>> /\ space' = TRUE /\ col' = col + 1
          /\ pos' = pos + 1 /\ Char(pos) \in Whitespace \ {Newline}
      BY <2>1 DEF LexBlank
    <3>2. pos' - pos = 1 /\ pos' \in pos + 1 .. Len(input) + 1 /\ \A k \in pos .. pos' - 1 : k = pos
      BY <1>1, <1>2, <3>1
    <3> QED
      BY <3>1, <3>2
  <2>2. CASE LexComment
    <3> DEFINE S == {i \in 1 .. Len(input) : input[i] # Newline}
               j == Past(pos, S)
    <3>1. /\ UNCHANGED <<input, line, tokens, sub, lexing>> /\ space' = TRUE /\ col' = col + (pos' - pos)
          /\ pos' = j /\ Commenting
      BY <2>2 DEF LexComment
    <3>2. Len(input) + 1 \notin S
      BY <1>2
    <3>3. \A k : k \in S => k \in 1 .. Len(input) /\ Char(k) # Newline
      BY <1>3
    <3>4. \A k \in 1 .. Len(input) : Char(k) # Newline => k \in S
      BY <1>3
    <3> HIDE DEF S
    <3>5. j \in pos .. Len(input) + 1 /\ j \notin S /\ \A k \in pos .. j - 1 : k \in S
      BY <1>2, <3>2, PastStops
    <3> HIDE DEF j
    <3>6. pos \in S
      <4>1. Char(pos) # Newline
        <5>1. Char(pos) \in {"/", "#"}
          BY <1>2, <3>1, BeginsAt DEF Commenting
        <5> QED
          BY <5>1 DEF Newline
      <4> QED
        BY <1>1, <1>2, <3>4, <4>1
    <3>7. j \in pos + 1 .. Len(input) + 1
      BY <1>2, <3>5, <3>6
    <3>8. ASSUME NEW k \in pos .. j - 1 PROVE Char(k) # Newline /\ Commented(pos, k)
      <4>1. Char(k) # Newline
        BY <3>3, <3>5
      <4>2. \A l \in pos .. k + 1 - 1 : Char(l) # Newline
        <5>1. \A l \in pos .. k + 1 - 1 : l \in pos .. j - 1
          BY <1>2, <3>7
        <5> QED
          BY <3>3, <3>5, <5>1
      <4>3. k + 1 \in Nat /\ pos <= k + 1 /\ k + 1 <= Len(input) + 1 /\ pos \in pos .. k
        BY <1>2, <3>7
      <4>4. Newlines(pos, k + 1) = {}
        BY <1>2, <4>2, <4>3, NoNewline
      <4> QED
        BY <3>1, <4>1, <4>3, <4>4 DEF Commented, Commenting
    <3> QED
      BY <3>1, <3>7, <3>8
  <2> QED
    BY <2>1, <2>2
<1> DEFINE j == pos'
<1>5. j \in pos .. Len(input) + 1
  BY <1>2, <1>4
<1>6. CursorAt'
  BY <1>4, <1>5, Along
<1>7. GapTo(pos)'
  BY <1>1, <1>4, GapGrows
<1>8. ItsText' /\ Lexed' /\ Located'
  BY <1>4, Untold
<1> QED
  BY <1>1, <1>4, <1>6, <1>7, <1>8 DEF LexInv

LEMMA NewlineKeeps ==
    ASSUME LexInv, LexNewline
    PROVE  LexInv'
<1>1. /\ Reading /\ Char(pos) = Newline
      /\ pos' = pos + 1 /\ line' = line + 1 /\ col' = 1 /\ UNCHANGED <<input, sub, lexing>>
  BY DEF LexNewline
<1>2. /\ Len(input) \in Nat /\ pos \in 1 .. Len(input) /\ Home \in 1 .. 2
  BY <1>1, Places DEF Reading
<1>3. GapTo(pos) /\ CursorAt /\ ItsText
  BY <1>1 DEF LexInv, Reading
<1>4. /\ pos + 1 \in pos + 1 .. Len(input) + 1 /\ pos + 1 \in Nat /\ pos \in Nat /\ Home <= pos
      /\ \A k \in pos .. pos + 1 - 1 : k = pos
      /\ pos + 1 \in Home .. Len(input) + 1
  BY <1>2, <1>3 DEF CursorAt
<1>5. LineAt(pos + 1) = line + 1 /\ ColAt(pos + 1) = 1
  <2> DEFINE j == pos + 1
  <2>1. j \in Nat /\ Home <= pos /\ pos <= j /\ pos \in Nat
    BY <1>4
  <2>2. Newlines(pos, j) = {pos}
    <3>1. input[pos] = Newline
      BY <1>1, <1>2, <1>3, Chars
    <3>2. pos .. j - 1 = {pos}
      BY <1>2
    <3> QED
      BY <3>1, <3>2 DEF Newlines
  <2> HIDE DEF j
  <2>3. LineAt(j) = LineAt(pos) + 1
    BY <2>1, <2>2, Moves, FS_Singleton
  <2>4. ColAt(j) = j - LastOf({pos})
    BY <2>1, <2>2, Moves
  <2>5. LastOf({pos}) = pos
    <3>1. {pos} \in SUBSET (0 .. pos) /\ {pos} # {}
      BY <2>1
    <3> QED
      BY <2>1, <3>1, LastIsGreatest
  <2> QED
    BY <1>3, <2>1, <2>3, <2>4, <2>5 DEF j, CursorAt
<1>6. CASE tokens # <<>> /\ tokens[Len(tokens)].kind = "newline"
  <2>1. UNCHANGED <<tokens, space>>
    BY <1>6 DEF LexNewline
  <2>2. CursorAt'
    BY <1>1, <1>4, <1>5, SameText DEF CursorAt
  <2>3. GapTo(pos)'
    <3> DEFINE j == pos + 1
    <3>1. pos .. j - 1 = {pos} /\ j \in pos + 1 .. Len(input) + 1
      BY <1>2
    <3>2. pos' = j
      BY <1>1
    <3> HIDE DEF j
    <3>3. Newline \in Whitespace
      BY DEF Whitespace
    <3>4. \A k \in pos .. j - 1 : Char(k) = Newline /\ Char(k) \in Whitespace
      BY <1>1, <3>1, <3>3
    <3>5. ~(\A k \in pos .. j - 1 : Char(k) # Newline)
      BY <1>1, <3>1
    <3> QED
      BY <1>1, <1>3, <1>6, <2>1, <3>1, <3>2, <3>4, <3>5, GapGrows
  <2>4. ItsText' /\ Lexed' /\ Located'
    BY <1>1, <2>1, Untold
  <2> QED
    BY <1>1, <2>2, <2>3, <2>4 DEF LexInv, Reading
<1>7. CASE ~(tokens # <<>> /\ tokens[Len(tokens)].kind = "newline")
  <2> DEFINE t == Token("newline", <<Newline>>, NoPayload, pos, pos + 1, col)
  <2>1. Push(t)
    BY <1>7, Zenon DEF LexNewline
  <2>2. t.kind = "newline" /\ t.from = pos /\ t.to = pos + 1
    BY DEF Token
  <2>3. HasShape(t)
    <3> HIDE DEF t
    <3>1. Text(pos, pos + 1) = <<Newline>>
      BY <1>1, <1>2, <1>3, Excerpts
    <3> QED
      BY <2>2, <3>1, Shapes
  <2>4. pos + 1 \in pos .. Len(input) + 1
    BY <1>2
  <2> QED
    BY <1>1, <1>5, <2>1, <2>3, <2>4, PushKeeps
<1> QED
  BY <1>6, <1>7

LEMMA WordKeeps ==
    ASSUME LexInv, LexPunctuation \/ LexUnquoted
    PROVE  LexInv'
<1>1. Reading
  BY DEF LexPunctuation, LexUnquoted
<1>2. Len(input) \in Nat /\ pos \in 1 .. Len(input)
  BY <1>1, Places DEF Reading
<1>3. ItsText
  BY Places
<1>4. ASSUME Char(pos) \in DOMAIN Punctuation, Emit(Punctuation[Char(pos)], <<Char(pos)>>, pos + 1)
      PROVE  LexInv'
  <2> DEFINE c == Char(pos)
             j == pos + 1
             t == Token(c, <<c>>, NoPayload, pos, j, col)
  <2>1. Punctuation[c] = c /\ c # Newline /\ c # "eof"
    BY <1>4 DEF Punctuation, Newline
  <2>2. t.kind = c /\ t.from = pos /\ t.to = j
    BY DEF Token
  <2>3. Text(pos, j) = <<c>>
    BY <1>2, <1>3, Excerpts
  <2> HIDE DEF t
  <2>4. HasShape(t)
    BY <1>4, <2>2, <2>3, Shapes
  <2>5. j \in pos .. Len(input) + 1 /\ pos .. j - 1 = {pos}
    BY <1>2
  <2>6. Emit(c, <<c>>, j)
    BY <1>4, <2>1
  <2> HIDE DEF j, c
  <2>7. \A k \in pos .. j - 1 : Char(k) # Newline
    BY <2>1, <2>5 DEF c
  <2> QED
    BY <1>1, <2>1, <2>4, <2>5, <2>6, <2>7, EmitKeeps DEF t
<1>5. ASSUME Is(pos, <<"+", "=">>), Emit("+=", <<"+", "=">>, pos + 2)
      PROVE  LexInv'
  <2> DEFINE j == pos + 2
             value == <<"+", "=">>
             t == Token("+=", value, NoPayload, pos, j, col)
  <2>1. Char(pos) = "+" /\ Char(pos + 1) = "="
    BY <1>2, <1>5, BeginsAt
  <2>2. t.kind = "+=" /\ t.from = pos /\ t.to = j
    BY DEF Token
  <2>3. Text(pos, j) = value
    BY <1>2, <1>3, <2>1, Excerpts
  <2> HIDE DEF t
  <2>4. HasShape(t)
    BY <2>2, <2>3, Shapes
  <2>5. pos + 1 \in 1 .. Len(input)
    BY <1>3, <2>1, Chars
  <2>6. j \in pos .. Len(input) + 1 /\ \A k \in pos .. j - 1 : k = pos \/ k = pos + 1
    BY <1>2, <2>5
  <2>7. Emit("+=", value, j)
    BY <1>5
  <2> HIDE DEF j, value
  <2>8. \A k \in pos .. j - 1 : Char(k) # Newline
    BY <2>1, <2>6 DEF Newline
  <2> QED
    BY <1>1, <2>4, <2>6, <2>7, <2>8, EmitKeeps DEF t
<1>6. CASE LexUnquoted
  <2> DEFINE j == Past(pos, {k \in 1 .. Len(input) : Continues(k)})
             t == Token("unquoted", Text(pos, j), NoPayload, pos, j, col)
  <2>1. Starts(Char(pos)) /\ ~Is(pos, <<"/", "/">>) /\ Emit("unquoted", Text(pos, j), j)
    BY <1>6, Zenon DEF LexUnquoted, Commenting
  <2>2. j \in pos + 1 .. Len(input) + 1 /\ ReadsUnquoted(pos, j) /\ \A k \in pos .. j - 1 : Char(k) # Newline
    BY <1>2, <1>3, <2>1, UnquotedShape
  <2> HIDE DEF j
  <2>3. t.kind = "unquoted" /\ t.from = pos /\ t.to = j /\ t.value = Text(pos, j)
    BY DEF Token
  <2> HIDE DEF t
  <2>4. HasShape(t)
    BY <2>2, <2>3, Shapes
  <2>5. j \in pos .. Len(input) + 1
    BY <1>2, <2>2
  <2> QED
    BY <1>1, <2>1, <2>2, <2>4, <2>5, EmitKeeps DEF t
<1> QED
  BY <1>4, <1>5, <1>6, Zenon DEF LexPunctuation

LEMMA StringKeeps ==
    ASSUME LexInv, LexQuoted \/ LexTriple
    PROVE  LexInv'
<1>1. Reading
  BY DEF LexQuoted, LexTriple
<1>2. Len(input) \in Nat /\ pos \in 1 .. Len(input) /\ pos + 1 \in 1 .. Len(input) + 1
  BY <1>1, Places DEF Reading
<1>3. ItsText
  BY Places
<1>4. CASE LexQuoted
  <2> DEFINE body == QuotedBody(pos + 1)
             j == body.to
             t == Token("quoted", body.text, NoPayload, pos, j, col)
  <2>1. /\ Char(pos) = Quote /\ ~Triple(pos)
        /\ IF body.ok THEN Emit("quoted", body.text, j) ELSE Wrong(body.why)
    BY <1>4, Zenon DEF LexQuoted, Triple
  <2>2. CASE ~body.ok
    <3>1. body.why \in Refusals
      BY <1>2, <1>3, <2>1, <2>2, QuotedShape
    <3>2. Wrong(body.why) /\ body.why # "on"
      BY <2>1, <2>2, <3>1 DEF Refusals
    <3> QED
      BY <3>2, WrongKeeps
  <2>3. CASE body.ok
    <3>1. Emit("quoted", body.text, j)
      BY <2>1, <2>3
    <3>2. j \in pos + 2 .. Len(input) + 1 /\ ReadsQuoted(pos, j)
      BY <1>2, <1>3, <2>1, <2>3, QuotedShape
    <3> DEFINE text == body.text
    <3> HIDE DEF body
    <3>3. t.kind = "quoted" /\ t.from = pos /\ t.to = j
      BY DEF Token
    <3> HIDE DEF j, text, t
    <3>4. HasShape(t)
      BY <2>1, <3>2, <3>3, Shapes
    <3>5. \A k \in pos .. j - 1 : Char(k) # Newline
      <4>1. \A k \in pos + 1 .. j - 1 : Char(k) # Newline
        BY <3>2, Zenon DEF ReadsQuoted
      <4>2. Char(pos) # Newline
        BY <2>1 DEF Quote, Newline
      <4>3. \A k \in pos .. j - 1 : k = pos \/ k \in pos + 1 .. j - 1
        BY <1>2, <3>2
      <4> QED
        BY <4>1, <4>2, <4>3
    <3>6. j \in pos .. Len(input) + 1
      BY <1>2, <3>2
    <3> QED
      BY <1>1, <3>1, <3>4, <3>5, <3>6, EmitKeeps DEF t
  <2> QED
    BY <2>2, <2>3
<1>5. CASE LexTriple
  <2>1. CASE TripleStops = {}
    BY <1>5, <2>1, WrongKeeps, Zenon DEF LexTriple
  <2>2. CASE TripleStops # {}
    <3> DEFINE j == TripleEnd
               t == Token("triple", Text(pos + 3, j - 3), NoPayload, pos, j, col)
    <3>1. /\ Triple(pos) /\ Push(t) /\ pos' = j /\ line' = LineAfter(pos, j) /\ col' = ColAfter(pos, j)
          /\ UNCHANGED <<input, sub, lexing>>
      BY <1>5, <2>2, Zenon DEF LexTriple, Triple
    <3>2. j \in pos + 6 .. Len(input) + 1 /\ ReadsTriple(pos, j)
      BY <1>2, <1>3, <2>2, <3>1, TripleShape
    <3> HIDE DEF j
    <3>3. t.kind = "triple" /\ t.from = pos /\ t.to = j /\ t.value = Text(pos + 3, j - 3)
      BY DEF Token
    <3>4. HasShape(t)
      <4> HIDE DEF t
      <4> QED
        BY <3>2, <3>3, Shapes
    <3>5. pos \in Nat /\ j \in Nat /\ Home <= pos /\ pos <= j /\ j \in pos .. Len(input) + 1
      BY <1>2, <3>2, HomeIs DEF LexInv, CursorAt
    <3>6. line' = LineAt(j) /\ col' = ColAt(j)
      <4>1. line = LineAt(pos) /\ col = ColAt(pos)
        BY DEF LexInv, CursorAt
      <4>2. LineAt(j) = LineAt(pos) + Cardinality(Newlines(pos, j))
        BY <3>5, Moves
      <4>3. Newlines(pos, j) = {} => ColAt(j) = ColAt(pos) + (j - pos)
        BY <3>5, Moves
      <4>4. Newlines(pos, j) # {} => ColAt(j) = j - LastOf(Newlines(pos, j))
        BY <3>5, Moves
      <4> QED
        BY <3>1, <4>1, <4>2, <4>3, <4>4 DEF LineAfter, ColAfter
    <3> QED
      BY <1>1, <3>1, <3>4, <3>5, <3>6, PushKeeps
  <2> QED
    BY <2>1, <2>2
<1> QED
  BY <1>4, <1>5

LEMMA SubstKeeps ==
    ASSUME LexInv, LexSubst
    PROVE  LexInv'
<1>1. Reading /\ Char(pos) = "$" /\ Char(pos + 1) = "{" /\ Is(pos, <<"$", "{">>)
  <2>1. Reading /\ Is(pos, <<"$", "{">>)
    BY DEF LexSubst
  <2>2. pos \in Int
    BY Places
  <2> QED
    BY <2>1, <2>2, BeginsAt
<1>2. Len(input) \in Nat /\ pos \in 1 .. Len(input) /\ Home \in 1 .. 2
  <2>1. pos <= Len(input)
    BY <1>1 DEF Reading
  <2>2. Len(input) \in Nat /\ pos \in 1 .. Len(input) + 1 /\ Home \in 1 .. 2
    BY Places
  <2> QED
    BY <2>1, <2>2
<1>3. ItsText
  BY Places
<1>4. PICK n \in {2, 3} :
         /\ n = 3 => Char(pos + 2) = "?"
         /\ sub' = [NoSub EXCEPT !.open = TRUE, !.optional = (n = 3), !.at = pos, !.col = col]
         /\ pos' = pos + n /\ col' = col + n
  <2> DEFINE n == IF Char(pos + 2) = "?" THEN 3 ELSE 2
  <2>1. /\ sub' = [NoSub EXCEPT !.open = TRUE, !.optional = (n = 3), !.at = pos, !.col = col]
        /\ pos' = pos + n /\ col' = col + n
    BY Zenon DEF LexSubst
  <2>2. n \in {2, 3} /\ (n = 3 => Char(pos + 2) = "?")
    OBVIOUS
  <2> HIDE DEF n
  <2> QED
    BY <2>1, <2>2
<1>5. UNCHANGED <<input, line, space, blanks, tokens, lexing>>
  BY DEF LexSubst
<1>6. /\ {"open", "at", "col", "started"} \subseteq DOMAIN sub'
      /\ sub'.open = TRUE /\ sub'.at = pos /\ sub'.col = col /\ sub'.started = FALSE
  BY <1>4 DEF NoSub
<1> DEFINE j == pos + n
<1>7. pos + 1 \in 1 .. Len(input) /\ (n = 3 => pos + 2 \in 1 .. Len(input))
  BY <1>1, <1>3, <1>4, Chars
<1>8. /\ j \in pos .. Len(input) + 1 /\ j - pos = n
      /\ \A k \in pos .. j - 1 : k = pos \/ k = pos + 1 \/ (n = 3 /\ k = pos + 2)
  BY <1>2, <1>7
<1>9. pos' = j /\ col' = col + (j - pos)
  BY <1>4, <1>8
<1> HIDE DEF j
<1>10. \A k \in pos .. j - 1 : Char(k) # Newline
  BY <1>1, <1>4, <1>8 DEF Newline
<1>11. CursorAt'
  BY <1>5, <1>8, <1>9, <1>10, Along
<1>12. ItsText' /\ Lexed' /\ Located' /\ Since' = Since
  BY <1>5, Untold
<1>13. GapTo(pos) /\ col = ColAt(pos) /\ pos \in Home .. Len(input) + 1
  BY <1>1 DEF LexInv, Reading, CursorAt
<1>14. GapTo(sub.at)'
  BY <1>5, <1>6, <1>12, <1>13, SameText DEF GapTo
<1>15. SubAt'
  <2>1. pos \in Home .. j - 2
    BY <1>2, <1>4, <1>8, <1>13
  <2> QED
    BY <1>1, <1>5, <1>6, <1>9, <1>10, <1>13, <2>1, SameText DEF SubAt
<1> QED
  BY <1>6, <1>11, <1>12, <1>14, <1>15 DEF LexInv

LEMMA EndsKeep ==
    ASSUME LexInv, LexEnd \/ LexUnexpected
    PROVE  LexInv'
<1>1. CASE LexUnexpected
  BY <1>1, WrongKeeps DEF LexUnexpected
<1>2. CASE LexEnd
  <2> DEFINE t == [Token("eof", <<>>, NoPayload, pos, pos, col) EXCEPT !.space = FALSE, !.blanks = <<>>]
  <2>1. /\ lexing = "on" /\ ~sub.open /\ pos > Len(input) /\ tokens' = Append(tokens, t) /\ lexing' = "done"
        /\ UNCHANGED <<input, pos, line, col, space, blanks, sub>>
    BY <1>2, Zenon DEF LexEnd
  <2>2. t.kind = "eof" /\ t.line = line /\ t.col = col /\ t.from = pos /\ t.to = pos
    BY DEF Token
  <2> HIDE DEF t
  <2>3. GapTo(pos) /\ line = LineAt(pos) /\ col = ColAt(pos)
    BY <2>1 DEF LexInv, CursorAt
  <2>4. pos = Len(input) + 1
    BY <2>1, Places
  <2>5. HasShape(t)
    BY <2>2, <2>4, Shapes
  <2>6. Lexed' /\ Located'
    BY <2>1, <2>2, <2>3, <2>5, PushLocates
  <2>7. CursorAt' /\ ItsText'
    BY <2>1, SameText DEF LexInv, CursorAt
  <2> QED
    BY <2>1, <2>6, <2>7 DEF LexInv
<1> QED
  BY <1>1, <1>2

LEMMA PathKeeps ==
    ASSUME LexInv, SubStep
    PROVE  LexInv'
<1>1. InPath
  BY DEF SubStep, SubQuoted, SubWord, SubDot, SubBlank, SubEnd, SubList, SubUnexpected
<1>2. Len(input) \in Nat /\ pos \in 1 .. Len(input) + 1
  BY Places
<1>3. ItsText
  BY Places
<1>4. {"open", "at", "col", "started"} \subseteq DOMAIN sub
  BY DEF LexInv
<1>5. ASSUME Char(pos) # "" PROVE pos \in 1 .. Len(input)
  BY <1>3, <1>5, Chars
\* One character is read.
<1>6. ASSUME Char(pos) # "", Char(pos) # Newline, pos' = pos + 1, col' = col + 1,
             UNCHANGED <<input, line, space, blanks, tokens, lexing>>,
             {"open", "at", "col", "started"} \subseteq DOMAIN sub',
             sub'.open = sub.open, sub'.at = sub.at, sub'.col = sub.col
      PROVE  LexInv'
  <2> DEFINE j == pos + 1
  <2>1. j \in pos + 1 .. Len(input) + 1 /\ j - pos = 1 /\ pos .. j - 1 = {pos}
    <3>1. pos \in 1 .. Len(input)
      BY <1>5, <1>6
    <3> QED
      BY <1>2, <3>1
  <2>2. pos' = j /\ col' = col + (j - pos)
    BY <1>6, <2>1
  <2> HIDE DEF j
  <2>3. \A k \in pos .. j - 1 : Char(k) # Newline
    BY <1>6, <2>1
  <2> QED
    BY <1>1, <1>6, <2>1, <2>2, <2>3, PathGoesOn
<1>7. CASE SubQuoted
  <2> DEFINE body == QuotedBody(pos + 1)
             j == body.to
             text == body.text
  <2>1. Char(pos) = Quote /\ IF body.ok THEN SubAppend(text, j) ELSE Wrong(body.why)
    BY <1>7, Zenon DEF SubQuoted
  <2>2. pos \in 1 .. Len(input)
    BY <1>5, <2>1 DEF Quote
  <2>3. CASE ~body.ok
    <3>1. body.why \in Refusals
      BY <1>3, <2>1, <2>2, <2>3, QuotedShape
    <3>2. Wrong(body.why) /\ body.why # "on"
      BY <2>1, <2>3, <3>1 DEF Refusals
    <3> QED
      BY <3>2, WrongKeeps
  <2>4. CASE body.ok
    <3>1. SubAppend(text, j)
      BY <2>1, <2>4
    <3>2. j \in pos + 2 .. Len(input) + 1 /\ ReadsQuoted(pos, j)
      BY <1>3, <2>1, <2>2, <2>4, QuotedShape
    <3> HIDE DEF body, j, text
    <3>3. \A k \in pos .. j - 1 : Char(k) # Newline
      <4>1. \A k \in pos + 1 .. j - 1 : Char(k) # Newline
        BY <3>2, Zenon DEF ReadsQuoted
      <4>2. Char(pos) # Newline
        BY <2>1 DEF Quote, Newline
      <4>3. \A k \in pos .. j - 1 : k = pos \/ k \in pos + 1 .. j - 1
        BY <1>2, <3>2
      <4> QED
        BY <4>1, <4>2, <4>3
    <3>4. j \in pos + 1 .. Len(input) + 1
      BY <1>2, <3>2
    <3> QED
      BY <1>1, <3>1, <3>3, <3>4, AppendKeeps
  <2> QED
    BY <2>3, <2>4
<1>8. CASE SubWord
  <2> DEFINE S == {i \in 1 .. Len(input) : InSubst(input[i])}
             j == Past(pos, S)
             text == Text(pos, j)
  <2>1. /\ Char(pos) # "" /\ InSubst(Char(pos))
        /\ Wrong("segment begins with '-'") \/ SubAppend(text, j)
    BY <1>8, Zenon DEF SubWord
  <2>2. CASE Wrong("segment begins with '-'")
    BY <2>2, WrongKeeps
  <2>3. CASE SubAppend(text, j)
    <3>1. \A k \in 1 .. Len(input) : Char(k) = input[k]
      BY <1>3, Chars
    <3>2. \A c : InSubst(c) => c # Newline
      BY DEF InSubst, Whitespace
    <3>3. pos \in S
      BY <1>5, <2>1, <3>1
    <3>4. Len(input) + 1 \notin S
      BY <1>2
    <3>5. \A k \in S : Char(k) # Newline
      BY <3>1, <3>2
    <3> HIDE DEF S
    <3>6. j \in pos .. Len(input) + 1 /\ j \notin S /\ \A k \in pos .. j - 1 : k \in S
      BY <1>2, <3>4, PastStops
    <3> HIDE DEF j
    <3>7. j \in pos + 1 .. Len(input) + 1
      BY <1>2, <3>3, <3>6
    <3>8. \A k \in pos .. j - 1 : Char(k) # Newline
      BY <3>5, <3>6
    <3> HIDE DEF text
    <3> QED
      BY <1>1, <2>3, <3>7, <3>8, AppendKeeps
  <2> QED
    BY <2>1, <2>2, <2>3
<1>9. CASE SubDot
  <2>1. CASE ~sub.started
    BY <1>9, <2>1, WrongKeeps DEF SubDot
  <2>2. CASE sub.started
    <3> DEFINE segments == Append(sub.segments, sub.text)
    <3>1. /\ Char(pos) = "." /\ pos' = pos + 1 /\ col' = col + 1
          /\ UNCHANGED <<input, line, space, blanks, tokens, lexing>>
          /\ sub' = [sub EXCEPT !.segments = segments, !.text = <<>>, !.started = FALSE, !.pending = <<>>]
      BY <1>9, <2>2, Zenon DEF SubDot
    <3> HIDE DEF segments
    <3>2. /\ {"open", "at", "col", "started"} \subseteq DOMAIN sub'
          /\ sub'.open = sub.open /\ sub'.at = sub.at /\ sub'.col = sub.col
      BY <1>4, <3>1
    <3> QED
      BY <1>6, <3>1, <3>2 DEF Newline
  <2> QED
    BY <2>1, <2>2
<1>10. CASE SubBlank
  <2> DEFINE pending == Append(sub.pending, Char(pos))
  <2>1. /\ Char(pos) \in Whitespace \ {Newline} /\ pos' = pos + 1 /\ col' = col + 1
        /\ UNCHANGED <<input, line, space, blanks, tokens, lexing>>
        /\ sub' = [sub EXCEPT !.pending = pending]
    BY <1>10, Zenon DEF SubBlank
  <2> HIDE DEF pending
  <2>2. /\ {"open", "at", "col", "started"} \subseteq DOMAIN sub'
        /\ sub'.open = sub.open /\ sub'.at = sub.at /\ sub'.col = sub.col
    BY <1>4, <2>1
  <2>3. Char(pos) # "" /\ Char(pos) # Newline
    BY <2>1 DEF Whitespace, Newline
  <2> QED
    BY <1>6, <2>1, <2>2, <2>3
<1>11. CASE SubEnd
  <2>1. CASE ~sub.started
    <3>1. Wrong("empty substitution path") \/ Wrong("empty segment in path")
      BY <1>11, <2>1 DEF SubEnd
    <3> QED
      BY <3>1, WrongKeeps
  <2>2. CASE sub.started
    <3> DEFINE j == pos + 1
               segments == Append(sub.segments, sub.text)
    <3>1. Char(pos) = "}" /\ EndSubst(segments, FALSE, j)
      BY <1>11, <2>2, Zenon DEF SubEnd
    <3>2. j \in pos + 1 .. Len(input) + 1 /\ j - 1 = pos /\ pos .. j - 1 = {pos}
      <4>1. pos \in 1 .. Len(input)
        BY <1>5, <3>1
      <4> QED
        BY <1>2, <4>1
    <3> HIDE DEF j, segments
    <3>3. BraceBefore(j) /\ \A k \in pos .. j - 1 : Char(k) # Newline
      BY <3>1, <3>2 DEF Newline, BraceBefore
    <3> QED
      BY <1>1, <2>2, <3>1, <3>2, <3>3, EndKeeps
  <2> QED
    BY <2>1, <2>2
<1>12. CASE SubList
  <2> DEFINE Blanks1 == \E i \in DOMAIN sub.pending : sub.pending[i] \notin {" ", "\t"}
  <2>1. CASE ~sub.started
    <3>1. Wrong("empty segment before []")
      BY <1>12, <2>1, Zenon DEF SubList
    <3> QED
      BY <3>1, WrongKeeps
  <2>2. CASE sub.started /\ Blanks1
    <3>1. Wrong("blank before []")
      BY <1>12, <2>2, Zenon DEF SubList
    <3> QED
      BY <3>1, WrongKeeps
  <2>3. CASE sub.started /\ ~Blanks1
    <3> DEFINE j == pos + 3
               segments == Append(sub.segments, sub.text)
    <3>1. IF Is(pos, <<"[", "]", "}">>) THEN EndSubst(segments, TRUE, j) ELSE Wrong("malformed []")
      BY <1>12, <2>3, Zenon DEF SubList
    <3>2. CASE ~Is(pos, <<"[", "]", "}">>)
      BY <3>1, <3>2, WrongKeeps
    <3>3. CASE Is(pos, <<"[", "]", "}">>)
      <4>1. Char(pos) = "[" /\ Char(pos + 1) = "]" /\ Char(pos + 2) = "}"
        <5>1. pos \in Int
          BY <1>2
        <5> QED
          BY <3>3, <5>1, BeginsAt, Zenon
      <4>2. pos + 2 \in 1 .. Len(input)
        BY <1>3, <4>1, Chars
      <4>3. /\ j \in pos + 1 .. Len(input) + 1 /\ j - 1 = pos + 2
            /\ \A k \in pos .. j - 1 : k = pos \/ k = pos + 1 \/ k = pos + 2
        BY <1>2, <4>2
      <4>4. EndSubst(segments, TRUE, j)
        BY <3>1, <3>3
      <4> HIDE DEF j, segments
      <4>5. BraceBefore(j) /\ \A k \in pos .. j - 1 : Char(k) # Newline
        BY <4>1, <4>3 DEF Newline, BraceBefore
      <4> QED
        BY <1>1, <2>3, <4>3, <4>4, <4>5, EndKeeps
    <3> QED
      BY <3>2, <3>3
  <2> QED
    BY <2>1, <2>2, <2>3
<1>13. CASE SubUnexpected
  <2>1. Wrong("unterminated substitution") \/ Wrong("unexpected character")
    BY <1>13 DEF SubUnexpected
  <2> QED
    BY <2>1, WrongKeeps
<1> QED
  BY <1>7, <1>8, <1>9, <1>10, <1>11, <1>12, <1>13 DEF SubStep

(* ------------------------------ the theorem ---------------------------- *)
\* A step of the parser reads the tokens and leaves them.
LEMMA ParserOnly ==
    ASSUME ParseStep
    PROVE  UNCHANGED lexer
<1>1. ASSUME NEW i, NEW s, Go(i, s) PROVE UNCHANGED lexer
  BY <1>1 DEF Go
<1>2. ASSUME NEW e, Refuse(e) PROVE UNCHANGED lexer
  BY <1>2 DEF Refuse
<1>3. ASSUME NEW i, NEW s, NEW f, Enter(i, s, f) PROVE UNCHANGED lexer
  BY <1>1, <1>2, <1>3, Zenon DEF Enter
<1>4. ASSUME NEW i, NEW node, Leave(i, node) PROVE UNCHANGED lexer
  BY <1>1, <1>4, Zenon DEF Leave
<1>5. ASSUME NEW node, Part(node) PROVE UNCHANGED lexer
  BY <1>1, <1>5, Zenon DEF Part
<1>6. ASSUME NEW segments, NEW dot, NEW i, KeyGoesOn(segments, dot, i) PROVE UNCHANGED lexer
  BY <1>1, <1>6, Zenon DEF KeyGoesOn
<1>7. CASE Begin \/ Finish \/ Leftover
  BY <1>2, <1>7, Zenon DEF Begin, Finish, Leftover
<1>8. CASE BeginArray \/ BeginFields \/ BeginObject \/ BeginRest
  BY <1>3, <1>8, Zenon DEF BeginArray, BeginFields, BeginObject, BeginRest
<1>9. CASE ObjectKey \/ ObjectEnd \/ ObjectInclude
  BY <1>1, <1>2, <1>4, <1>9, Zenon DEF ObjectKey, ObjectEnd, ObjectInclude
<1>10. CASE KeyQuoted \/ KeyUnquoted
  BY <1>2, <1>6, <1>10, Zenon DEF KeyQuoted, KeyUnquoted
<1>11. CASE KeyEnd
  BY <1>1, <1>2, <1>11, Zenon DEF KeyEnd
<1>12. CASE ValueNested \/ ValueScalar \/ ValueEnd
  BY <1>1, <1>2, <1>3, <1>5, <1>12, Zenon DEF ValueNested, ValueScalar, ValueEnd
<1>13. CASE ArrayItem \/ ArrayEnd
  BY <1>1, <1>2, <1>4, <1>13, Zenon DEF ArrayItem, ArrayEnd
<1> QED
  BY <1>7, <1>8, <1>9, <1>10, <1>11, <1>12, <1>13 DEF ParseStep

LEMMA TextStart ==
    ASSUME LexInit
    PROVE  LexInv
<1>1. /\ pos = (IF Len(input) > 0 /\ input[1] = "bom" THEN 2 ELSE 1)
      /\ line = 1 /\ col = 1 /\ space = FALSE /\ tokens = <<>> /\ sub = NoSub
  BY DEF LexInit
<1>2. ItsText
  BY TextsAssumption, Zenon DEF LexInit, ItsText
<1>3. Len(input) \in Nat
  BY <1>2, Chars
<1>4. pos = Home /\ Home \in 1 .. Len(input) + 1 /\ Home \in 1 .. 2
  <2>1. CASE Len(input) > 0 /\ input[1] = "bom"
    <3>1. Char(1) = "bom" /\ Len(input) >= 1
      <4>1. 1 \in 1 .. Len(input) /\ Len(input) >= 1
        BY <1>3, <2>1
      <4> QED
        BY <2>1, <4>1 DEF Char
    <3> QED
      BY <1>1, <1>3, <2>1, <3>1 DEF Home
  <2>2. CASE ~(Len(input) > 0 /\ input[1] = "bom")
    <3>1. Char(1) # "bom"
      BY <1>3, <2>2 DEF Char
    <3> QED
      BY <1>1, <1>3, <2>2, <3>1 DEF Home
  <2> QED
    BY <2>1, <2>2
<1>5. Newlines(1, Home) = {}
  <2>1. CASE Home = 1
    BY <2>1 DEF Newlines
  <2>2. CASE Home = 2
    <3>1. Char(1) = "bom"
      BY <2>2 DEF Home
    <3>2. input[1] # Newline /\ 1 .. 2 - 1 = {1}
      BY <3>1 DEF Char, Newline
    <3> QED
      BY <2>2, <3>2 DEF Newlines
  <2> QED
    BY <1>4, <2>1, <2>2
<1>6. LineAt(pos) = 1 /\ ColAt(pos) = 1
  BY <1>4, <1>5, FS_EmptySet DEF LineAt, ColAt
<1>7. CursorAt
  <2>1. pos \in Home .. Len(input) + 1
    BY <1>4
  <2> QED
    BY <1>1, <1>6, <2>1 DEF CursorAt
<1>8. Lexed /\ Located
  <2>1. tokens \in Seq({}) /\ DOMAIN tokens = {}
    BY <1>1
  <2> QED
    BY <2>1 DEF Lexed, Located
<1>9. GapTo(pos)
  <2>1. Since = pos
    <3>1. Len(tokens) + 1 = 1
      BY <1>1
    <3> QED
      BY <1>4, <3>1 DEF Since, GapBefore
  <2>2. pos .. pos - 1 = {} /\ pos \in Home .. pos /\ ~(pos < pos)
    BY <1>4
  <2>3. Newlines(pos, pos) = {}
    BY <2>2 DEF Newlines
  <2> QED
    BY <1>1, <2>1, <2>2, <2>3 DEF GapTo
<1>10. {"open", "at", "col", "started"} \subseteq DOMAIN sub /\ sub.open = FALSE
  BY <1>1 DEF NoSub
<1> QED
  BY <1>2, <1>7, <1>8, <1>9, <1>10 DEF LexInv

LEMMA LexerKeeps == Spec => []LexInv
<1>1. Init => LexInv
  BY TextStart DEF Init
<1>2. LexInv /\ [Next]_vars => LexInv'
  <2> SUFFICES ASSUME LexInv, [Next]_vars PROVE LexInv'
    OBVIOUS
  <2>1. CASE UNCHANGED lexer
    <3>1. UNCHANGED <<input, pos, line, col, space, tokens, sub, lexing>>
      BY <2>1 DEF lexer
    <3>2. ItsText' /\ Lexed' /\ Located' /\ Since' = Since
      BY <3>1, Untold
    <3>3. CursorAt'
      BY <3>1, SameText DEF LexInv, CursorAt
    <3>4. lexing = "on" /\ ~sub.open => GapTo(pos)'
      BY <3>1, <3>2, SameText DEF LexInv, GapTo
    <3>5. lexing = "on" /\ sub.open => GapTo(sub.at)' /\ SubAt'
      BY <3>1, <3>2, SameText DEF LexInv, GapTo, SubAt
    <3>6. {"open", "at", "col", "started"} \subseteq DOMAIN sub'
      BY <3>1 DEF LexInv
    <3> QED
      BY <3>1, <3>2, <3>3, <3>4, <3>5, <3>6 DEF LexInv
  <2>2. CASE LexStep
    BY <2>2, NewlineKeeps, BlankKeeps, WordKeeps, StringKeeps, SubstKeeps, EndsKeep, PathKeeps
       DEF LexStep
  <2>3. CASE ParseStep
    BY <2>1, <2>3, ParserOnly
  <2>4. CASE UNCHANGED vars
    BY <2>1, <2>4 DEF vars
  <2> QED
    BY <2>2, <2>3, <2>4 DEF Next
<1> QED
  BY <1>1, <1>2, PTL DEF Spec

\* For every text (line ends in triple-quoted strings and in comments, escapes,
\* a byte order mark), every token is where it says and reads all it can, and
\* between two of them nothing is lost but blanks, comments and line ends
\* (tokenize, read_quoted_body, parse_subst_body).
THEOREM TokensLocated == Spec => []Located
<1>1. LexInv => Located
  BY DEF LexInv
<1> QED
  BY <1>1, LexerKeeps, PTL
=============================================================================
