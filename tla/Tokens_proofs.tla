----------------------------- MODULE Tokens_proofs -----------------------------
(***************************************************************************)
(* TokensDecoded for every text: the lexer reads a string, the path of a   *)
(* substitution and the blanks before a token one character or one piece   *)
(* at a time; the references look at the whole stretch at once, for every  *)
(* way to read it.  The inductive invariant says what the piece read so    *)
(* far fixes of all the readings there are: however the text goes on, it   *)
(* is read as what the lexer holds and then something, or not at all.      *)
(***************************************************************************)
EXTENDS Lexer_proofs

(* ----------------------- what stands in order ----------------------- *)
\* The list grows by one element at a time.
LEMMA InOrderTurn ==
    ASSUME ItsText, NEW S, NEW f, NEW i \in 1 .. Len(input) + 1
    PROVE  /\ InOrder(S, f, i, i) = <<>>
           /\ \A k \in i .. Len(input) :
                 /\ k \in S => InOrder(S, f, i, k + 1) = Append(InOrder(S, f, i, k), f[k])
                 /\ k \notin S => InOrder(S, f, i, k + 1) = InOrder(S, f, i, k)
<1> DEFINE n == Len(input) + 1
           Turn(upto, k) == IF k = i THEN <<>>
                            ELSE IF k - 1 \in S THEN Append(upto[k - 1], f[k - 1]) ELSE upto[k - 1]
           Good(m) == \E g : \A k \in i .. m : g[k] = Turn(g, k)
<1>1. n \in Nat /\ i \in 1 .. n
  <2>1. Len(input) \in Nat
    BY Chars
  <2> QED
    BY <2>1
<1>2. ASSUME NEW g, NEW h, NEW m \in i .. n, \A k \in i .. m - 1 : g[k] = h[k]
      PROVE  Turn(g, m) = Turn(h, m)
  <2>1. CASE m = i
    BY <2>1
  <2>2. CASE m # i
    <3>1. m - 1 \in i .. m - 1
      BY <1>1, <2>2
    <3>2. g[m - 1] = h[m - 1]
      BY <1>2, <3>1
    <3> QED
      BY <3>2
  <2> QED
    BY <2>1, <2>2
<1> HIDE DEF Turn
<1>3. ASSUME NEW m \in i .. n, m > i => Good(m - 1)
      PROVE  Good(m)
  <2>1. PICK g : \A k \in i .. m - 1 : g[k] = Turn(g, k)
    <3>1. CASE m > i
      BY <1>3, <3>1
    <3>2. CASE ~(m > i)
      <4>1. i .. m - 1 = {}
        BY <1>1, <3>2
      <4> QED
        BY <4>1
    <3> QED
      BY <3>1, <3>2
  <2> DEFINE h == [k \in i .. m |-> IF k = m THEN Turn(g, m) ELSE g[k]]
  <2>2. \A k \in i .. m - 1 : h[k] = g[k]
    BY <1>1
  <2>3. h[m] = Turn(g, m)
    BY <1>1
  <2> HIDE DEF h
  <2>4. ASSUME NEW k \in i .. m PROVE h[k] = Turn(h, k)
    <3>1. k \in i .. n /\ \A l \in i .. k - 1 : l \in i .. m - 1
      BY <1>1
    <3>2. Turn(h, k) = Turn(g, k)
      BY <1>2, <2>2, <3>1
    <3>3. k = m \/ k \in i .. m - 1
      BY <1>1
    <3> QED
      BY <2>1, <2>2, <2>3, <3>2, <3>3
  <2> QED
    BY <2>4
<1>4. Good(n)
  <2> DEFINE Bad == {m \in i .. n : ~Good(m)}
  <2> HIDE DEF Good
  <2> SUFFICES ASSUME Bad # {} PROVE FALSE
    BY <1>1
  <2>1. Bad \in SUBSET Nat
    BY <1>1
  <2>2. PICK m \in Bad : \A k \in Bad : m <= k
    BY <2>1, Least
  <2>3. m \in i .. n /\ ~Good(m)
    BY <2>2
  <2>4. m > i => Good(m - 1)
    <3> SUFFICES ASSUME m > i PROVE Good(m - 1)
      OBVIOUS
    <3>1. m - 1 \in i .. n /\ ~(m <= m - 1)
      BY <1>1, <2>3
    <3>2. m - 1 \notin Bad
      BY <2>2, <3>1
    <3> QED
      BY <3>1, <3>2
  <2> QED
    BY <1>3, <2>3, <2>4
<1>5. PICK g : \A k \in i .. n : g[k] = Turn(g, k)
  BY <1>4
<1> DEFINE h == [k \in i .. n |-> g[k]]
<1>6. h = [k \in i .. n |-> Turn(h, k)]
  <2>1. \A k \in i .. n : h[k] = g[k]
    OBVIOUS
  <2>2. ASSUME NEW k \in i .. n PROVE g[k] = Turn(h, k)
    <3>1. \A l \in i .. k - 1 : l \in i .. n
      BY <1>1
    <3> HIDE DEF h
    <3>2. Turn(h, k) = Turn(g, k)
      BY <1>2, <2>1, <3>1
    <3> QED
      BY <1>5, <3>2
  <2> QED
    BY <2>2
<1> HIDE DEF h
<1> DEFINE u == CHOOSE u : u = [k \in i .. n |-> Turn(u, k)]
<1>7. u = [k \in i .. n |-> Turn(u, k)]
  BY <1>6, Zenon
<1>8. \A k : InOrder(S, f, i, k) = u[k]
  BY Zenon DEF InOrder, Turn
<1> HIDE DEF u
<1>9. \A k \in i .. n : u[k] = Turn(u, k)
  BY <1>7, Zenon
<1>10. InOrder(S, f, i, i) = <<>>
  <2>1. i \in i .. n
    BY <1>1
  <2> QED
    BY <1>8, <1>9, <2>1 DEF Turn
<1>11. ASSUME NEW k \in i .. Len(input)
       PROVE InOrder(S, f, i, k + 1) =
                    IF k \in S THEN Append(InOrder(S, f, i, k), f[k]) ELSE InOrder(S, f, i, k)
  <2>1. k + 1 \in i .. n /\ k + 1 # i /\ k + 1 - 1 = k
    BY <1>1
  <2>2. u[k + 1] = IF k \in S THEN Append(u[k], f[k]) ELSE u[k]
    BY <1>9, <2>1 DEF Turn
  <2> QED
    BY <1>8, <2>2
<1> QED
  BY <1>10, <1>11

\* The function that Fragments is the value of.
LEMMA FragmentsExist ==
    ASSUME ItsText, NEW j \in 1 .. Len(input) + 1
    PROVE  \A i \in 1 .. j : Fragments(i, j) = Fragment([k \in 1 .. j |-> Fragments(k, j)], i, j)
<1> DEFINE Good(m) == \E g : \A k \in m .. j : g[k] = Fragment(g, k, j)
<1>1. j \in Nat /\ 1 <= j
  <2>1. Len(input) \in Nat
    BY Chars
  <2> QED
    BY <2>1
<1>2. ASSUME NEW g, NEW h, NEW m \in 1 .. j, \A k \in m + 1 .. j : g[k] = h[k]
      PROVE  Fragment(g, m, j) = Fragment(h, m, j)
  <2>1. \A k \in m + 2 .. j : g[k] = h[k]
    BY <1>1, <1>2
  <2>2. m < j => g[m + 1] = h[m + 1]
    BY <1>1, <1>2
  <2>3. StringFirst(g, m, j) = StringFirst(h, m, j)
    <3> DEFINE ends == {k \in m + 2 .. j : ReadsQuoted(m, k)}
    <3>1. \A r : StringFirst(r, m, j) = UNION {After(Decoded(m, k), r[k]) : k \in ends}
      BY Zenon DEF StringFirst
    <3>2. \A k \in ends : g[k] = h[k]
      BY <2>1
    <3> HIDE DEF ends
    <3>3. {After(Decoded(m, k), g[k]) : k \in ends} = {After(Decoded(m, k), h[k]) : k \in ends}
      BY <3>2
    <3> QED
      BY <3>1, <3>3
  <2>4. m < j => LetterFirst(g, m) = LetterFirst(h, m)
    BY <2>2 DEF LetterFirst
  <2>6. m # j => m < j
    BY <1>1
  <2> QED
    BY <2>3, <2>4, <2>6 DEF Fragment
<1>3. ASSUME NEW m \in 1 .. j, m < j => Good(m + 1)
      PROVE  Good(m)
  <2>1. PICK g : \A k \in m + 1 .. j : g[k] = Fragment(g, k, j)
    <3>1. CASE m < j
      BY <1>3, <3>1
    <3>2. CASE ~(m < j)
      <4>1. m + 1 .. j = {}
        BY <1>1, <3>2
      <4> QED
        BY <4>1
    <3> QED
      BY <3>1, <3>2
  <2> DEFINE h == [k \in m .. j |-> IF k = m THEN Fragment(g, m, j) ELSE g[k]]
  <2>2. \A k \in m + 1 .. j : h[k] = g[k]
    BY <1>1
  <2>3. h[m] = Fragment(g, m, j)
    BY <1>1
  <2> HIDE DEF h
  <2>4. ASSUME NEW k \in m .. j PROVE h[k] = Fragment(h, k, j)
    <3>1. k \in 1 .. j /\ \A l \in k + 1 .. j : l \in m + 1 .. j
      BY <1>1
    <3>2. Fragment(h, k, j) = Fragment(g, k, j)
      BY <1>2, <2>2, <3>1
    <3>3. k = m \/ k \in m + 1 .. j
      BY <1>1
    <3> QED
      BY <2>1, <2>2, <2>3, <3>2, <3>3
  <2> QED
    BY <2>4
<1>4. Good(1)
  <2> DEFINE Bad == {d \in 0 .. j - 1 : ~Good(j - d)}
  <2> HIDE DEF Good
  <2> SUFFICES ASSUME Bad # {} PROVE FALSE
    <3>1. j - 1 \in 0 .. j - 1 /\ j - (j - 1) = 1
      BY <1>1
    <3> QED
      BY <3>1
  <2>1. Bad \in SUBSET Nat
    BY <1>1
  <2>2. PICK d \in Bad : \A k \in Bad : d <= k
    BY <2>1, Least
  <2>3. d \in 0 .. j - 1 /\ ~Good(j - d) /\ j - d \in 1 .. j
    BY <1>1, <2>2
  <2>4. j - d < j => Good(j - d + 1)
    <3> SUFFICES ASSUME j - d < j PROVE Good(j - d + 1)
      OBVIOUS
    <3>1. d - 1 \in 0 .. j - 1 /\ j - (d - 1) = j - d + 1 /\ ~(d <= d - 1)
      BY <1>1, <2>3
    <3>2. d - 1 \notin Bad
      BY <2>2, <3>1
    <3> QED
      BY <3>1, <3>2
  <2> QED
    BY <1>3, <2>3, <2>4
<1>5. PICK g : \A k \in 1 .. j : g[k] = Fragment(g, k, j)
  BY <1>4
<1> DEFINE h == [k \in 1 .. j |-> g[k]]
<1>6. h = [k \in 1 .. j |-> Fragment(h, k, j)]
  <2>1. \A k \in 1 .. j : h[k] = g[k]
    OBVIOUS
  <2>2. ASSUME NEW k \in 1 .. j PROVE g[k] = Fragment(h, k, j)
    <3>1. \A l \in k + 1 .. j : l \in 1 .. j
      BY <1>1
    <3> HIDE DEF h
    <3>2. Fragment(h, k, j) = Fragment(g, k, j)
      BY <1>2, <2>1, <3>1
    <3> QED
      BY <1>5, <3>2
  <2> QED
    BY <2>2
<1> HIDE DEF h
<1> DEFINE u == CHOOSE u : u = [k \in 1 .. j |-> Fragment(u, k, j)]
<1>7. u = [k \in 1 .. j |-> Fragment(u, k, j)]
  BY <1>6, Zenon
<1>8. \A k : Fragments(k, j) = u[k]
  BY Zenon DEF Fragments
<1> HIDE DEF u
<1>9. u = [k \in 1 .. j |-> Fragments(k, j)]
  <2> DEFINE v == [k \in 1 .. j |-> Fragments(k, j)]
  <2>1. \A k \in 1 .. j : Fragments(k, j) = Fragment(u, k, j)
    BY <1>7, <1>8, Zenon
  <2>2. v = [k \in 1 .. j |-> Fragment(u, k, j)]
    BY <2>1
  <2> QED
    BY <1>7, <2>2
<1>10. \A k \in 1 .. j : u[k] = Fragment(u, k, j)
  BY <1>7, Zenon
<1> QED
  BY <1>8, <1>9, <1>10
\* The function that PathsIn is the value of.
LEMMA PathsExist ==
    ASSUME ItsText, NEW j \in 1 .. Len(input) + 1
    PROVE  \A i \in 1 .. j : PathsIn(i, j) = PathFrom([k \in 1 .. j |-> PathsIn(k, j)], i, j)
<1> DEFINE Good(m) == \E g : \A k \in m .. j : g[k] = PathFrom(g, k, j)
<1>1. j \in Nat /\ 1 <= j
  <2>1. Len(input) \in Nat
    BY Chars
  <2> QED
    BY <2>1
<1>2. ASSUME NEW g, NEW h, NEW m \in 1 .. j, \A k \in m + 1 .. j : g[k] = h[k]
      PROVE  PathFrom(g, m, j) = PathFrom(h, m, j)
  <2>1. \A k \in m .. j - 1 : g[k + 1] = h[k + 1]
    <3>1. \A k \in m .. j - 1 : k + 1 \in m + 1 .. j
      BY <1>1
    <3> QED
      BY <1>2, <3>1
  <2> DEFINE Over(R, k) == UNION {After(<<s>>, R) : s \in Segments(m, k)}
             cuts == {k \in m .. j - 1 : Char(k) = "."}
  <2>2. \A r : PathFrom(r, m, j) = {<<s>> : s \in Segments(m, j)} \cup UNION {Over(r[k + 1], k) : k \in cuts}
    BY DEF PathFrom
  <2>3. \A k \in cuts : g[k + 1] = h[k + 1]
    BY <2>1
  <2> HIDE DEF Over, cuts
  <2>4. {Over(g[k + 1], k) : k \in cuts} = {Over(h[k + 1], k) : k \in cuts}
    BY <2>3
  <2> QED
    BY <2>2, <2>4
<1>3. ASSUME NEW m \in 1 .. j, m < j => Good(m + 1)
      PROVE  Good(m)
  <2>1. PICK g : \A k \in m + 1 .. j : g[k] = PathFrom(g, k, j)
    <3>1. CASE m < j
      BY <1>3, <3>1
    <3>2. CASE ~(m < j)
      <4>1. m + 1 .. j = {}
        BY <1>1, <3>2
      <4> QED
        BY <4>1
    <3> QED
      BY <3>1, <3>2
  <2> DEFINE h == [k \in m .. j |-> IF k = m THEN PathFrom(g, m, j) ELSE g[k]]
  <2>2. \A k \in m + 1 .. j : h[k] = g[k]
    BY <1>1
  <2>3. h[m] = PathFrom(g, m, j)
    BY <1>1
  <2> HIDE DEF h
  <2>4. ASSUME NEW k \in m .. j PROVE h[k] = PathFrom(h, k, j)
    <3>1. k \in 1 .. j /\ \A l \in k + 1 .. j : l \in m + 1 .. j
      BY <1>1
    <3>2. PathFrom(h, k, j) = PathFrom(g, k, j)
      BY <1>2, <2>2, <3>1
    <3>3. k = m \/ k \in m + 1 .. j
      BY <1>1
    <3> QED
      BY <2>1, <2>2, <2>3, <3>2, <3>3
  <2> QED
    BY <2>4
<1>4. Good(1)
  <2> DEFINE Bad == {d \in 0 .. j - 1 : ~Good(j - d)}
  <2> HIDE DEF Good
  <2> SUFFICES ASSUME Bad # {} PROVE FALSE
    <3>1. j - 1 \in 0 .. j - 1 /\ j - (j - 1) = 1
      BY <1>1
    <3> QED
      BY <3>1
  <2>1. Bad \in SUBSET Nat
    BY <1>1
  <2>2. PICK d \in Bad : \A k \in Bad : d <= k
    BY <2>1, Least
  <2>3. d \in 0 .. j - 1 /\ ~Good(j - d) /\ j - d \in 1 .. j
    BY <1>1, <2>2
  <2>4. j - d < j => Good(j - d + 1)
    <3> SUFFICES ASSUME j - d < j PROVE Good(j - d + 1)
      OBVIOUS
    <3>1. d - 1 \in 0 .. j - 1 /\ j - (d - 1) = j - d + 1 /\ ~(d <= d - 1)
      BY <1>1, <2>3
    <3>2. d - 1 \notin Bad
      BY <2>2, <3>1
    <3> QED
      BY <3>1, <3>2
  <2> QED
    BY <1>3, <2>3, <2>4
<1>5. PICK g : \A k \in 1 .. j : g[k] = PathFrom(g, k, j)
  BY <1>4
<1> DEFINE h == [k \in 1 .. j |-> g[k]]
<1>6. h = [k \in 1 .. j |-> PathFrom(h, k, j)]
  <2>1. \A k \in 1 .. j : h[k] = g[k]
    OBVIOUS
  <2>2. ASSUME NEW k \in 1 .. j PROVE g[k] = PathFrom(h, k, j)
    <3>1. \A l \in k + 1 .. j : l \in 1 .. j
      BY <1>1
    <3> HIDE DEF h
    <3>2. PathFrom(h, k, j) = PathFrom(g, k, j)
      BY <1>2, <2>1, <3>1
    <3> QED
      BY <1>5, <3>2
  <2> QED
    BY <2>2
<1> HIDE DEF h
<1> DEFINE u == CHOOSE u : u = [k \in 1 .. j |-> PathFrom(u, k, j)]
<1>7. u = [k \in 1 .. j |-> PathFrom(u, k, j)]
  BY <1>6, Zenon
<1>8. \A k : PathsIn(k, j) = u[k]
  BY Zenon DEF PathsIn
<1> HIDE DEF u
<1>9. u = [k \in 1 .. j |-> PathsIn(k, j)]
  <2> DEFINE v == [k \in 1 .. j |-> PathsIn(k, j)]
  <2>1. \A k \in 1 .. j : PathsIn(k, j) = PathFrom(u, k, j)
    BY <1>7, <1>8, Zenon
  <2>2. v = [k \in 1 .. j |-> PathFrom(u, k, j)]
    BY <2>1
  <2> QED
    BY <1>7, <2>2
<1>10. \A k \in 1 .. j : u[k] = PathFrom(u, k, j)
  BY <1>7, Zenon
<1> QED
  BY <1>8, <1>9, <1>10

\* What may stand between i and j of a path, by what stands at i.
LEMMA FragmentsAre ==
    ASSUME ItsText, NEW j \in 1 .. Len(input) + 1, NEW i \in 1 .. j
    PROVE  /\ i = j => Fragments(i, j) = {<<>>}
           /\ i < j /\ Char(i) = Quote =>
                 Fragments(i, j) = UNION {After(Decoded(i, k), Fragments(k, j)) : k \in {k \in i + 2 .. j : ReadsQuoted(i, k)}}
           /\ i < j /\ (InSubst(Char(i)) \/ Blank(i)) => Fragments(i, j) = After(<<Char(i)>>, Fragments(i + 1, j))
           /\ i < j /\ Char(i) # Quote /\ ~InSubst(Char(i)) /\ ~Blank(i) => Fragments(i, j) = {}
<1>1. j \in Nat /\ i \in Nat /\ 1 <= i /\ i <= j
  <2>1. Len(input) \in Nat
    BY Chars
  <2> QED
    BY <2>1
<1> DEFINE r == [k \in 1 .. j |-> Fragments(k, j)]
<1>2. \A k \in 1 .. j : r[k] = Fragments(k, j)
  OBVIOUS
<1>3. Fragments(i, j) = Fragment(r, i, j)
  BY FragmentsExist
<1> HIDE DEF r
<1>4. Quote \in Forbidden /\ Quote \notin Whitespace
  BY DEF Forbidden, Whitespace, Quote, Newline
<1>5. Char(i) = Quote => ~InSubst(Char(i)) /\ ~Blank(i)
  BY <1>4 DEF InSubst, Blank
<1> DEFINE ends == {k \in i + 2 .. j : ReadsQuoted(i, k)}
           over == UNION {After(Decoded(i, k), r[k]) : k \in ends}
           onward == After(<<Char(i)>>, r[i + 1])
           quoted == UNION {After(Decoded(i, k), Fragments(k, j)) : k \in ends}
<1>6. /\ i = j => Fragments(i, j) = {<<>>}
      /\ i # j /\ (InSubst(Char(i)) \/ Blank(i)) => Fragments(i, j) = over \cup onward
      /\ i # j /\ ~(InSubst(Char(i)) \/ Blank(i)) => Fragments(i, j) = over
  <2>1. over = StringFirst(r, i, j)
    BY Zenon DEF StringFirst
  <2>2. Fragments(i, j) = IF i = j THEN {<<>>} ELSE StringFirst(r, i, j) \cup LetterFirst(r, i)
    BY <1>3, Zenon DEF Fragment
  <2>3. /\ InSubst(Char(i)) \/ Blank(i) => LetterFirst(r, i) = onward
        /\ ~(InSubst(Char(i)) \/ Blank(i)) => LetterFirst(r, i) = {}
    BY DEF LetterFirst
  <2>4. over \cup {} = over
    OBVIOUS
  <2> HIDE DEF over, onward
  <2> QED
    BY <2>1, <2>2, <2>3, <2>4
<1>7. over = quoted
  <2>1. \A k \in ends : r[k] = Fragments(k, j)
    BY <1>1, <1>2
  <2> HIDE DEF ends
  <2>2. {After(Decoded(i, k), r[k]) : k \in ends} = {After(Decoded(i, k), Fragments(k, j)) : k \in ends}
    BY <2>1
  <2> QED
    BY <2>2
<1>8. i < j => onward = After(<<Char(i)>>, Fragments(i + 1, j))
  BY <1>1, <1>2
<1>9. Char(i) # Quote => ends = {} /\ quoted = {}
  BY DEF ReadsQuoted
<1>10. i # j => i < j
  BY <1>1
<1>11. i < j => i # j
  BY <1>1
<1> HIDE DEF over, onward, quoted
<1>12. Char(i) = Quote /\ i < j => Fragments(i, j) = quoted
  BY <1>5, <1>6, <1>7, <1>11
<1>13. i < j /\ (InSubst(Char(i)) \/ Blank(i)) => Fragments(i, j) = onward
  BY <1>5, <1>6, <1>7, <1>9, <1>11
<1>14. i < j /\ Char(i) # Quote /\ ~InSubst(Char(i)) /\ ~Blank(i) => Fragments(i, j) = {}
  BY <1>6, <1>7, <1>9, <1>11
<1> QED
  BY <1>6, <1>8, <1>12, <1>13, <1>14 DEF quoted

\* The paths between i and j: one segment, or one up to a period and a path after it.
Onward(i, k, j) == UNION {After(<<s>>, PathsIn(k + 1, j)) : s \in Segments(i, k)}

\* How a path is read from its first character on.
LEMMA PathsAre ==
    ASSUME ItsText, NEW j \in 1 .. Len(input) + 1, NEW i \in 1 .. j
    PROVE  PathsIn(i, j) = {<<s>> : s \in Segments(i, j)} \cup
                           UNION {Onward(i, k, j) : k \in {k \in i .. j - 1 : Char(k) = "."}}
<1>1. j \in Nat /\ i \in Nat /\ 1 <= i /\ i <= j
  <2>1. Len(input) \in Nat
    BY Chars
  <2> QED
    BY <2>1
<1> DEFINE r == [k \in 1 .. j |-> PathsIn(k, j)]
           Over(R, k) == UNION {After(<<s>>, R) : s \in Segments(i, k)}
           cuts == {k \in i .. j - 1 : Char(k) = "."}
<1>2. \A k \in cuts : r[k + 1] = PathsIn(k + 1, j)
  BY <1>1
<1>3. PathsIn(i, j) = PathFrom(r, i, j)
  BY PathsExist
<1> HIDE DEF r
<1>4. PathFrom(r, i, j) = {<<s>> : s \in Segments(i, j)} \cup UNION {Over(r[k + 1], k) : k \in cuts}
  BY DEF PathFrom
<1>5. \A k : Over(PathsIn(k + 1, j), k) = Onward(i, k, j)
  BY DEF Onward
<1> HIDE DEF Over, cuts
<1>6. {Over(r[k + 1], k) : k \in cuts} = {Onward(i, k, j) : k \in cuts}
  BY <1>2, <1>5
<1> QED
  BY <1>3, <1>4, <1>6 DEF cuts
(* ------------------------------ strings ----------------------------- *)
\* What a string can hold.
Letters == STRING \cup {CodePoint[h] : h \in DOMAIN CodePoint} \cup {Escapes[c] : c \in DOMAIN Escapes}

\* What a turn of the loop of read_quoted_body does, by the character at hand.
LEMMA TurnIs ==
    ASSUME ItsText, NEW j \in 1 .. Len(input) + 1
    PROVE  /\ Char(j) = Quote => \A body : QuotedTurn(body, j) = Ended(j)
           /\ Ordinary(j)     => \A body : QuotedTurn(body, j) = Prefixed(Char(j), body[j + 1])
           /\ Escape(j)       => \A body : QuotedTurn(body, j) = Prefixed(Escapes[Char(j + 1)], body[j + 2])
           /\ IsUnicode(j)    => \A body : QuotedTurn(body, j) = Prefixed(CodePoint[Text(j + 2, j + 6)], body[j + 6])
<1>1. DOMAIN Escapes = {Quote, Backslash, "/", "n", "t", "r", "b", "f"}
  BY DEF Escapes
<1>2. "" \notin DOMAIN Escapes /\ "u" \notin DOMAIN Escapes
  BY <1>1 DEF Quote, Backslash
<1>3. Quote # Backslash /\ Quote # "" /\ Quote # Newline /\ Backslash # "" /\ Backslash # Newline /\ "u" # ""
  BY DEF Quote, Backslash, Newline
<1>4. ASSUME Char(j) = Quote PROVE \A body : QuotedTurn(body, j) = Ended(j)
  <2>1. Char(j) \notin {"", Newline} /\ Char(j) # Backslash /\ ~IsUnicode(j)
    BY <1>3, <1>4 DEF IsUnicode
  <2> QED
    BY <1>4, <2>1, Zenon DEF QuotedTurn, Ended
<1>5. ASSUME Ordinary(j) PROVE \A body : QuotedTurn(body, j) = Prefixed(Char(j), body[j + 1])
  <2>1. Char(j) \notin {"", Newline} /\ Char(j) # Quote /\ Char(j) # Backslash /\ ~IsUnicode(j)
    BY <1>5 DEF Ordinary, IsUnicode
  <2> QED
    BY <1>5, <2>1, Zenon DEF QuotedTurn, Ordinary
<1>6. ASSUME Escape(j) PROVE \A body : QuotedTurn(body, j) = Prefixed(Escapes[Char(j + 1)], body[j + 2])
  <2>1. /\ Char(j) = Backslash /\ Char(j + 1) \in DOMAIN Escapes
        /\ Char(j) \notin {"", Newline} /\ Char(j) # Quote /\ ~(Char(j) \notin {"", Newline, Quote, Backslash})
    BY <1>3, <1>6 DEF Escape
  <2>2. Char(j + 1) # "" /\ ~IsUnicode(j)
    BY <1>2, <2>1 DEF IsUnicode
  <2> QED
    BY <2>1, <2>2, Zenon DEF QuotedTurn
<1>7. ASSUME IsUnicode(j) PROVE \A body : QuotedTurn(body, j) = Prefixed(CodePoint[Text(j + 2, j + 6)], body[j + 6])
  <2>1. Char(j) = Backslash /\ Char(j + 1) = "u"
    BY <1>7 DEF IsUnicode
  <2>2. /\ Char(j) \notin {"", Newline} /\ Char(j) # Quote /\ ~(Char(j) \notin {"", Newline, Quote, Backslash})
        /\ Char(j + 1) # "" /\ Char(j + 1) \notin DOMAIN Escapes
    BY <1>2, <1>3, <2>1
  <2> QED
    BY <1>7, <2>1, <2>2, Zenon DEF QuotedTurn
<1> QED
  BY <1>4, <1>5, <1>6, <1>7

\* A turn begins at a character that nothing before it has to do with.
Clean(q, j) == ~Escaped(q, j) /\ \A u \in j - 4 .. j - 1 : ~(u > q /\ Char(u) = "u" /\ Escaped(q, u))

\* What the characters of a turn count for, and where the next turn begins.
LEMMA LeapCounts ==
    ASSUME ItsText, NEW q \in Nat, Char(q) = Quote, NEW j \in Nat, j > q, Clean(q, j)
    PROVE  /\ Ordinary(j) => Counts(q, j) /\ Means(q, j) = Char(j) /\ Clean(q, j + 1)
           /\ Escape(j)   => /\ ~Counts(q, j) /\ Counts(q, j + 1)
                             /\ Means(q, j + 1) = Escapes[Char(j + 1)] /\ Clean(q, j + 2)
           /\ IsUnicode(j) => /\ ~Counts(q, j) /\ Counts(q, j + 1)
                              /\ Means(q, j + 1) = CodePoint[Text(j + 2, j + 6)]
                              /\ \A k \in j + 2 .. j + 5 : ~Counts(q, k) /\ Char(k) \in HexDigit
                              /\ Clean(q, j + 6)
<1> DEFINE Step(n) == Escaped(q, n + 1) <=> Char(n) = Backslash /\ ~Escaped(q, n)
           Off(u) == ~(u > q /\ Char(u) = "u" /\ Escaped(q, u))
<1>1. \A n \in Nat : n > q => Step(n)
  BY EscapedStep
<1>2. Quote # Backslash /\ "u" # Backslash /\ Newline # Backslash /\ "u" \notin DOMAIN Escapes
  BY DEF Quote, Backslash, Newline, Escapes
<1>3. \A n : Clean(q, n) <=> ~Escaped(q, n) /\ \A u \in n - 4 .. n - 1 : Off(u)
  BY DEF Clean
<1>4. \A n : Counts(q, n) <=> (Char(n) = Backslash => Escaped(q, n)) /\ \A u \in n - 4 .. n - 1 : Off(u)
  BY DEF Counts
<1>5. ~Escaped(q, j) /\ Off(j) /\ \A u \in j - 4 .. j - 1 : Off(u)
  BY <1>3
<1> HIDE DEF Step, Off
<1>6. ASSUME Ordinary(j) PROVE Counts(q, j) /\ Means(q, j) = Char(j) /\ Clean(q, j + 1)
  <2>1. Char(j) # Backslash
    BY <1>6 DEF Ordinary
  <2>2. ~Escaped(q, j + 1)
    BY <1>1, <2>1 DEF Step
  <2>3. \A u \in j + 1 - 4 .. j + 1 - 1 : u = j \/ u \in j - 4 .. j - 1
    OBVIOUS
  <2>4. \A u \in j + 1 - 4 .. j + 1 - 1 : Off(u)
    BY <1>5, <2>3
  <2>5. Clean(q, j + 1)
    BY <1>3, <2>2, <2>4
  <2> QED
    BY <1>4, <1>5, <2>1, <2>5 DEF Means
<1>7. ASSUME Escape(j)
      PROVE  ~Counts(q, j) /\ Counts(q, j + 1) /\ Means(q, j + 1) = Escapes[Char(j + 1)] /\ Clean(q, j + 2)
  <2>1. Char(j) = Backslash /\ Char(j + 1) \in DOMAIN Escapes /\ Char(j + 1) # "u"
    BY <1>2, <1>7 DEF Escape
  <2>2. Step(j) /\ Step(j + 1) /\ j + 1 + 1 = j + 2
    BY <1>1
  <2>3. Escaped(q, j + 1) /\ ~Escaped(q, j + 2)
    BY <1>5, <2>1, <2>2 DEF Step
  <2>4. Off(j + 1)
    BY <2>1 DEF Off
  <2>5. /\ \A u \in j + 1 - 4 .. j + 1 - 1 : u = j \/ u \in j - 4 .. j - 1
        /\ \A u \in j + 2 - 4 .. j + 2 - 1 : u = j + 1 \/ u = j \/ u \in j - 4 .. j - 1
    OBVIOUS
  <2>6. /\ \A u \in j + 1 - 4 .. j + 1 - 1 : Off(u)
        /\ \A u \in j + 2 - 4 .. j + 2 - 1 : Off(u)
    BY <1>5, <2>4, <2>5
  <2>7. Counts(q, j + 1)
    BY <1>4, <2>3, <2>6
  <2>8. Clean(q, j + 2)
    BY <1>3, <2>3, <2>6
  <2>9. ~Counts(q, j)
    BY <1>4, <1>5, <2>1
  <2> QED
    BY <2>1, <2>3, <2>7, <2>8, <2>9 DEF Means
<1>8. ASSUME IsUnicode(j)
      PROVE  /\ ~Counts(q, j) /\ Counts(q, j + 1)
             /\ Means(q, j + 1) = CodePoint[Text(j + 2, j + 6)]
             /\ \A k \in j + 2 .. j + 5 : ~Counts(q, k) /\ Char(k) \in HexDigit
             /\ Clean(q, j + 6)
  <2>1. /\ Char(j) = Backslash /\ Char(j + 1) = "u" /\ j + 5 <= Len(input)
        /\ Text(j + 2, j + 6) \in DOMAIN CodePoint
    BY <1>8, Zenon DEF IsUnicode
  <2>2. Len(input) \in Nat
    BY Chars
  <2>3. \A k \in j + 2 .. j + 5 : Char(k) \in HexDigit
    <3> DEFINE a == j + 2
               b == j + 6
    <3>1. a \in 1 .. Len(input) + 1 /\ b \in a .. Len(input) + 1 /\ b - a = 4
      BY <2>1, <2>2
    <3> HIDE DEF a, b
    <3>2. \A n \in 1 .. b - a : Text(a, b)[n] = Char(a + n - 1)
      BY <3>1, Excerpt
    <3>3. \A n \in 1 .. 4 : Char(a + n - 1) \in HexDigit
      <4>1. Text(a, b) \in DOMAIN CodePoint
        BY <2>1 DEF a, b
      <4>2. \A n \in 1 .. 4 : Text(a, b)[n] \in HexDigit
        BY <4>1, CodePointAssumption, Zenon
      <4> QED
        BY <3>1, <3>2, <4>2
    <3>4. \A k \in j + 2 .. j + 5 : k - j - 1 \in 1 .. 4 /\ a + (k - j - 1) - 1 = k
      BY DEF a
    <3> QED
      BY <3>3, <3>4
  <2>4. Backslash \notin HexDigit /\ "u" \notin HexDigit
    BY DEF HexDigit, Digit, Backslash
  <2>5. /\ Step(j) /\ Step(j + 1) /\ Step(j + 2) /\ Step(j + 3) /\ Step(j + 4) /\ Step(j + 5)
        /\ j + 1 + 1 = j + 2 /\ j + 2 + 1 = j + 3 /\ j + 3 + 1 = j + 4 /\ j + 4 + 1 = j + 5
        /\ j + 5 + 1 = j + 6
    BY <1>1
  <2>6. Escaped(q, j + 1) /\ ~Escaped(q, j + 2)
    BY <1>2, <1>5, <2>1, <2>5, Zenon DEF Step
  <2>7. j + 2 \in j + 2 .. j + 5 /\ j + 3 \in j + 2 .. j + 5 /\ j + 4 \in j + 2 .. j + 5 /\ j + 5 \in j + 2 .. j + 5
    OBVIOUS
  <2>8. ~Escaped(q, j + 3) /\ ~Escaped(q, j + 4) /\ ~Escaped(q, j + 5) /\ ~Escaped(q, j + 6)
    BY <2>3, <2>4, <2>5, <2>7, Zenon DEF Step
  <2>9. Off(j + 2) /\ Off(j + 3) /\ Off(j + 4) /\ Off(j + 5) /\ ~Off(j + 1)
    <3>1. j + 1 > q
      OBVIOUS
    <3> QED
      BY <2>1, <2>6, <2>8, <3>1 DEF Off
  <2>10. \A u \in j + 6 - 4 .. j + 6 - 1 : u = j + 2 \/ u = j + 3 \/ u = j + 4 \/ u = j + 5
    OBVIOUS
  <2>11. Clean(q, j + 6)
    <3>1. \A u \in j + 6 - 4 .. j + 6 - 1 : Off(u)
      BY <2>9, <2>10
    <3> QED
      BY <1>3, <2>8, <3>1
  <2>12. ASSUME NEW k \in j + 2 .. j + 5 PROVE ~Counts(q, k)
    <3>1. j + 1 \in k - 4 .. k - 1
      OBVIOUS
    <3> QED
      BY <1>4, <2>9, <3>1
  <2>13. Counts(q, j + 1)
    <3>1. \A u \in j + 1 - 4 .. j + 1 - 1 : u = j \/ u \in j - 4 .. j - 1
      OBVIOUS
    <3>2. \A u \in j + 1 - 4 .. j + 1 - 1 : Off(u)
      BY <1>5, <3>1
    <3> QED
      BY <1>4, <2>6, <3>2
  <2>14. ~Counts(q, j)
    BY <1>4, <1>5, <2>1
  <2>15. Hexes(j + 1) = Text(j + 2, j + 6)
    <3>1. j + 1 + 1 = j + 2 /\ j + 1 + 5 = j + 6
      OBVIOUS
    <3> QED
      BY <3>1 DEF Hexes
  <2> QED
    BY <2>1, <2>3, <2>6, <2>11, <2>12, <2>13, <2>14, <2>15 DEF Means
<1> QED
  BY <1>6, <1>7, <1>8

LEMMA Joins ==
    ASSUME NEW S, NEW s \in Seq(S)
    PROVE  /\ s \o <<>> = s /\ <<>> \o s = s
           /\ \A t \in Seq(S) : s \o t \in Seq(S)
           /\ \A t \in Seq(S) : \A u \in Seq(S) : (s \o t) \o u = s \o (t \o u)
           /\ \A c \in S : /\ <<c>> \in Seq(S) /\ Append(s, c) \in Seq(S) /\ Append(s, c) = s \o <<c>>
                           /\ \A t \in Seq(S) : Append(s, c) \o t = s \o (<<c>> \o t)
  OBVIOUS

LEMMA AppendThen ==
    ASSUME NEW S, NEW s \in Seq(S), NEW c \in S, NEW t \in Seq(S)
    PROVE  Append(s, c) \o t = s \o (<<c>> \o t)
  OBVIOUS

LEMMA OneMore == \A v \in Seq(Letters) : \A c \in Letters : \A x \in Seq(Letters) : Append(v, c) \o x = v \o (<<c>> \o x)
<1> SUFFICES ASSUME NEW v \in Seq(Letters), NEW c \in Letters, NEW x \in Seq(Letters) PROVE Append(v, c) \o x = v \o (<<c>> \o x)
  OBVIOUS
<1> QED
  BY AppendThen

\* A string ends in one place.
LEMMA OneEnd ==
    ASSUME NEW q \in Nat, NEW d \in Nat, NEW e \in Nat, ReadsQuoted(q, d), ReadsQuoted(q, e)
    PROVE  d = e
<1>1. ASSUME NEW x \in Nat, NEW y \in Nat, ReadsQuoted(q, x), ReadsQuoted(q, y) PROVE ~(x < y)
  <2> SUFFICES ASSUME x < y PROVE FALSE
    OBVIOUS
  <2>1. x - q >= 2 /\ Char(x - 1) = Quote /\ x - 1 \in q + 1 .. x - 1
    BY <1>1 DEF ReadsQuoted
  <2>2. Escaped(q, x - 1) <=> x - 1 # x - 1
    BY <1>1, <2>1, Zenon DEF ReadsQuoted
  <2>3. x - 1 \in q + 1 .. y - 1 /\ x - 1 # y - 1
    BY <2>1
  <2>4. Escaped(q, x - 1) <=> x - 1 # y - 1
    BY <1>1, <2>1, <2>3, Zenon DEF ReadsQuoted
  <2> QED
    BY <2>2, <2>3, <2>4
<1> QED
  BY <1>1

\* read_quoted_body reads what the string stands for, and every string.
LEMMA StringRead ==
    ASSUME ItsText, NEW q \in 1 .. Len(input), NEW e \in Nat, e <= Len(input) + 1, ReadsQuoted(q, e)
    PROVE  /\ QuotedBody(q + 1).ok /\ QuotedBody(q + 1).to = e
           /\ QuotedBody(q + 1).text = Decoded(q, e)
           /\ Decoded(q, e) \in Seq(Letters)
<1> DEFINE n == Len(input) + 1
           i == q + 1
           S == {k \in q + 1 .. e - 2 : Counts(q, k)}
           f == [k \in q + 1 .. e - 2 |-> Means(q, k)]
           u(k) == InOrder(S, f, i, k)
<1>1. n \in Nat /\ i \in 1 .. n /\ i \in 1 .. Len(input) + 1 /\ q \in Nat
  <2>1. Len(input) \in Nat
    BY Chars
  <2> QED
    BY <2>1
<1>2. PICK body : /\ body = [j \in i .. n |-> QuotedTurn(body, j)]
                  /\ QuotedBody(i) = body[i]
  <2>1. \E body : body = [j \in i .. n |-> QuotedTurn(body, j)]
    BY <1>1, BodyExists
  <2> DEFINE b == CHOOSE body : body = [j \in i .. n |-> QuotedTurn(body, j)]
  <2>2. b = [j \in i .. n |-> QuotedTurn(b, j)]
    BY <2>1, Zenon
  <2>3. QuotedBody(i) = b[i]
    BY Zenon DEF QuotedBody
  <2> HIDE DEF b
  <2> QED
    BY <2>2, <2>3
<1>3. \A j \in i .. n : body[j] = QuotedTurn(body, j)
  BY <1>2, Zenon
<1>4. /\ e - q >= 2 /\ Char(q) = Quote /\ Char(e - 1) = Quote
      /\ \A k \in q + 1 .. e - 1 :
            /\ Char(k) # Newline
            /\ Char(k) = Quote => (Escaped(q, k) <=> k # e - 1)
            /\ Escaped(q, k) => Char(k) \in DOMAIN Escapes \/ (Char(k) = "u" /\ k + 4 <= Len(input) /\ Hexes(k) \in DOMAIN CodePoint)
  BY DEF ReadsQuoted
<1>5. u(i) = <<>> /\ \A k \in i .. e - 2 : u(k + 1) = IF Counts(q, k) THEN Append(u(k), Means(q, k)) ELSE u(k)
  <2>1. /\ u(i) = <<>>
        /\ \A k \in i .. Len(input) : /\ k \in S => u(k + 1) = Append(u(k), f[k])
                                      /\ k \notin S => u(k + 1) = u(k)
    <3> HIDE DEF S, f
    <3> QED
      BY <1>1, InOrderTurn
  <2>2. \A k \in i .. e - 2 : k \in i .. Len(input) /\ (k \in S <=> Counts(q, k)) /\ f[k] = Means(q, k)
    BY <1>1
  <2> HIDE DEF S, f, u
  <2> QED
    BY <2>1, <2>2
<1>6. Decoded(q, e) = u(e - 1)
  BY DEF Decoded
<1> HIDE DEF S, f, u
<1> DEFINE Holds(j) == Clean(q, j) /\ u(j) \in Seq(Letters) =>
                             /\ {"ok", "to", "text", "why"} \subseteq DOMAIN body[j]
                             /\ body[j].ok /\ body[j].to = e /\ body[j].text \in Seq(Letters)
                             /\ u(e - 1) = u(j) \o body[j].text
<1>7. \A k \in 1 .. Len(input) : Char(k) \in Letters
  <2>1. DOMAIN input = 1 .. Len(input) /\ input \in Seq(STRING)
    BY Chars, Zenon DEF ItsText
  <2>2. \A k \in 1 .. Len(input) : input[k] \in STRING
    BY <2>1
  <2> QED
    BY <2>2 DEF Char, Letters
\* A turn that reads c and goes on at k.
<1>8. ASSUME NEW j \in i .. e - 2, NEW k \in j + 1 .. e - 1, Holds(k), Clean(q, k), NEW c \in Letters,
             body[j] = Prefixed(c, body[k]), u(j) \in Seq(Letters) => u(k) = Append(u(j), c)
      PROVE  Holds(j)
  <2> SUFFICES ASSUME u(j) \in Seq(Letters)
               PROVE  /\ {"ok", "to", "text", "why"} \subseteq DOMAIN body[j]
                      /\ body[j].ok /\ body[j].to = e /\ body[j].text \in Seq(Letters)
                      /\ u(e - 1) = u(j) \o body[j].text
    OBVIOUS
  <2>1. u(k) = Append(u(j), c) /\ u(k) \in Seq(Letters)
    <3> DEFINE v == u(j)
    <3>1. v \in Seq(Letters) /\ c \in Letters /\ u(k) = Append(v, c)
      BY <1>8
    <3> HIDE DEF v
    <3>2. Append(v, c) \in Seq(Letters)
      BY <3>1
    <3> QED
      BY <3>1, <3>2 DEF v
  <2>2. /\ {"ok", "to", "text", "why"} \subseteq DOMAIN body[k]
        /\ body[k].ok /\ body[k].to = e /\ body[k].text \in Seq(Letters) /\ u(e - 1) = u(k) \o body[k].text
    BY <1>8, <2>1
  <2>3. /\ body[j].ok = body[k].ok /\ body[j].to = body[k].to /\ body[j].text = <<c>> \o body[k].text
        /\ {"ok", "to", "text", "why"} \subseteq DOMAIN body[j]
    <3> DEFINE b == body[k]
               a == body[j]
    <3>1. {"ok", "to", "text", "why"} \subseteq DOMAIN b /\ a = [b EXCEPT !.text = <<c>> \o @]
      BY <1>8, <2>2 DEF Prefixed
    <3> HIDE DEF a, b
    <3>2. /\ a.ok = b.ok /\ a.to = b.to /\ a.text = <<c>> \o b.text
          /\ {"ok", "to", "text", "why"} \subseteq DOMAIN a
      BY <3>1
    <3> QED
      BY <3>2 DEF a, b
  <2> DEFINE x == body[k].text
             v == u(j)
  <2>4. x \in Seq(Letters) /\ v \in Seq(Letters) /\ u(e - 1) = Append(v, c) \o x
    BY <2>1, <2>2
  <2> HIDE DEF x, v
  <2>5. <<c>> \o x \in Seq(Letters) /\ Append(v, c) \o x = v \o (<<c>> \o x)
    <3>1. <<c>> \in Seq(Letters)
      OBVIOUS
    <3> QED
      <4>1. <<c>> \o x \in Seq(Letters)
        BY <2>4, <3>1, Joins
      <4>2. Append(v, c) \o x = v \o (<<c>> \o x)
        BY <2>4, OneMore
      <4> QED
        BY <2>4, <4>1, <4>2
  <2> QED
    BY <2>2, <2>3, <2>4, <2>5 DEF x, v
<1>9. ASSUME NEW j \in i .. e - 1, \A k \in j + 1 .. e - 1 : Holds(k)
      PROVE  Holds(j)
  <2> SUFFICES ASSUME Clean(q, j) PROVE Holds(j)
    OBVIOUS
  <2>1. j \in 1 .. Len(input) + 1 /\ j \in i .. n /\ j \in Nat /\ j > q
    BY <1>1
  <2>2. body[j] = QuotedTurn(body, j)
    BY <1>3, <2>1
  <2>3. CASE j = e - 1
    <3>1. body[j] = Ended(j)
      BY <1>4, <2>1, <2>2, <2>3, TurnIs
    <3>2. /\ body[j].ok = TRUE /\ body[j].to = e /\ body[j].text = <<>>
          /\ {"ok", "to", "text", "why"} \subseteq DOMAIN body[j]
      <4> DEFINE b == body[j]
      <4>1. b = Ended(j)
        BY <3>1
      <4> HIDE DEF b
      <4>2. b.to = j + 1 /\ b.ok = TRUE /\ b.text = <<>> /\ {"ok", "to", "text", "why"} \subseteq DOMAIN b
        BY <4>1 DEF Ended
      <4>3. j + 1 = e
        BY <2>3
      <4> QED
        BY <4>2, <4>3 DEF b
    <3>3. u(j) \in Seq(Letters) => u(j) \o <<>> = u(j)
      BY Joins
    <3>4. <<>> \in Seq(Letters)
      OBVIOUS
    <3> QED
      BY <2>3, <3>2, <3>3, <3>4
  <2>4. CASE j # e - 1
    <3>1. j \in i .. e - 2 /\ j + 1 \in i .. e - 1 /\ j \in q + 1 .. e - 1 /\ j + 1 \in q + 1 .. e - 1
      BY <1>1, <2>4
    <3>2. ~Escaped(q, j) /\ Char(j) # Quote
      BY <1>4, <2>4, <3>1 DEF Clean
    <3>3. CASE Ordinary(j)
      <4>1. Counts(q, j) /\ Means(q, j) = Char(j) /\ Clean(q, j + 1)
        BY <1>1, <1>4, <2>1, <3>3, LeapCounts
      <4>2. body[j] = Prefixed(Char(j), body[j + 1])
        BY <2>1, <2>2, <3>3, TurnIs
      <4>3. u(j + 1) = Append(u(j), Char(j))
        BY <1>5, <3>1, <4>1
      <4>4. j + 1 \in j + 1 .. e - 1
        BY <3>1
      <4>5. j \in 1 .. Len(input)
        BY <1>1, <3>1
      <4> HIDE DEF Holds
      <4> QED
        BY <1>7, <4>5, <1>8, <1>9, <3>1, <4>1, <4>2, <4>3, <4>4
    <3>4. CASE Char(j) = Backslash
      <4>1. Escaped(q, j + 1)
        BY <1>1, <1>4, <2>1, <3>2, <3>4, EscapedStep
      <4>2. j + 1 # e - 1
        BY <1>4, <3>1, <4>1
      <4>3. Char(j + 1) \in DOMAIN Escapes
            \/ (Char(j + 1) = "u" /\ j + 1 + 4 <= Len(input) /\ Hexes(j + 1) \in DOMAIN CodePoint)
        BY <1>4, <3>1, <4>1
      <4>4. CASE Char(j + 1) \in DOMAIN Escapes
        <5>1. Escape(j)
          BY <3>4, <4>4 DEF Escape
        <5>2. /\ ~Counts(q, j) /\ Counts(q, j + 1)
              /\ Means(q, j + 1) = Escapes[Char(j + 1)] /\ Clean(q, j + 2)
          BY <1>1, <1>4, <2>1, <5>1, LeapCounts
        <5>3. body[j] = Prefixed(Escapes[Char(j + 1)], body[j + 2])
          BY <2>1, <2>2, <5>1, TurnIs
        <5>4. j + 2 \in j + 1 .. e - 1 /\ j + 1 \in i .. e - 2 /\ j + 1 + 1 = j + 2
          BY <1>1, <3>1, <4>2
        <5>5. u(j + 1) = u(j)
          BY <1>5, <3>1, <5>2
        <5>6. u(j + 2) = Append(u(j + 1), Escapes[Char(j + 1)])
          BY <1>5, <5>2, <5>4
        <5>7. Escapes[Char(j + 1)] \in Letters
          BY <4>4 DEF Letters
        <5> HIDE DEF Holds
        <5> QED
          BY <1>8, <1>9, <3>1, <5>2, <5>3, <5>4, <5>5, <5>6, <5>7
      <4>5. CASE Char(j + 1) = "u" /\ j + 1 + 4 <= Len(input) /\ Hexes(j + 1) \in DOMAIN CodePoint
        <5>1. Hexes(j + 1) = Text(j + 2, j + 6) /\ j + 5 <= Len(input)
          <6>1. j + 1 + 1 = j + 2 /\ j + 1 + 5 = j + 6 /\ j + 1 + 4 = j + 5
            BY <2>1
          <6> QED
            BY <4>5, <6>1 DEF Hexes
        <5>2. IsUnicode(j)
          BY <3>4, <4>5, <5>1 DEF IsUnicode
        <5>3. /\ ~Counts(q, j) /\ Counts(q, j + 1)
              /\ Means(q, j + 1) = CodePoint[Text(j + 2, j + 6)]
              /\ \A k \in j + 2 .. j + 5 : ~Counts(q, k) /\ Char(k) \in HexDigit
              /\ Clean(q, j + 6)
          BY <1>1, <1>4, <2>1, <5>2, LeapCounts
        <5>4. body[j] = Prefixed(CodePoint[Text(j + 2, j + 6)], body[j + 6])
          BY <2>1, <2>2, <5>2, TurnIs
        <5>5. e - 1 \notin j + 2 .. j + 5
          <6>1. Quote \notin HexDigit
            BY DEF Quote, HexDigit, Digit
          <6> QED
            BY <1>4, <5>3, <6>1
        <5>6. j + 6 \in j + 1 .. e - 1
          BY <1>1, <3>1, <4>2, <5>5
        <5>7. /\ j + 1 \in i .. e - 2 /\ j + 2 \in i .. e - 2 /\ j + 3 \in i .. e - 2 /\ j + 4 \in i .. e - 2
              /\ j + 5 \in i .. e - 2
              /\ j + 1 + 1 = j + 2 /\ j + 2 + 1 = j + 3 /\ j + 3 + 1 = j + 4 /\ j + 4 + 1 = j + 5 /\ j + 5 + 1 = j + 6
          BY <1>1, <3>1, <5>6
        <5>8. u(j + 1) = u(j)
          BY <1>5, <3>1, <5>3
        <5>9. u(j + 2) = Append(u(j + 1), CodePoint[Text(j + 2, j + 6)])
          BY <1>5, <5>3, <5>7
        <5>10. ~Counts(q, j + 2) /\ ~Counts(q, j + 3) /\ ~Counts(q, j + 4) /\ ~Counts(q, j + 5)
          <6>1. j + 2 \in j + 2 .. j + 5 /\ j + 3 \in j + 2 .. j + 5 /\ j + 4 \in j + 2 .. j + 5 /\ j + 5 \in j + 2 .. j + 5
            BY <2>1
          <6> QED
            BY <5>3, <6>1
        <5>11. u(j + 3) = u(j + 2) /\ u(j + 4) = u(j + 3) /\ u(j + 5) = u(j + 4) /\ u(j + 6) = u(j + 5)
          BY <1>5, <5>7, <5>10
        <5>12. CodePoint[Text(j + 2, j + 6)] \in Letters
          BY <4>5, <5>1 DEF Letters
        <5>13. u(j + 6) = Append(u(j), CodePoint[Text(j + 2, j + 6)])
          BY <5>8, <5>9, <5>11
        <5> HIDE DEF Holds
        <5> QED
          BY <1>8, <1>9, <3>1, <5>3, <5>4, <5>6, <5>12, <5>13
      <4> QED
        BY <4>3, <4>4, <4>5
    <3>5. Ordinary(j) \/ Char(j) = Backslash
      <4>1. j \in 1 .. Len(input)
        BY <1>1, <3>1
      <4>2. Char(j) # "" /\ Char(j) # Newline
        BY <1>4, <3>1, <4>1, Chars
      <4> QED
        BY <3>2, <4>2 DEF Ordinary
    <3> QED
      BY <3>3, <3>4, <3>5
  <2> QED
    BY <2>3, <2>4
<1>10. Holds(i)
  <2> DEFINE m == e - 1
             Bad == {d \in 0 .. m - i : ~Holds(m - d)}
  <2>1. m \in Nat /\ i <= m /\ i \in Nat
    BY <1>1, <1>4
  <2> HIDE DEF Holds
  <2>2. ASSUME NEW j \in i .. m, \A k \in j + 1 .. m : Holds(k) PROVE Holds(j)
    BY <1>9, <2>2
  <2> HIDE DEF m, i
  <2> SUFFICES ASSUME Bad # {} PROVE FALSE
    <3>1. m - i \in 0 .. m - i /\ m - (m - i) = i
      BY <2>1
    <3> QED
      BY <3>1
  <2>3. PICK d \in Bad : \A k \in Bad : d <= k
    <3>1. Bad \in SUBSET Nat
      BY <2>1
    <3> QED
      BY <3>1, Least
  <2>4. d \in 0 .. m - i /\ ~Holds(m - d) /\ m - d \in i .. m
    BY <2>1, <2>3
  <2>5. ASSUME NEW k \in m - d + 1 .. m PROVE Holds(k)
    <3>1. m - k \in 0 .. m - i /\ m - (m - k) = k /\ ~(d <= m - k)
      BY <2>1, <2>4
    <3> QED
      BY <2>3, <3>1
  <2> QED
    BY <2>2, <2>4, <2>5
<1>11. Clean(q, i) /\ u(i) \in Seq(Letters)
  <2>1. ~Escaped(q, q + 1)
    BY <1>1, <1>4, EscapedStep
  <2>2. \A x \in q + 1 - 4 .. q + 1 - 1 : ~(x > q)
    BY <1>1
  <2>3. Clean(q, q + 1)
    BY <2>1, <2>2 DEF Clean
  <2>4. <<>> \in Seq(Letters)
    OBVIOUS
  <2> QED
    BY <1>5, <2>3, <2>4
<1>12. /\ body[i].ok /\ body[i].to = e /\ body[i].text \in Seq(Letters)
       /\ u(e - 1) = u(i) \o body[i].text
  BY <1>10, <1>11
<1>13. u(e - 1) = body[i].text
  BY <1>5, <1>12, Joins
<1> QED
  BY <1>2, <1>6, <1>12, <1>13
(* --------------------- the readings of a stretch -------------------- *)
\* A step that leaves the text alone changes nothing that can be read in it.
LEMMA SameReadings ==
    ASSUME input' = input
    PROVE  /\ \A i, j : Decoded(i, j)' = Decoded(i, j)
           /\ \A i, j : Payloads(i, j)' = Payloads(i, j)
           /\ \A i, j : PathsIn(i, j)' = PathsIn(i, j)
           /\ \A i, j : Segments(i, j)' = Segments(i, j)
           /\ \A i, j : Fragments(i, j)' = Fragments(i, j)
           /\ \A i, j : BlanksIn(i, j)' = BlanksIn(i, j)
           /\ \A i, j : Text(i, j)' = Text(i, j)
           /\ \A i : Blank(i)' <=> Blank(i)
           /\ \A i : BareMinus(i)' <=> BareMinus(i)
           /\ \A i : Hopeless(i)' <=> Hopeless(i)
<1>1. \A i, j : Decoded(i, j)' = Decoded(i, j)
  BY SMT DEF Decoded, InOrder, Counts, Means, Escaped, Only, Char, Hexes, Text
<1>2. \A i, j : Fragments(i, j)' = Fragments(i, j)
  BY SMT DEF Fragments, Fragment, StringFirst, LetterFirst, Decoded, InOrder, Counts, Means, Escaped, Only, Char,
         Hexes, Text, ReadsQuoted, Blank
<1>3. \A i, j : PathsIn(i, j)' = PathsIn(i, j)
  BY SMT DEF PathsIn, PathFrom, Segments, Solid, BareMinus, Fragments, Fragment, StringFirst, LetterFirst, Decoded,
         InOrder, Counts, Means, Escaped, Only, Char, Hexes, Text, ReadsQuoted, Blank
<1>4. \A i : (Blank(i)' <=> Blank(i)) /\ (BareMinus(i)' <=> BareMinus(i)) /\ Char(i)' = Char(i)
  BY DEF Blank, BareMinus, Char
<1>5. \A i, j : Segments(i, j)' = Segments(i, j)
  BY <1>2, <1>4, SMT DEF Segments, Solid
<1>6. \A i, j : BlanksIn(i, j)' = BlanksIn(i, j)
  BY SMT DEF BlanksIn, Commented, Is, Newlines, InOrder, Char, Blank
<1>7. /\ \A i, w : Is(i, w)' <=> Is(i, w)
      /\ \A i, j, S : Only(i, j, S)' <=> Only(i, j, S)
  BY SameText, <1>4 DEF Only
<1>8. \A i, j : Payloads(i, j)' = Payloads(i, j)
  BY SMT DEF Payloads, Is, PathsIn, PathFrom, Segments, Solid, BareMinus, Fragments, Fragment, StringFirst, LetterFirst,
         Decoded, InOrder, Counts, Means, Escaped, Only, Char, Hexes, Text, ReadsQuoted, Blank
<1>9. \A i, j : Text(i, j)' = Text(i, j)
  BY DEF Text
<1>10. /\ \A i : Triple(i)' <=> Triple(i)
       /\ \A i : Breaks(i)' <=> Breaks(i)
       /\ \A k : Hexes(k)' = Hexes(k)
  BY <1>7, <1>9 DEF Triple, Breaks, Hexes
<1>11. \A i, k : Escaped(i, k)' <=> Escaped(i, k)
  BY <1>4, <1>7 DEF Escaped
<1>12. /\ \A i, j : ReadsQuoted(i, j)' <=> ReadsQuoted(i, j)
       /\ \A i, j : ReadsTriple(i, j)' <=> ReadsTriple(i, j)
       /\ \A i, j : ReadsUnquoted(i, j)' <=> ReadsUnquoted(i, j)
  <2>1. \A i, j : ReadsQuoted(i, j)' <=> ReadsQuoted(i, j)
    BY <1>4, <1>10, <1>11 DEF ReadsQuoted
  <2>2. \A i, j : ReadsTriple(i, j)' <=> ReadsTriple(i, j)
    BY <1>4, <1>7, <1>10 DEF ReadsTriple
  <2>3. \A i, j : ReadsUnquoted(i, j)' <=> ReadsUnquoted(i, j)
    BY <1>4, <1>10 DEF ReadsUnquoted
  <2> QED
    BY <2>1, <2>2, <2>3
<1>13. \A i : Hopeless(i)' <=> Hopeless(i)
  BY <1>4, <1>8, <1>10, <1>12 DEF Hopeless
<1> QED
  BY <1>1, <1>2, <1>3, <1>4, <1>5, <1>6, <1>8, <1>9, <1>13

\* A position that is no member adds nothing.
LEMMA InOrderStays ==
    ASSUME ItsText, NEW S, NEW f, NEW i \in 1 .. Len(input) + 1, NEW k \in i .. Len(input), k \notin S
    PROVE  InOrder(S, f, i, k + 1) = InOrder(S, f, i, k)
  BY InOrderTurn

\* What is in no member of S adds nothing.
LEMMA InOrderSkips ==
    ASSUME ItsText, NEW S, NEW f, NEW i \in 1 .. Len(input) + 1, NEW p \in i .. Len(input) + 1,
           NEW j \in p .. Len(input) + 1, \A k \in p .. j - 1 : k \notin S
    PROVE  InOrder(S, f, i, j) = InOrder(S, f, i, p)
<1>1. \A k \in i .. Len(input) : k \notin S => InOrder(S, f, i, k + 1) = InOrder(S, f, i, k)
  BY InOrderStays
<1> DEFINE n == Len(input)
           u(k) == InOrder(S, f, i, k)
           Bad == {d \in 0 .. j - p : u(p + d) # u(p)}
<1>2. n \in Nat /\ \A k \in i .. n : k \notin S => u(k + 1) = u(k)
  BY <1>1, Chars
<1> HIDE DEF n, u
<1>3. n + 1 \in Nat /\ i \in 1 .. n + 1 /\ p \in i .. n + 1 /\ j \in p .. n + 1
  BY <1>2 DEF n
<1> SUFFICES ASSUME Bad # {} PROVE FALSE
  <2>1. j - p \in 0 .. j - p /\ p + (j - p) = j
    BY <1>2, <1>3
  <2>2. u(j) = u(p)
    <3>1. j - p \notin Bad
      OBVIOUS
    <3>2. u(p + (j - p)) = u(p)
      BY <2>1, <3>1
    <3> QED
      BY <2>1, <3>2
  <2> QED
    BY <2>2 DEF u
<1>4. Bad \in SUBSET Nat
  BY <1>3
<1>5. PICK d \in Bad : \A k \in Bad : d <= k
  BY <1>4, Least
<1>6. d \in 0 .. j - p /\ u(p + d) # u(p)
  BY <1>5
<1>7. d # 0
  <2>1. p + 0 = p
    BY <1>2, <1>3
  <2> QED
    BY <1>6, <2>1
<1>8. d - 1 \in 0 .. j - p /\ ~(d <= d - 1) /\ p + (d - 1) \in i .. n /\ p + (d - 1) \in p .. j - 1
      /\ p + (d - 1) + 1 = p + d
  BY <1>2, <1>3, <1>6, <1>7
<1>9. u(p + (d - 1)) = u(p)
  BY <1>5, <1>8
<1>10. p + (d - 1) \notin S
  BY <1>8
<1>11. u(p + (d - 1) + 1) = u(p + (d - 1))
  BY <1>2, <1>8, <1>10
<1> QED
  BY <1>6, <1>8, <1>9, <1>11

\* What After keeps.
LEMMA Afters ==
    ASSUME NEW X, NEW S \in SUBSET Seq(X)
    PROVE  /\ After(<<>>, S) = S
           /\ \A p : After(p, {}) = {}
           /\ \A p \in Seq(X) : After(p, S) \in SUBSET Seq(X) /\ After(p, {<<>>}) = {p}
<1>1. After(<<>>, S) = S
  <2>1. \A s \in S : <<>> \o s = s
    BY Joins
  <2> QED
    BY <2>1 DEF After
<1>2. \A p : After(p, {}) = {}
  BY DEF After
<1>3. ASSUME NEW p \in Seq(X) PROVE After(p, S) \in SUBSET Seq(X) /\ After(p, {<<>>}) = {p}
  <2>1. \A s \in S : p \o s \in Seq(X)
    BY Joins
  <2>2. p \o <<>> = p
    BY Joins
  <2> QED
    BY <2>1, <2>2 DEF After
<1> QED
  BY <1>1, <1>2, <1>3
\* What holds at a position when it holds at all later ones.
LEMMA Downward ==
    ASSUME NEW a \in Nat, NEW j \in Nat, NEW S,
           \A m \in a .. j : (\A k \in m + 1 .. j : k \in S) => m \in S
    PROVE  \A m \in a .. j : m \in S
<1> DEFINE Bad == {d \in 0 .. j - a : j - d \notin S}
<1> SUFFICES ASSUME NEW m \in a .. j, m \notin S PROVE FALSE
  OBVIOUS
<1>1. j - m \in Bad
  <2>1. j - m \in 0 .. j - a /\ j - (j - m) = m
    OBVIOUS
  <2> QED
    BY <2>1
<1>2. Bad \in SUBSET Nat
  OBVIOUS
<1>3. PICK d \in Bad : \A k \in Bad : d <= k
  BY <1>1, <1>2, Least
<1>4. d \in 0 .. j - a /\ j - d \notin S /\ j - d \in a .. j
  BY <1>3
<1>5. ASSUME NEW k \in j - d + 1 .. j PROVE k \in S
  <2>1. j - k \in 0 .. j - a /\ j - (j - k) = k /\ ~(d <= j - k)
    BY <1>4
  <2> QED
    BY <1>3, <2>1
<1> QED
  BY <1>4, <1>5

LEMMA Within ==
    ASSUME ItsText
    PROVE  Len(input) \in Nat /\ \A i \in 1 .. Len(input) + 1 : i \in Nat /\ 1 <= i /\ i <= Len(input) + 1
<1>1. Len(input) \in Nat
  BY Chars
<1> QED
  BY <1>1

\* The characters of the text are letters.
LEMMA ItsLetters ==
    ASSUME ItsText
    PROVE  \A i : Char(i) # "" => Char(i) \in Letters /\ <<Char(i)>> \in Seq(Letters)
<1>1. DOMAIN input = 1 .. Len(input) /\ input \in Seq(STRING)
  BY Chars, Zenon DEF ItsText
<1>2. \A k \in 1 .. Len(input) : input[k] \in STRING
  BY <1>1
<1>3. \A i : Char(i) # "" => Char(i) \in Letters
  BY <1>2, Chars DEF Char, Letters
<1>4. \A c \in Letters : <<c>> \in Seq(Letters)
  OBVIOUS
<1> QED
  BY <1>3, <1>4

\* All that can be read consists of letters.
LEMMA FragmentsHold ==
    ASSUME ItsText, NEW j \in 1 .. Len(input) + 1
    PROVE  \A i \in 1 .. j : Fragments(i, j) \in SUBSET Seq(Letters)
<1> DEFINE S == {m \in 1 .. j : Fragments(m, j) \in SUBSET Seq(Letters)}
<1>1. Len(input) \in Nat /\ j \in Nat
  BY Within
<1>2. <<>> \in Seq(Letters)
  OBVIOUS
<1>3. ASSUME NEW m \in 1 .. j, \A k \in m + 1 .. j : k \in S
      PROVE  Fragments(m, j) \in SUBSET Seq(Letters)
  <2>1. CASE m = j
    <3>1. Fragments(m, j) = {<<>>}
      BY <2>1, FragmentsAre
    <3> QED
      BY <1>2, <3>1
  <2>2. CASE m < j /\ Char(m) = Quote
    <3> DEFINE ends == {k \in m + 2 .. j : ReadsQuoted(m, k)}
    <3>1. Fragments(m, j) = UNION {After(Decoded(m, k), Fragments(k, j)) : k \in ends}
      BY <2>2, FragmentsAre
    <3>2. ASSUME NEW k \in ends PROVE After(Decoded(m, k), Fragments(k, j)) \in SUBSET Seq(Letters)
      <4>1. k \in Nat /\ k <= Len(input) + 1 /\ m \in 1 .. Len(input) /\ k \in m + 1 .. j
        BY <1>1, <2>2
      <4>2. Decoded(m, k) \in Seq(Letters)
        BY <4>1, StringRead
      <4>3. Fragments(k, j) \in SUBSET Seq(Letters)
        BY <1>3, <4>1
      <4> QED
        BY <4>2, <4>3, Afters
    <3> QED
      BY <3>1, <3>2
  <2>3. CASE m < j /\ (InSubst(Char(m)) \/ Blank(m))
    <3>1. Fragments(m, j) = After(<<Char(m)>>, Fragments(m + 1, j))
      BY <2>3, FragmentsAre
    <3>2. m \in 1 .. Len(input) /\ m + 1 \in m + 1 .. j
      BY <1>1, <2>3
    <3>3. <<Char(m)>> \in Seq(Letters)
      <4>1. Char(m) # ""
        BY <3>2, Chars
      <4> QED
        BY <4>1, ItsLetters
    <3>4. Fragments(m + 1, j) \in SUBSET Seq(Letters)
      BY <1>3, <3>2
    <3>5. After(<<Char(m)>>, Fragments(m + 1, j)) \in SUBSET Seq(Letters)
      BY <3>3, <3>4, Afters, Zenon
    <3> QED
      BY <3>1, <3>5
  <2>4. CASE m < j /\ Char(m) # Quote /\ ~InSubst(Char(m)) /\ ~Blank(m)
    <3>1. Fragments(m, j) = {}
      BY <2>4, FragmentsAre
    <3> QED
      BY <3>1
  <2>5. m = j \/ m < j
    BY <1>1
  <2> QED
    BY <2>1, <2>2, <2>3, <2>4, <2>5
<1>4. \A m \in 1 .. j : (\A k \in m + 1 .. j : k \in S) => m \in S
  BY <1>3
<1> HIDE DEF S
<1>5. \A m \in 1 .. j : m \in S
  BY <1>1, <1>4, Downward
<1> QED
  BY <1>5 DEF S

LEMMA SegmentsHold ==
    ASSUME ItsText, NEW i \in 1 .. Len(input) + 1, NEW j \in i .. Len(input) + 1
    PROVE  Segments(i, j) \in SUBSET Seq(Letters)
<1> DEFINE S == Solid(i, j)
           a == FirstOf(S)
           b == LastOf(S)
<1>1. Len(input) \in Nat
  BY Chars
<1>2. CASE S = {}
  BY <1>2 DEF Segments
<1>3. CASE S # {}
  <2>1. S \in SUBSET Nat /\ \A k \in S : k \in i .. j - 1
    BY <1>1 DEF Solid
  <2>2. a \in S
    <3>1. \E k \in S : \A l \in S : k <= l
      BY <1>3, <2>1, Least
    <3> HIDE DEF S
    <3> QED
      BY <3>1, Zenon DEF FirstOf
  <2>3. b \in S /\ \A k \in S : k <= b
    <3>1. S \in SUBSET (0 .. Len(input))
      BY <1>1, <2>1
    <3> HIDE DEF S
    <3> QED
      BY <1>1, <1>3, <3>1, LastIsGreatest
  <2>4. a \in 1 .. b + 1 /\ b + 1 \in 1 .. Len(input) + 1
    <3> HIDE DEF a, b
    <3>1. a \in i .. j - 1 /\ b \in i .. j - 1 /\ a <= b
      BY <2>1, <2>2, <2>3
    <3> QED
      BY <1>1, <3>1
  <2> HIDE DEF S
  <2>5. Fragments(a, b + 1) \in SUBSET Seq(Letters)
    BY <2>4, FragmentsHold
  <2>6. Segments(i, j) = {} \/ Segments(i, j) = Fragments(a, b + 1)
    BY DEF Segments, S
  <2> QED
    BY <2>5, <2>6
<1> QED
  BY <1>2, <1>3

LEMMA PathsHold ==
    ASSUME ItsText, NEW j \in 1 .. Len(input) + 1
    PROVE  \A i \in 1 .. j : PathsIn(i, j) \in SUBSET Seq(Seq(Letters))
<1> DEFINE S == {m \in 1 .. j : PathsIn(m, j) \in SUBSET Seq(Seq(Letters))}
<1>1. Len(input) \in Nat /\ j \in Nat
  BY Within
<1>2. ASSUME NEW m \in 1 .. j, \A k \in m + 1 .. j : k \in S
      PROVE  PathsIn(m, j) \in SUBSET Seq(Seq(Letters))
  <2> DEFINE cuts == {k \in m .. j - 1 : Char(k) = "."}
             whole == {<<s>> : s \in Segments(m, j)}
  <2>1. PathsIn(m, j) = whole \cup UNION {Onward(m, k, j) : k \in cuts}
    BY PathsAre
  <2>2. \A s \in Seq(Letters) : <<s>> \in Seq(Seq(Letters))
    OBVIOUS
  <2>3. whole \in SUBSET Seq(Seq(Letters))
    <3>1. Segments(m, j) \in SUBSET Seq(Letters)
      BY <1>1, SegmentsHold
    <3> QED
      BY <2>2, <3>1
  <2>4. ASSUME NEW k \in cuts PROVE Onward(m, k, j) \in SUBSET Seq(Seq(Letters))
    <3>1. k + 1 \in m + 1 .. j /\ m \in 1 .. Len(input) + 1 /\ k \in m .. Len(input) + 1
      BY <1>1
    <3>2. Segments(m, k) \in SUBSET Seq(Letters)
      BY <3>1, SegmentsHold
    <3>3. PathsIn(k + 1, j) \in SUBSET Seq(Seq(Letters))
      BY <1>2, <3>1
    <3>4. \A s \in Segments(m, k) : After(<<s>>, PathsIn(k + 1, j)) \in SUBSET Seq(Seq(Letters))
      BY <2>2, <3>2, <3>3, Afters
    <3> QED
      BY <3>4 DEF Onward
  <2> HIDE DEF cuts, whole
  <2> QED
    BY <2>1, <2>3, <2>4
<1>3. \A m \in 1 .. j : (\A k \in m + 1 .. j : k \in S) => m \in S
  BY <1>2
<1> HIDE DEF S
<1>4. \A m \in 1 .. j : m \in S
  BY <1>1, <1>3, Downward
<1> QED
  BY <1>4 DEF S

LEMMA SeqGrows ==
    ASSUME NEW A, NEW B, A \subseteq B, NEW s \in Seq(A)
    PROVE  s \in Seq(B)
  OBVIOUS

LEMMA AfterTwice ==
    ASSUME NEW X, NEW S \in SUBSET Seq(X), NEW p \in Seq(X), NEW q \in Seq(X)
    PROVE  After(p, After(q, S)) = After(p \o q, S)
<1>1. \A s \in S : p \o (q \o s) = (p \o q) \o s
  BY Joins
<1>2. After(p, After(q, S)) = {p \o (q \o s) : s \in S}
  BY DEF After
<1>3. {p \o (q \o s) : s \in S} = {(p \o q) \o s : s \in S}
  BY <1>1
<1> QED
  BY <1>2, <1>3 DEF After

\* One after another, for what a path holds and for paths.
LEMMA AfterAfter == \A S \in SUBSET Seq(Letters) : \A p \in Seq(Letters) : \A q \in Seq(Letters) :
                       After(p, After(q, S)) = After(p \o q, S)
<1> SUFFICES ASSUME NEW S \in SUBSET Seq(Letters), NEW p \in Seq(Letters), NEW q \in Seq(Letters)
             PROVE  After(p, After(q, S)) = After(p \o q, S)
  OBVIOUS
<1> QED
  BY AfterTwice

LEMMA PathAfterPath == \A S \in SUBSET Seq(Seq(Letters)) : \A p \in Seq(Seq(Letters)) : \A q \in Seq(Seq(Letters)) :
                       After(p, After(q, S)) = After(p \o q, S)
<1> SUFFICES ASSUME NEW S \in SUBSET Seq(Seq(Letters)), NEW p \in Seq(Seq(Letters)), NEW q \in Seq(Seq(Letters))
             PROVE  After(p, After(q, S)) = After(p \o q, S)
  OBVIOUS
<1> QED
  BY AfterTwice

\* Text, from the front and from the end.
LEMMA Extracts ==
    ASSUME NEW S, NEW s \in Seq(S), NEW i \in 1 .. Len(s) + 1
    PROVE  /\ SubSeq(s, i, i - 1) = <<>>
           /\ i <= Len(s) => \A j \in i + 1 .. Len(s) + 1 :
                 SubSeq(s, i, j - 1) = <<s[i]>> \o SubSeq(s, i + 1, j - 1)
           /\ \A j \in i .. Len(s) : SubSeq(s, i, j + 1 - 1) = Append(SubSeq(s, i, j - 1), s[j])
<1>1. Len(s) \in Nat
  OBVIOUS
<1>2. SubSeq(s, i, i - 1) = <<>>
  OBVIOUS
<1>3. ASSUME i <= Len(s), NEW j \in i + 1 .. Len(s) + 1
      PROVE  SubSeq(s, i, j - 1) = <<s[i]>> \o SubSeq(s, i + 1, j - 1)
  BY <1>3
<1>4. ASSUME NEW j \in i .. Len(s) PROVE SubSeq(s, i, j + 1 - 1) = Append(SubSeq(s, i, j - 1), s[j])
  OBVIOUS
<1> QED
  BY <1>2, <1>3, <1>4

LEMMA TextSplits ==
    ASSUME ItsText, NEW i \in 1 .. Len(input) + 1
    PROVE  /\ Text(i, i) = <<>>
           /\ i <= Len(input) => \A j \in i + 1 .. Len(input) + 1 : Text(i, j) = <<Char(i)>> \o Text(i + 1, j)
           /\ \A j \in i .. Len(input) : Text(i, j + 1) = Append(Text(i, j), Char(j))
           /\ \A j \in i .. Len(input) + 1 : Text(i, j) \in Seq(Letters)
<1>1. Len(input) \in Nat
  BY Chars
<1>2. input \in Seq(STRING)
  BY DEF ItsText
<1>3. \A k \in 1 .. Len(input) : Char(k) = input[k]
  BY Chars
<1>4. /\ SubSeq(input, i, i - 1) = <<>>
      /\ i <= Len(input) => \A j \in i + 1 .. Len(input) + 1 :
            SubSeq(input, i, j - 1) = <<input[i]>> \o SubSeq(input, i + 1, j - 1)
      /\ \A j \in i .. Len(input) : SubSeq(input, i, j + 1 - 1) = Append(SubSeq(input, i, j - 1), input[j])
  BY <1>2, Extracts, Zenon
<1>5. i <= Len(input) => Char(i) = input[i]
  BY <1>1, <1>3
<1>6. \A j \in i .. Len(input) : Char(j) = input[j]
  BY <1>1, <1>3
<1>7. \A j \in i .. Len(input) + 1 : Text(i, j) \in Seq(Letters)
  <2> TAKE j \in i .. Len(input) + 1
  <2>1. Text(i, j) \in Seq(STRING)
    BY Excerpt
  <2>2. \A s : s \in Seq(STRING) => s \in Seq(Letters)
    <3>1. STRING \subseteq Letters
      BY DEF Letters
    <3> QED
      BY <3>1, SeqGrows
  <2> QED
    BY <2>1, <2>2
<1>8. Text(i, i) = <<>>
  BY <1>4 DEF Text
<1>9. ASSUME i <= Len(input), NEW j \in i + 1 .. Len(input) + 1 PROVE Text(i, j) = <<Char(i)>> \o Text(i + 1, j)
  BY <1>4, <1>5, <1>9, Zenon DEF Text
<1>10. ASSUME NEW j \in i .. Len(input) PROVE Text(i, j + 1) = Append(Text(i, j), Char(j))
  BY <1>4, <1>6 DEF Text
<1> QED
  BY <1>7, <1>8, <1>9, <1>10

\* A stretch of characters of a segment is read as it stands.
LEMMA FragmentsOver ==
    ASSUME ItsText, NEW p \in 1 .. Len(input) + 1, NEW e \in p .. Len(input) + 1,
           \A m \in p .. e - 1 : InSubst(Char(m)) \/ Blank(m), NEW k \in e .. Len(input) + 1
    PROVE  Fragments(p, k) = After(Text(p, e), Fragments(e, k))
<1> DEFINE S == {m \in p .. e : Fragments(m, k) = After(Text(m, e), Fragments(e, k))}
<1>1. Len(input) \in Nat /\ p \in Nat /\ e \in Nat /\ e \in 1 .. k /\ k \in 1 .. Len(input) + 1 /\ e \in 1 .. Len(input) + 1
  BY Within
<1>2. Fragments(e, k) \in SUBSET Seq(Letters)
  BY <1>1, FragmentsHold
<1>3. ASSUME NEW m \in p .. e, \A l \in m + 1 .. e : l \in S
      PROVE  m \in S
  <2>1. CASE m = e
    <3>1. Text(e, e) = <<>>
      BY <1>1, TextSplits
    <3>2. After(<<>>, Fragments(e, k)) = Fragments(e, k)
      BY <1>2, Afters
    <3> QED
      BY <2>1, <3>1, <3>2
  <2>2. CASE m # e
    <3>1. m \in p .. e - 1 /\ m \in 1 .. k /\ m < k /\ m + 1 \in m + 1 .. e /\ m \in 1 .. Len(input)
          /\ e \in m + 1 .. Len(input) + 1 /\ m + 1 \in 1 .. Len(input) + 1 /\ e \in m + 1 .. Len(input) + 1
          /\ m \in 1 .. Len(input) + 1 /\ m <= Len(input)
      BY <1>1, <2>2
    <3>2. Fragments(m, k) = After(<<Char(m)>>, Fragments(m + 1, k))
      BY <1>1, <3>1, FragmentsAre
    <3>3. Fragments(m + 1, k) = After(Text(m + 1, e), Fragments(e, k))
      BY <1>3, <3>1
    <3>4. Text(m, e) = <<Char(m)>> \o Text(m + 1, e) /\ Text(m + 1, e) \in Seq(Letters)
      BY <3>1, TextSplits
    <3>5. <<Char(m)>> \in Seq(Letters)
      BY <3>1, Chars, ItsLetters
    <3>6. After(<<Char(m)>>, After(Text(m + 1, e), Fragments(e, k))) = After(<<Char(m)>> \o Text(m + 1, e), Fragments(e, k))
      BY <1>2, <3>4, <3>5, AfterAfter
    <3> QED
      BY <3>2, <3>3, <3>4, <3>6
  <2> QED
    BY <2>1, <2>2
<1> HIDE DEF S
<1>4. \A m \in p .. e : m \in S
  BY <1>1, <1>3, Downward
<1>5. p \in S
  BY <1>1, <1>4
<1> QED
  BY <1>5 DEF S

\* And a string as what it stands for.
LEMMA QuotedOver ==
    ASSUME ItsText, NEW p \in 1 .. Len(input), NEW e \in Nat, e <= Len(input) + 1, ReadsQuoted(p, e)
    PROVE  /\ \A k \in e .. Len(input) + 1 : Fragments(p, k) = After(Decoded(p, e), Fragments(e, k))
           /\ \A k \in p + 1 .. e - 1 : Fragments(p, k) = {}
<1>1. Len(input) \in Nat
  BY Chars
<1>2. Char(p) = Quote /\ e - p >= 2
  BY DEF ReadsQuoted
<1>3. \A d \in Nat : ReadsQuoted(p, d) => d = e
  BY OneEnd
<1>4. ASSUME NEW k \in p + 1 .. Len(input) + 1
      PROVE  Fragments(p, k) = UNION {After(Decoded(p, d), Fragments(d, k)) : d \in {d \in p + 2 .. k : ReadsQuoted(p, d)}}
  <2>1. p \in 1 .. k /\ k \in 1 .. Len(input) + 1 /\ p < k
    BY <1>1
  <2> QED
    BY <1>2, <2>1, FragmentsAre
<1>5. ASSUME NEW k \in e .. Len(input) + 1 PROVE Fragments(p, k) = After(Decoded(p, e), Fragments(e, k))
  <2> DEFINE ends == {d \in p + 2 .. k : ReadsQuoted(p, d)}
  <2>1. k \in p + 1 .. Len(input) + 1
    BY <1>1, <1>2
  <2>2. e \in p + 2 .. k
    BY <1>1, <1>2
  <2>3. \A d \in p + 2 .. k : d \in Nat
    BY <1>1
  <2>4. ends = {e}
    BY <1>3, <2>2, <2>3
  <2>5. Fragments(p, k) = UNION {After(Decoded(p, d), Fragments(d, k)) : d \in ends}
    BY <1>4, <2>1
  <2> HIDE DEF ends
  <2>6. {After(Decoded(p, d), Fragments(d, k)) : d \in ends} = {After(Decoded(p, e), Fragments(e, k))}
    BY <2>4
  <2> QED
    BY <2>5, <2>6
<1>6. ASSUME NEW k \in p + 1 .. e - 1 PROVE Fragments(p, k) = {}
  <2> DEFINE ends == {d \in p + 2 .. k : ReadsQuoted(p, d)}
  <2>1. k \in p + 1 .. Len(input) + 1
    BY <1>1, <1>2
  <2>2. \A d \in p + 2 .. k : d \in Nat /\ d # e
    BY <1>1
  <2>3. ends = {}
    BY <1>3, <2>2
  <2>4. Fragments(p, k) = UNION {After(Decoded(p, d), Fragments(d, k)) : d \in ends}
    BY <1>4, <2>1
  <2> HIDE DEF ends
  <2> QED
    BY <2>3, <2>4
<1> QED
  BY <1>5, <1>6

\* Nothing is read where no character of a segment and no string begins.
LEMMA NothingOver ==
    ASSUME ItsText, NEW p \in 1 .. Len(input), NEW k \in p + 1 .. Len(input) + 1,
           \/ Char(p) # Quote /\ ~InSubst(Char(p)) /\ ~Blank(p)
           \/ Char(p) = Quote /\ \A e \in Nat : e <= Len(input) + 1 => ~ReadsQuoted(p, e)
    PROVE  Fragments(p, k) = {}
<1>1. Len(input) \in Nat
  BY Chars
<1>2. p \in 1 .. k /\ k \in 1 .. Len(input) + 1 /\ p < k
  BY <1>1
<1>3. CASE Char(p) # Quote /\ ~InSubst(Char(p)) /\ ~Blank(p)
  BY <1>2, <1>3, FragmentsAre
<1>4. CASE Char(p) = Quote /\ \A e \in Nat : e <= Len(input) + 1 => ~ReadsQuoted(p, e)
  <2> DEFINE ends == {d \in p + 2 .. k : ReadsQuoted(p, d)}
  <2>1. Fragments(p, k) = UNION {After(Decoded(p, d), Fragments(d, k)) : d \in ends}
    BY <1>2, <1>4, FragmentsAre
  <2>2. \A d \in p + 2 .. k : d \in Nat /\ d <= Len(input) + 1
    BY <1>1
  <2>3. ends = {}
    BY <1>4, <2>2
  <2> HIDE DEF ends
  <2> QED
    BY <2>1, <2>3
<1> QED
  BY <1>3, <1>4
(* ------------------------ segments and paths ------------------------ *)
\* Blanks are no segment.
LEMMA NoSegment ==
    ASSUME NEW s, NEW k, \A m \in s .. k - 1 : Blank(m)
    PROVE  Segments(s, k) = {}
<1>1. Solid(s, k) = {}
  BY DEF Solid
<1> QED
  BY <1>1 DEF Segments

\* A segment is what stands from the first to the last character that is no blank.
LEMMA SegmentIs ==
    ASSUME ItsText, NEW s \in 1 .. Len(input) + 1, NEW k \in s .. Len(input) + 1,
           NEW a \in s .. k - 1, ~Blank(a), \A m \in s .. a - 1 : Blank(m),
           NEW b \in a + 1 .. k, ~Blank(b - 1), \A m \in b .. k - 1 : Blank(m)
    PROVE  /\ BareMinus(a) => Segments(s, k) = {}
           /\ ~BareMinus(a) => Segments(s, k) = Fragments(a, b)
<1> DEFINE S == Solid(s, k)
<1>1. Len(input) \in Nat
  BY Chars
<1>2. /\ S \in SUBSET (0 .. Len(input)) /\ a \in S /\ b - 1 \in S
      /\ \A m \in S : m \in Int /\ a <= m /\ m <= b - 1
  <2>1. S \in SUBSET (s .. k - 1) /\ \A m \in S : ~Blank(m)
    BY DEF Solid
  <2>2. a \in S /\ b - 1 \in S
    BY <1>1 DEF Solid
  <2>3. ASSUME NEW m \in S PROVE m \in Int /\ a <= m /\ m <= b - 1
    <3>1. m \in s .. k - 1 /\ ~Blank(m)
      BY <2>1
    <3>2. m \notin s .. a - 1 /\ m \notin b .. k - 1
      BY <3>1
    <3> QED
      BY <1>1, <3>1, <3>2
  <2>4. S \in SUBSET (0 .. Len(input))
    BY <1>1, <2>1
  <2> QED
    BY <2>2, <2>3, <2>4
<1> HIDE DEF S
<1>3. LastOf(S) = b - 1
  <2>1. S # {} /\ Len(input) \in Nat
    BY <1>1, <1>2
  <2>2. \A m \in S : (\A l \in S : l <= m) => m = LastOf(S)
    BY <1>2, <2>1, LastIsGreatest
  <2> QED
    BY <1>2, <2>2
<1>4. FirstOf(S) = a
  <2> DEFINE c == FirstOf(S)
  <2>1. c \in S /\ \A l \in S : c <= l
    BY <1>2, Zenon DEF FirstOf
  <2> HIDE DEF c
  <2>2. c <= a /\ a <= c /\ c \in Int /\ a \in Int
    BY <1>2, <2>1
  <2>3. c = a
    BY <2>2
  <2> QED
    BY <2>3 DEF c
<1>5. Segments(s, k) = IF S = {} \/ BareMinus(a) THEN {} ELSE Fragments(a, b - 1 + 1)
  BY <1>3, <1>4 DEF Segments, S
<1>6. b - 1 + 1 = b /\ S # {}
  BY <1>1, <1>2
<1> QED
  BY <1>5, <1>6

\* With a character that is no blank at p, it goes on after p.
LEMMA SegmentTo ==
    ASSUME ItsText, NEW s \in 1 .. Len(input) + 1, NEW p \in s .. Len(input), ~Blank(p),
           NEW k \in p + 1 .. Len(input) + 1, NEW a \in s .. p, ~Blank(a), \A m \in s .. a - 1 : Blank(m)
    PROVE  \E b \in p + 1 .. k : /\ BareMinus(a) => Segments(s, k) = {}
                                 /\ ~BareMinus(a) => Segments(s, k) = Fragments(a, b)
<1> DEFINE S == {m \in p .. k - 1 : ~Blank(m)}
           l == LastOf(S)
<1>1. Len(input) \in Nat
  BY Chars
<1>2. S \in SUBSET (0 .. Len(input)) /\ p \in S
  BY <1>1
<1>3. l \in S /\ \A m \in S : m <= l
  <2> HIDE DEF S
  <2>1. S # {}
    BY <1>2
  <2> QED
    BY <1>1, <1>2, <2>1, LastIsGreatest
<1> HIDE DEF l
<1>4. l \in p .. k - 1 /\ ~Blank(l)
  BY <1>3
<1>5. \A m \in l + 1 .. k - 1 : Blank(m)
  <2>1. ASSUME NEW m \in l + 1 .. k - 1 PROVE Blank(m)
    <3>1. m \in p .. k - 1 /\ ~(m <= l)
      BY <1>1, <1>4
    <3>2. m \notin S
      BY <1>3, <3>1
    <3> QED
      BY <3>1, <3>2
  <2> QED
    BY <2>1
<1> DEFINE b == l + 1
<1>6. b \in p + 1 .. k /\ b \in a + 1 .. k /\ b - 1 = l /\ a \in s .. k - 1 /\ k \in s .. Len(input) + 1
  BY <1>1, <1>4
<1>7. \A m \in b .. k - 1 : Blank(m)
  BY <1>5
<1>8. ~Blank(b - 1)
  BY <1>4, <1>6
<1> HIDE DEF b
<1>9. /\ BareMinus(a) => Segments(s, k) = {}
      /\ ~BareMinus(a) => Segments(s, k) = Fragments(a, b)
  BY <1>6, <1>7, <1>8, SegmentIs
<1> QED
  BY <1>6, <1>9

\* A path of one segment, and one that goes on after the only period that ends one.
LEMMA OnePath ==
    ASSUME ItsText, NEW s \in 1 .. Len(input) + 1, NEW j \in s .. Len(input) + 1,
           \A k \in s .. j - 1 : Char(k) = "." => Segments(s, k) = {}
    PROVE  PathsIn(s, j) = {<<x>> : x \in Segments(s, j)}
<1> DEFINE cuts == {k \in s .. j - 1 : Char(k) = "."}
           whole == {<<x>> : x \in Segments(s, j)}
<1>1. PathsIn(s, j) = whole \cup UNION {Onward(s, k, j) : k \in cuts}
  <2>1. s \in 1 .. j /\ j \in 1 .. Len(input) + 1
    BY Within
  <2> QED
    BY <2>1, PathsAre
<1>2. \A k \in cuts : Onward(s, k, j) = {}
  BY DEF Onward
<1> HIDE DEF cuts, whole
<1>3. PathsIn(s, j) = whole
  BY <1>1, <1>2
<1> QED
  BY <1>3 DEF whole

\* A path with a period in it is the segment before and the path after.
LEMMA PathOnward ==
    ASSUME ItsText, NEW s \in 1 .. Len(input) + 1, NEW j \in s .. Len(input) + 1, Segments(s, j) = {},
           NEW p \in s .. j - 1, Char(p) = ".", NEW text, Segments(s, p) = {text},
           \A k \in s .. j - 1 : k # p /\ Char(k) = "." => Segments(s, k) = {}
    PROVE  PathsIn(s, j) = After(<<text>>, PathsIn(p + 1, j))
<1> DEFINE cuts == {k \in s .. j - 1 : Char(k) = "."}
           whole == {<<x>> : x \in Segments(s, j)}
<1>1. PathsIn(s, j) = whole \cup UNION {Onward(s, k, j) : k \in cuts}
  <2>1. s \in 1 .. j /\ j \in 1 .. Len(input) + 1
    BY Within
  <2> QED
    BY <2>1, PathsAre
<1>2. \A k \in cuts : k # p => Onward(s, k, j) = {}
  BY DEF Onward
<1>3. Onward(s, p, j) = After(<<text>>, PathsIn(p + 1, j))
  BY DEF Onward
<1>4. p \in cuts /\ whole = {}
  OBVIOUS
<1> HIDE DEF cuts, whole
<1>5. UNION {Onward(s, k, j) : k \in cuts} = Onward(s, p, j)
  BY <1>2, <1>4
<1> QED
  BY <1>1, <1>3, <1>4, <1>5
\* What a path can stop at.
Closers == {"}", "["}
\* The segments segs read from b to s are the only way to read that stretch of a
\* path, none can end before s, and no segment that begins at s before p.
FixedAt(b, segs, s, p) ==
    /\ \A j \in s .. Len(input) + 1 : PathsIn(b, j) = After(segs, PathsIn(s, j))
    /\ \A k \in b .. s - 1 : Char(k) \in Closers => PathsIn(b, k) = {}
    /\ \A k \in s .. p - 1 : Char(k) \in Closers \cup {"."} => Segments(s, k) = {}
\* From a on, up to b only x can be read.
Carries(a, b, x) == \A k \in b .. Len(input) + 1 : Fragments(a, k) = After(x, Fragments(b, k))
\* A segment in progress: text is what it holds up to its last character that is
\* no blank, and pending the blanks from there to p.
BegunAt(s, p, text, pending) ==
    \E a \in s .. p - 1 : \E b \in a + 1 .. p :
        /\ \A k \in s .. a - 1 : Blank(k)
        /\ ~Blank(a) /\ ~BareMinus(a)
        /\ Char(b - 1) = Quote \/ InSubst(Char(b - 1))
        /\ \A k \in b .. p - 1 : Blank(k)
        /\ pending = Text(b, p)
        /\ Carries(a, b, text)
NotBegunAt(s, p, text) == text = <<>> /\ \A k \in s .. p - 1 : Blank(k)
PathFits(b, p, segs, text, started, pending) ==
    /\ segs \in Seq(Seq(Letters)) /\ text \in Seq(Letters)
    /\ \E s \in b .. p : /\ FixedAt(b, segs, s, p)
                         /\ started => BegunAt(s, p, text, pending)
                         /\ ~started => NotBegunAt(s, p, text)

\* What is read in two parts.
LEMMA CarryOn ==
    ASSUME ItsText, NEW p \in 1 .. Len(input) + 1, NEW e \in p .. Len(input) + 1, NEW a,
           NEW u \in Seq(Letters), NEW x \in Seq(Letters), Carries(a, p, u), Carries(p, e, x)
    PROVE  Carries(a, e, u \o x)
<1>1. Len(input) \in Nat
  BY Chars
<1>2. ASSUME NEW k \in e .. Len(input) + 1 PROVE Fragments(a, k) = After(u \o x, Fragments(e, k))
  <2>1. k \in p .. Len(input) + 1 /\ e \in 1 .. k /\ k \in 1 .. Len(input) + 1
    BY <1>1
  <2>2. Fragments(a, k) = After(u, After(x, Fragments(e, k)))
    BY <2>1 DEF Carries
  <2>3. Fragments(e, k) \in SUBSET Seq(Letters)
    BY <2>1, FragmentsHold
  <2> QED
    BY <2>2, <2>3, AfterAfter
<1> QED
  BY <1>2 DEF Carries

\* What a segment in progress can go on with.
LEMMA BegunGoesOn ==
    ASSUME ItsText, NEW p \in 1 .. Len(input) + 1, NEW s \in 1 .. p, NEW text \in Seq(Letters), NEW pending,
           BegunAt(s, p, text, pending)
    PROVE  /\ pending \in Seq(Letters)
           /\ \E a \in s .. p - 1 :
                 /\ \A k \in s .. a - 1 : Blank(k)
                 /\ ~Blank(a) /\ ~BareMinus(a)
                 /\ Carries(a, p, text \o pending)
<1>0. PICK a \in s .. p - 1 : \E b \in a + 1 .. p :
        /\ \A k \in s .. a - 1 : Blank(k)
        /\ ~Blank(a) /\ ~BareMinus(a)
        /\ \A k \in b .. p - 1 : Blank(k)
        /\ pending = Text(b, p)
        /\ Carries(a, b, text)
  BY DEF BegunAt
<1>1. PICK b \in a + 1 .. p :
        /\ \A k \in s .. a - 1 : Blank(k)
        /\ ~Blank(a) /\ ~BareMinus(a)
        /\ \A k \in b .. p - 1 : Blank(k)
        /\ pending = Text(b, p)
        /\ Carries(a, b, text)
  BY <1>0
<1>2. Len(input) \in Nat
  BY Chars
<1>3. b \in 1 .. Len(input) + 1 /\ p \in b .. Len(input) + 1
  BY <1>2
<1>4. pending \in Seq(Letters)
  BY <1>1, <1>3, TextSplits
<1>5. Carries(b, p, pending)
  BY <1>1, <1>3, FragmentsOver DEF Carries
<1>6. Carries(a, p, text \o pending)
  <2>1. a \in 1 .. b
    BY <1>2
  <2> QED
    BY <1>1, <1>3, <1>4, <1>5, <2>1, CarryOn
<1> QED
  BY <1>1, <1>4, <1>6

\* It ends here, as what it holds.
LEMMA SegmentEnds ==
    ASSUME ItsText, NEW p \in 1 .. Len(input) + 1, NEW s \in 1 .. p, NEW text \in Seq(Letters), NEW pending,
           BegunAt(s, p, text, pending)
    PROVE  Segments(s, p) = {text}
<1>0. PICK a \in s .. p - 1 : \E b \in a + 1 .. p :
        /\ \A k \in s .. a - 1 : Blank(k)
        /\ ~Blank(a) /\ ~BareMinus(a)
        /\ Char(b - 1) = Quote \/ InSubst(Char(b - 1))
        /\ \A k \in b .. p - 1 : Blank(k)
        /\ Carries(a, b, text)
  BY DEF BegunAt
<1>1. PICK b \in a + 1 .. p :
        /\ \A k \in s .. a - 1 : Blank(k)
        /\ ~Blank(a) /\ ~BareMinus(a)
        /\ Char(b - 1) = Quote \/ InSubst(Char(b - 1))
        /\ \A k \in b .. p - 1 : Blank(k)
        /\ Carries(a, b, text)
  BY <1>0
<1>2. Len(input) \in Nat
  BY Chars
<1>3. b \in 1 .. Len(input) + 1 /\ b \in b .. Len(input) + 1 /\ s \in 1 .. Len(input) + 1 /\ p \in s .. Len(input) + 1
  BY <1>2
<1>4. ~Blank(b - 1)
  BY <1>1 DEF Blank, InSubst, Whitespace, Quote, Newline
<1>5. Segments(s, p) = Fragments(a, b)
  BY <1>1, <1>3, <1>4, SegmentIs
<1>6. Fragments(b, b) = {<<>>}
  <2>1. b \in 1 .. b
    BY <1>2, <1>3
  <2> QED
    BY <1>3, <2>1, FragmentsAre
<1>7. Fragments(a, b) = After(text, {<<>>})
  BY <1>1, <1>3, <1>6 DEF Carries
<1>8. After(text, {<<>>}) = {text}
  <2>1. {<<>>} \in SUBSET Seq(Letters)
    OBVIOUS
  <2> QED
    BY <2>1, Afters
<1> QED
  BY <1>5, <1>7, <1>8

\* No segment goes on over p where nothing is read, or a minus begins it.
LEMMA NoneHere ==
    ASSUME ItsText, NEW p \in 1 .. Len(input), NEW s \in 1 .. p, NEW text \in Seq(Letters), NEW pending, NEW started,
           started => BegunAt(s, p, text, pending), ~started => NotBegunAt(s, p, text),
           ~Blank(p), NEW k \in p + 1 .. Len(input) + 1,
           (\A m \in p + 1 .. k : Fragments(p, m) = {}) \/ (~started /\ BareMinus(p))
    PROVE  Segments(s, k) = {}
<1>1. Len(input) \in Nat
  BY Chars
<1>2. p \in 1 .. Len(input) + 1 /\ s \in 1 .. Len(input) + 1 /\ p \in s .. Len(input) /\ p \in s .. p
      /\ \A a \in s .. p - 1 : a \in s .. p
  BY <1>1
<1>3. CASE ~started
  <2>1. \A m \in s .. p - 1 : Blank(m)
    BY <1>3 DEF NotBegunAt
  <2>2. PICK e \in p + 1 .. k : /\ BareMinus(p) => Segments(s, k) = {}
                                /\ ~BareMinus(p) => Segments(s, k) = Fragments(p, e)
    BY <1>2, <2>1, SegmentTo
  <2> QED
    BY <2>2
<1>4. CASE started
  <2>1. PICK a \in s .. p - 1 :
                 /\ \A m \in s .. a - 1 : Blank(m)
                 /\ ~Blank(a) /\ ~BareMinus(a)
                 /\ Carries(a, p, text \o pending)
    BY <1>2, <1>4, BegunGoesOn
  <2>2. PICK e \in p + 1 .. k : Segments(s, k) = Fragments(a, e)
    BY <1>2, <2>1, SegmentTo
  <2>3. e \in p .. Len(input) + 1
    BY <1>1
  <2>4. Segments(s, k) = After(text \o pending, {})
    BY <1>4, <2>1, <2>2, <2>3 DEF Carries
  <2> QED
    BY <2>4 DEF After
<1> QED
  BY <1>3, <1>4

\* At its beginning a path may go on with anything.
LEMMA PathBegins ==
    ASSUME ItsText, NEW b \in 1 .. Len(input) + 1, NEW pending
    PROVE  PathFits(b, b, <<>>, <<>>, FALSE, pending)
<1>0. Len(input) \in Nat
  BY Chars
<1>1. Len(input) \in Nat /\ b \in b .. b
  BY <1>0
<1>2. \A j \in b .. Len(input) + 1 : PathsIn(b, j) = After(<<>>, PathsIn(b, j))
  <2>1. ASSUME NEW j \in b .. Len(input) + 1 PROVE PathsIn(b, j) = After(<<>>, PathsIn(b, j))
    <3>1. b \in 1 .. j /\ j \in 1 .. Len(input) + 1
      BY <1>1
    <3>2. PathsIn(b, j) \in SUBSET Seq(Seq(Letters))
      BY <3>1, PathsHold
    <3> QED
      BY <3>2, Afters
  <2> QED
    BY <2>1
<1>3. FixedAt(b, <<>>, b, b)
  BY <1>1, <1>2 DEF FixedAt
<1>4. NotBegunAt(b, b, <<>>)
  BY <1>1 DEF NotBegunAt
<1> QED
  BY <1>1, <1>3, <1>4 DEF PathFits

\* What a segment holds when x goes on it, after the blanks or as its first piece.
LEMMA FirstPiece ==
    ASSUME ItsText, NEW p \in 1 .. Len(input), NEW s \in 1 .. p, NEW e \in p + 1 .. Len(input) + 1,
           NEW x \in Seq(Letters), NEW a \in s .. p, \A k \in s .. a - 1 : Blank(k), ~Blank(a), ~BareMinus(a),
           Char(e - 1) = Quote \/ InSubst(Char(e - 1)),
           Carries(a, e, x)
    PROVE  BegunAt(s, e, x, <<>>)
<1>1. Len(input) \in Nat
  BY Chars
<1>2. a \in s .. e - 1 /\ e \in a + 1 .. e /\ (\A k \in e .. e - 1 : Blank(k)) /\ e \in 1 .. Len(input) + 1
  BY <1>1
<1>3. Text(e, e) = <<>>
  BY <1>2, TextSplits
<1> QED
  BY <1>2, <1>3 DEF BegunAt

\* A piece goes on a segment in progress, with the blanks before it.
LEMMA NextPiece ==
    ASSUME ItsText, NEW p \in 1 .. Len(input), NEW s \in 1 .. p, NEW e \in p + 1 .. Len(input) + 1,
           NEW text \in Seq(Letters), NEW pending, BegunAt(s, p, text, pending), NEW x \in Seq(Letters),
           Char(e - 1) = Quote \/ InSubst(Char(e - 1)),
           Carries(p, e, x)
    PROVE  (text \o pending) \o x \in Seq(Letters) /\ BegunAt(s, e, (text \o pending) \o x, <<>>)
<1>1. Len(input) \in Nat
  BY Chars
<1>2. p \in 1 .. Len(input) + 1
  BY <1>1
<1>3. /\ pending \in Seq(Letters)
      /\ \E a \in s .. p - 1 :
                 /\ \A k \in s .. a - 1 : Blank(k)
                 /\ ~Blank(a) /\ ~BareMinus(a)
                 /\ Carries(a, p, text \o pending)
  BY <1>2, BegunGoesOn
<1>4. PICK a \in s .. p - 1 : /\ \A k \in s .. a - 1 : Blank(k)
                             /\ ~Blank(a) /\ ~BareMinus(a)
                             /\ Carries(a, p, text \o pending)
  BY <1>3
<1>5. text \o pending \in Seq(Letters)
  BY <1>3, Joins
<1>6. (text \o pending) \o x \in Seq(Letters)
  BY <1>5, Joins
<1>7. a \in s .. p /\ e \in p .. Len(input) + 1
  BY <1>1
<1>8. Carries(a, e, (text \o pending) \o x)
  BY <1>2, <1>5, <1>7, <1>4, CarryOn
<1>9. BegunAt(s, e, (text \o pending) \o x, <<>>)
  BY <1>4, <1>6, <1>7, <1>8, FirstPiece
<1> QED
  BY <1>6, <1>9

\* A word or a string, x, goes on the segment.
LEMMA PieceGoes ==
    ASSUME ItsText, NEW b \in 1 .. Len(input), NEW p \in b .. Len(input), NEW e \in p + 1 .. Len(input) + 1,
           NEW segs, NEW text, NEW started, NEW pending, PathFits(b, p, segs, text, started, pending),
           NEW x \in Seq(Letters), NEW spoken, started => spoken = text \o pending, ~started => spoken = text,
           ~Blank(p), ~started => ~BareMinus(p), Char(p) \notin Closers \cup {"."},
           Char(e - 1) = Quote \/ InSubst(Char(e - 1)),
           Carries(p, e, x),
           \A k \in p + 1 .. e - 1 : Char(k) \in Closers \cup {"."} => \A m \in p + 1 .. k : Fragments(p, m) = {}
    PROVE  PathFits(b, e, segs, spoken \o x, TRUE, <<>>)
<1>1. Len(input) \in Nat
  BY Chars
<1>2. PICK s \in b .. p : /\ FixedAt(b, segs, s, p)
                          /\ started => BegunAt(s, p, text, pending)
                          /\ ~started => NotBegunAt(s, p, text)
  BY DEF PathFits
<1>3. segs \in Seq(Seq(Letters)) /\ text \in Seq(Letters)
  BY DEF PathFits
<1>4. /\ p \in 1 .. Len(input) + 1 /\ s \in 1 .. p /\ s \in b .. e /\ p \in 1 .. Len(input) /\ e \in p + 1 .. e
      /\ e \in 1 .. Len(input) + 1
  BY <1>1
<1>5. FixedAt(b, segs, s, e)
  <2>1. ASSUME NEW k \in s .. e - 1, Char(k) \in Closers \cup {"."} PROVE Segments(s, k) = {}
    <3>1. CASE k \in s .. p - 1
      BY <1>2, <2>1, <3>1 DEF FixedAt
    <3>2. CASE k \in p + 1 .. e - 1
      <4>1. k \in p + 1 .. Len(input) + 1
        BY <1>1, <3>2
      <4>2. \A m \in p + 1 .. k : Fragments(p, m) = {}
        BY <2>1, <3>2
      <4> QED
        BY <1>2, <1>3, <1>4, <4>1, <4>2, NoneHere
    <3>3. k # p
      BY <2>1
    <3> QED
      BY <1>1, <1>4, <3>1, <3>2, <3>3
  <2> QED
    BY <1>2, <2>1 DEF FixedAt
<1>6. spoken \o x \in Seq(Letters) /\ BegunAt(s, e, spoken \o x, <<>>)
  <2>1. CASE started
    <3>1. BegunAt(s, p, text, pending)
      BY <1>2, <2>1
    <3>2. (text \o pending) \o x \in Seq(Letters) /\ BegunAt(s, e, (text \o pending) \o x, <<>>)
      BY <1>3, <1>4, <3>1, NextPiece
    <3> QED
      BY <2>1, <3>2
  <2>2. CASE ~started
    <3>1. spoken = <<>> /\ \A k \in s .. p - 1 : Blank(k)
      BY <1>2, <2>2 DEF NotBegunAt
    <3>2. spoken \o x = x
      BY <3>1, Joins
    <3>3. p \in s .. p
      BY <1>4
    <3>4. BegunAt(s, e, x, <<>>)
      BY <1>4, <2>2, <3>1, <3>3, FirstPiece
    <3> QED
      BY <3>2, <3>4
  <2> QED
    BY <2>1, <2>2
<1> QED
  BY <1>3, <1>4, <1>5, <1>6 DEF PathFits

\* A blank is kept for what may come after it.
LEMMA BlankGoes ==
    ASSUME ItsText, NEW b \in 1 .. Len(input), NEW p \in b .. Len(input),
           NEW segs, NEW text, NEW started, NEW pending, PathFits(b, p, segs, text, started, pending), Blank(p)
    PROVE  PathFits(b, p + 1, segs, text, started, Append(pending, Char(p)))
<1>1. Len(input) \in Nat
  BY Chars
<1>2. PICK s \in b .. p : /\ FixedAt(b, segs, s, p)
                          /\ started => BegunAt(s, p, text, pending)
                          /\ ~started => NotBegunAt(s, p, text)
  BY DEF PathFits
<1>3. s \in b .. p + 1 /\ p \in Nat
  BY <1>1
<1>4. FixedAt(b, segs, s, p + 1)
  <2>1. Char(p) \notin Closers \cup {"."}
    BY DEF Blank, Closers, Whitespace
  <2>2. \A k \in s .. p + 1 - 1 : k = p \/ k \in s .. p - 1
    BY <1>1
  <2> QED
    BY <1>2, <2>1, <2>2 DEF FixedAt
<1>5. ~started => NotBegunAt(s, p + 1, text)
  <2>1. \A k \in s .. p + 1 - 1 : k = p \/ k \in s .. p - 1
    BY <1>1
  <2> QED
    BY <1>2, <2>1 DEF NotBegunAt
<1>6. ASSUME started PROVE BegunAt(s, p + 1, text, Append(pending, Char(p)))
  <2>1. PICK a \in s .. p - 1 : \E c \in a + 1 .. p :
        /\ \A k \in s .. a - 1 : Blank(k)
        /\ ~Blank(a) /\ ~BareMinus(a)
        /\ Char(c - 1) = Quote \/ InSubst(Char(c - 1))
        /\ \A k \in c .. p - 1 : Blank(k)
        /\ pending = Text(c, p)
        /\ Carries(a, c, text)
    BY <1>2, <1>6 DEF BegunAt
  <2>2. PICK c \in a + 1 .. p :
        /\ \A k \in s .. a - 1 : Blank(k)
        /\ ~Blank(a) /\ ~BareMinus(a)
        /\ Char(c - 1) = Quote \/ InSubst(Char(c - 1))
        /\ \A k \in c .. p - 1 : Blank(k)
        /\ pending = Text(c, p)
        /\ Carries(a, c, text)
    BY <2>1
  <2>3. a \in s .. p + 1 - 1 /\ c \in a + 1 .. p + 1 /\ c \in 1 .. Len(input) + 1 /\ p \in c .. Len(input)
    BY <1>1
  <2>4. \A k \in c .. p + 1 - 1 : Blank(k)
    <3>1. \A k \in c .. p + 1 - 1 : k = p \/ k \in c .. p - 1
      BY <1>1
    <3> QED
      BY <2>2, <3>1
  <2>5. Append(pending, Char(p)) = Text(c, p + 1)
    BY <2>2, <2>3, TextSplits
  <2> QED
    BY <2>2, <2>3, <2>4, <2>5 DEF BegunAt
<1> QED
  BY <1>2, <1>3, <1>4, <1>5, <1>6 DEF PathFits
\* A period, a closing brace or a bracket is no part of a segment.
LEMMA StopsReading ==
    ASSUME ItsText, NEW p \in 1 .. Len(input), Char(p) \in Closers \cup {"."}
    PROVE  ~Blank(p) /\ \A k \in p + 1 .. Len(input) + 1 : Fragments(p, k) = {}
<1>1. ~Blank(p) /\ Char(p) # Quote /\ ~InSubst(Char(p))
  BY DEF Closers, Blank, Whitespace, Quote, InSubst, Forbidden, Newline
<1> QED
  BY <1>1, NothingOver

\* The paths that end at p, and nowhere between s and p.
LEMMA EndsOnce ==
    ASSUME ItsText, NEW b \in 1 .. Len(input) + 1, NEW s \in b .. Len(input) + 1, NEW p \in s .. Len(input) + 1,
           NEW segs, FixedAt(b, segs, s, p)
    PROVE  /\ \A k \in b .. p - 1 : Char(k) \in Closers => PathsIn(b, k) = {}
           /\ Segments(s, p) = {} => PathsIn(b, p) = {}
           /\ PathsIn(b, p) = After(segs, {<<x>> : x \in Segments(s, p)})
<1>1. Len(input) \in Nat
  BY Chars
<1>2. ASSUME NEW k \in s .. p PROVE PathsIn(b, k) = After(segs, {<<x>> : x \in Segments(s, k)})
  <2>1. k \in s .. Len(input) + 1 /\ s \in 1 .. Len(input) + 1
    BY <1>1
  <2>2. \A m \in s .. k - 1 : Char(m) = "." => Segments(s, m) = {}
    <3>1. \A m \in s .. k - 1 : m \in s .. p - 1
      BY <1>1
    <3> QED
      BY <3>1 DEF FixedAt
  <2>3. PathsIn(s, k) = {<<x>> : x \in Segments(s, k)}
    BY <2>1, <2>2, OnePath
  <2> QED
    BY <2>1, <2>3 DEF FixedAt
<1>3. \A k \in s .. p : Segments(s, k) = {} => PathsIn(b, k) = {}
  BY <1>2 DEF After
<1>4. ASSUME NEW k \in b .. p - 1, Char(k) \in Closers PROVE PathsIn(b, k) = {}
  <2>1. CASE k \in b .. s - 1
    BY <1>4, <2>1 DEF FixedAt
  <2>2. CASE k \in s .. p - 1
    <3>1. k \in s .. p
      BY <1>1, <2>2
    <3>2. Segments(s, k) = {}
      BY <1>4, <2>2 DEF FixedAt
    <3> QED
      BY <1>3, <3>1, <3>2
  <2> QED
    BY <1>1, <2>1, <2>2
<1>5. p \in s .. p
  BY <1>1
<1> QED
  BY <1>2, <1>3, <1>4, <1>5

\* A path with a segment in progress, and one at the beginning of a segment.
PathBegun(b, p, segs, text, pending) == PathFits(b, p, segs, text, TRUE, pending)
PathIdle(b, p, segs, text, pending)  == PathFits(b, p, segs, text, FALSE, pending)
\* It ends here, with the segment in progress or with none.
LEMMA BegunEnds ==
    ASSUME ItsText, NEW b \in 1 .. Len(input) + 1, NEW p \in b .. Len(input) + 1,
           NEW segs, NEW text, NEW pending, PathBegun(b, p, segs, text, pending)
    PROVE  PathsIn(b, p) = {Append(segs, text)}
<1>1. Len(input) \in Nat
  BY Chars
<1>2. PICK s \in b .. p : FixedAt(b, segs, s, p) /\ BegunAt(s, p, text, pending)
  BY DEF PathBegun, PathFits
<1>3. segs \in Seq(Seq(Letters)) /\ text \in Seq(Letters)
  BY DEF PathBegun, PathFits
<1>4. p \in 1 .. Len(input) + 1 /\ s \in 1 .. p /\ s \in b .. Len(input) + 1 /\ p \in s .. Len(input) + 1
  BY <1>1
<1>5. PathsIn(b, p) = After(segs, {<<x>> : x \in Segments(s, p)})
  BY <1>2, <1>4, EndsOnce
<1>6. Segments(s, p) = {text}
  BY <1>2, <1>3, <1>4, SegmentEnds
<1>7. {<<x>> : x \in Segments(s, p)} = {<<text>>}
  BY <1>6
<1>8. After(segs, {<<text>>}) = {segs \o <<text>>}
  BY DEF After
<1>9. Append(segs, text) = segs \o <<text>>
  BY <1>3, Joins
<1> QED
  BY <1>5, <1>7, <1>8, <1>9

\* A path whose last segment has not begun is none.
LEMMA NotBegunEnds ==
    ASSUME ItsText, NEW b \in 1 .. Len(input) + 1, NEW p \in b .. Len(input) + 1,
           NEW segs, NEW text, NEW pending, PathIdle(b, p, segs, text, pending)
    PROVE  PathsIn(b, p) = {}
<1>1. Len(input) \in Nat
  BY Chars
<1>2. PICK s \in b .. p : FixedAt(b, segs, s, p) /\ NotBegunAt(s, p, text)
  BY DEF PathIdle, PathFits
<1>3. s \in b .. Len(input) + 1 /\ p \in s .. Len(input) + 1
  BY <1>1
<1>4. Segments(s, p) = {}
  BY <1>2, NoSegment DEF NotBegunAt
<1> QED
  BY <1>2, <1>3, <1>4, EndsOnce

\* After a period the next segment begins.
LEMMA DotGoes ==
    ASSUME ItsText, NEW b \in 1 .. Len(input), NEW p \in b .. Len(input), Char(p) = ".",
           NEW segs, NEW text, NEW pending, PathFits(b, p, segs, text, TRUE, pending), NEW blank
    PROVE  PathFits(b, p + 1, Append(segs, text), <<>>, FALSE, blank)
<1>1. Len(input) \in Nat
  BY Chars
<1>2. PICK s \in b .. p : FixedAt(b, segs, s, p) /\ BegunAt(s, p, text, pending)
  BY DEF PathFits
<1>3. segs \in Seq(Seq(Letters)) /\ text \in Seq(Letters)
  BY DEF PathFits
<1>4. /\ p \in 1 .. Len(input) + 1 /\ s \in 1 .. p /\ s \in b .. Len(input) + 1 /\ p \in s .. Len(input) + 1
      /\ p \in 1 .. Len(input) /\ b \in 1 .. Len(input) + 1
  BY <1>1
<1>5. /\ ~Blank(p) /\ \A k \in p + 1 .. Len(input) + 1 : Fragments(p, k) = {}
  BY <1>4, StopsReading
<1>6. Segments(s, p) = {text}
  BY <1>2, <1>3, <1>4, SegmentEnds
<1>7. ASSUME NEW k \in p + 1 .. Len(input) + 1 PROVE Segments(s, k) = {}
  <2>1. \A m \in p + 1 .. k : Fragments(p, m) = {}
    <3>1. \A m \in p + 1 .. k : m \in p + 1 .. Len(input) + 1
      BY <1>1
    <3> QED
      BY <1>5, <3>1
  <2> QED
    BY <1>2, <1>3, <1>4, <1>5, <2>1, NoneHere
<1>8. ASSUME NEW j \in p + 1 .. Len(input) + 1
      PROVE  PathsIn(b, j) = After(Append(segs, text), PathsIn(p + 1, j))
  <2>1. /\ s \in 1 .. Len(input) + 1 /\ j \in s .. Len(input) + 1 /\ p \in s .. j - 1
        /\ j \in 1 .. Len(input) + 1 /\ p + 1 \in 1 .. j
    BY <1>1
  <2>2. PathsIn(b, j) = After(segs, PathsIn(s, j))
    BY <1>2, <2>1 DEF FixedAt
  <2>3. ASSUME NEW k \in s .. j - 1, k # p, Char(k) = "." PROVE Segments(s, k) = {}
    <3>1. CASE k \in s .. p - 1
      BY <1>2, <2>3, <3>1 DEF FixedAt
    <3>2. CASE k \in p + 1 .. j - 1
      <4>1. k \in p + 1 .. Len(input) + 1
        BY <1>1, <3>2
      <4> QED
        BY <1>7, <4>1
    <3> QED
      BY <1>1, <2>3, <3>1, <3>2
  <2>4. PathsIn(s, j) = After(<<text>>, PathsIn(p + 1, j))
    <3>1. Segments(s, j) = {}
      BY <1>7
    <3>2. \A k \in s .. j - 1 : k # p /\ Char(k) = "." => Segments(s, k) = {}
      BY <2>3
    <3> QED
      BY <1>6, <2>1, <3>1, <3>2, PathOnward
  <2>5. PathsIn(p + 1, j) \in SUBSET Seq(Seq(Letters))
    BY <2>1, PathsHold
  <2>6. <<text>> \in Seq(Seq(Letters)) /\ Append(segs, text) = segs \o <<text>>
    BY <1>3, Joins
  <2> DEFINE last == <<text>>
             after == PathsIn(p + 1, j)
  <2>7. /\ PathsIn(b, j) = After(segs, After(last, after)) /\ last \in Seq(Seq(Letters))
        /\ after \in SUBSET Seq(Seq(Letters)) /\ Append(segs, text) = segs \o last
    BY <2>2, <2>4, <2>5, <2>6
  <2> HIDE DEF last, after
  <2>8. After(segs, After(last, after)) = After(segs \o last, after)
    BY <1>3, <2>7, PathAfterPath
  <2> QED
    BY <2>7, <2>8 DEF after
<1>9. FixedAt(b, Append(segs, text), p + 1, p + 1)
  <2>1. ASSUME NEW k \in b .. p + 1 - 1, Char(k) \in Closers PROVE PathsIn(b, k) = {}
    <3>1. k # p
      BY <2>1 DEF Closers
    <3>2. k \in b .. p - 1
      BY <1>1, <3>1
    <3> QED
      BY <1>2, <1>4, <2>1, <3>2, EndsOnce
  <2>2. \A k \in p + 1 .. p + 1 - 1 : FALSE
    BY <1>1
  <2> QED
    BY <1>8, <2>1, <2>2 DEF FixedAt
<1>10. NotBegunAt(p + 1, p + 1, <<>>)
  BY <1>1 DEF NotBegunAt
<1>11. Append(segs, text) \in Seq(Seq(Letters)) /\ <<>> \in Seq(Letters) /\ p + 1 \in b .. p + 1
  BY <1>1, <1>3
<1> QED
  BY <1>9, <1>10, <1>11 DEF PathFits

\* Where neither a segment goes on nor the path ends, it ends nowhere else.
LEMMA PathStops ==
    ASSUME ItsText, NEW b \in 1 .. Len(input) + 1, NEW p \in b .. Len(input) + 1,
           NEW segs, NEW text, NEW started, NEW pending, PathFits(b, p, segs, text, started, pending),
           Char(p) = "." => ~started, p <= Len(input) => ~Blank(p),
           p <= Len(input) => \/ \A m \in p + 1 .. Len(input) + 1 : Fragments(p, m) = {}
                              \/ ~started /\ BareMinus(p)
    PROVE  \A k \in b .. Len(input) : Char(k) \in Closers /\ k # p => PathsIn(b, k) = {}
<1>1. Len(input) \in Nat
  BY Chars
<1>2. PICK s \in b .. p : /\ FixedAt(b, segs, s, p)
                          /\ started => BegunAt(s, p, text, pending)
                          /\ ~started => NotBegunAt(s, p, text)
  BY DEF PathFits
<1>3. segs \in Seq(Seq(Letters)) /\ text \in Seq(Letters)
  BY DEF PathFits
<1>4. p \in 1 .. Len(input) + 1 /\ s \in 1 .. p /\ s \in b .. Len(input) + 1 /\ p \in s .. Len(input) + 1
  BY <1>1
<1>5. ASSUME NEW k \in p + 1 .. Len(input) + 1 PROVE Segments(s, k) = {}
  <2>1. p <= Len(input) /\ p \in 1 .. Len(input)
    BY <1>1
  <2>2. (\A m \in p + 1 .. k : Fragments(p, m) = {}) \/ (~started /\ BareMinus(p))
    <3>1. \A m \in p + 1 .. k : m \in p + 1 .. Len(input) + 1
      BY <1>1
    <3> QED
      BY <2>1, <3>1
  <2>3. ~Blank(p)
    BY <2>1
  <2> QED
    BY <1>2, <1>3, <1>4, <2>1, <2>2, <2>3, NoneHere
<1>6. ASSUME NEW k \in b .. Len(input), Char(k) \in Closers, k # p PROVE PathsIn(b, k) = {}
  <2>1. CASE k \in b .. p - 1
    BY <1>2, <1>4, <1>6, <2>1, EndsOnce
  <2>2. CASE k \in p + 1 .. Len(input)
    <3>1. k \in p + 1 .. Len(input) + 1 /\ k \in s .. Len(input) + 1 /\ s \in 1 .. Len(input) + 1
      BY <1>1, <2>2
    <3>2. ASSUME NEW m \in s .. k - 1, Char(m) = "." PROVE Segments(s, m) = {}
      <4>1. CASE m \in s .. p - 1
        BY <1>2, <3>2, <4>1 DEF FixedAt
      <4>2. CASE m = p
        BY <1>2, <3>2, <4>2, NoSegment DEF NotBegunAt
      <4>3. CASE m \in p + 1 .. k - 1
        <5>1. m \in p + 1 .. Len(input) + 1
          BY <1>1, <4>3
        <5> QED
          BY <1>5, <5>1
      <4> QED
        BY <1>1, <1>4, <4>1, <4>2, <4>3
    <3>3. PathsIn(s, k) = {<<x>> : x \in Segments(s, k)}
      BY <3>1, <3>2, OnePath
    <3>4. PathsIn(s, k) = {}
      BY <1>5, <3>1, <3>3
    <3>5. PathsIn(b, k) = After(segs, {})
      BY <1>2, <3>1, <3>4 DEF FixedAt
    <3> QED
      BY <3>5 DEF After
  <2> QED
    BY <1>1, <1>6, <2>1, <2>2
<1> QED
  BY <1>6
(* ---------------------------- the payload --------------------------- *)
Brace(k)    == Char(k) = "}"
Bracket(k)  == Char(k) = "["
Narrow      == {" ", "\t"}
\* A blank other than a space or a tab, with nothing but blanks from it to k.
Wide(m, k) == Blank(m) /\ Char(m) \notin Narrow /\ Only(m, k, Whitespace)
\* Where the path of the substitution at d begins.
BeginsPath(d) == IF Char(d + 2) = "?" THEN d + 3 ELSE d + 2
Dollar(d)     == Is(d, <<"$", "{">>)
Bracketed(k)  == Is(k, <<"[", "]", "}">>)

\* The blanks kept since the last character of the path are those that stand there.
LEMMA PendingIs ==
    ASSUME ItsText, NEW p \in 1 .. Len(input) + 1, NEW s \in 1 .. p, NEW b \in 1 .. s,
           NEW text, NEW pending, BegunAt(s, p, text, pending)
    PROVE  /\ s < p /\ Char(p - 1) # "]"
           /\ (\A i \in DOMAIN pending : pending[i] \in Narrow) => \A m \in b .. p - 1 : ~Wide(m, p)
           /\ \A i \in DOMAIN pending : pending[i] \notin Narrow => \E m \in b .. p - 1 : Wide(m, p)
<1>0. PICK a \in s .. p - 1 : \E c \in a + 1 .. p :
        /\ Char(c - 1) = Quote \/ InSubst(Char(c - 1))
        /\ \A k \in c .. p - 1 : Blank(k)
        /\ pending = Text(c, p)
  BY DEF BegunAt
<1>1. PICK c \in a + 1 .. p :
        /\ Char(c - 1) = Quote \/ InSubst(Char(c - 1))
        /\ \A k \in c .. p - 1 : Blank(k)
        /\ pending = Text(c, p)
  BY <1>0
<1>2. Len(input) \in Nat
  BY Chars
<1>3. c \in 1 .. Len(input) + 1 /\ p \in c .. Len(input) + 1 /\ c \in Int /\ p \in Int /\ c - 1 >= b
  BY <1>2
<1>4. Char(c - 1) \notin Whitespace /\ Char(c - 1) # "]"
  BY <1>1 DEF InSubst, Whitespace, Forbidden, Quote, Newline
<1>5. pending \in Seq(STRING) /\ Len(pending) = p - c /\ \A k \in 1 .. p - c : pending[k] = Char(c + k - 1)
  BY <1>1, <1>3, Excerpt
<1>6. DOMAIN pending = 1 .. p - c
  BY <1>5
<1>7. Char(p - 1) # "]"
  <2>1. CASE p = c
    BY <1>4, <2>1
  <2>2. CASE p # c
    <3>1. p - 1 \in c .. p - 1
      BY <1>3, <2>2
    <3> QED
      BY <1>1, <3>1 DEF Blank, Whitespace, Newline
  <2> QED
    BY <2>1, <2>2
<1>8. ASSUME NEW m \in b .. p - 1, Wide(m, p), \A i \in DOMAIN pending : pending[i] \in Narrow PROVE FALSE
  <2>1. m >= c
    <3>1. c - 1 \notin m .. p - 1
      BY <1>4, <1>8 DEF Wide, Only
    <3> QED
      BY <1>2, <1>3, <3>1
  <2>2. m - c + 1 \in 1 .. p - c /\ c + (m - c + 1) - 1 = m
    BY <1>2, <1>3, <2>1
  <2>3. pending[m - c + 1] = Char(m)
    BY <1>5, <2>2
  <2> QED
    BY <1>6, <1>8, <2>2, <2>3 DEF Wide
<1>9. ASSUME NEW i \in DOMAIN pending, pending[i] \notin Narrow PROVE \E m \in b .. p - 1 : Wide(m, p)
  <2> DEFINE m == c + i - 1
  <2>1. i \in 1 .. p - c
    BY <1>6
  <2>2. m \in c .. p - 1 /\ m \in b .. p - 1 /\ Char(m) = pending[i]
    BY <1>2, <1>3, <1>5, <2>1
  <2> HIDE DEF m
  <2>3. \A k \in m .. p - 1 : k \in c .. p - 1
    BY <1>3, <2>2
  <2>4. Only(m, p, Whitespace)
    BY <1>1, <2>3 DEF Only, Blank
  <2>5. Blank(m)
    BY <1>1, <2>2
  <2>6. Wide(m, p)
    BY <1>9, <2>2, <2>4, <2>5 DEF Wide
  <2> QED
    BY <2>2, <2>6
<1>10. s < p
  BY <1>2
<1> QED
  BY <1>7, <1>8, <1>9, <1>10

\* The readings of a substitution, by where its path ends.
LEMMA PayloadsAre ==
    ASSUME NEW d \in Nat, NEW j \in Nat, NEW b \in Nat, b = BeginsPath(d)
    PROVE  /\ Bracketed(j - 3) /\ b < j - 3 /\ Dollar(d) /\ (\A m \in b .. j - 4 : ~Wide(m, j - 3)) =>
                 Payloads(d, j) = {[segments |-> s, optional |-> (Char(d + 2) = "?"), list |-> TRUE] : s \in PathsIn(b, j - 3)}
           /\ Bracketed(j - 3) /\ (\E m \in b .. j - 4 : Wide(m, j - 3)) => Payloads(d, j) = {}
           /\ ~Bracketed(j - 3) /\ b < j - 1 /\ Dollar(d) /\ Brace(j - 1) =>
                 Payloads(d, j) = {[segments |-> s, optional |-> (Char(d + 2) = "?"), list |-> FALSE] : s \in PathsIn(b, j - 1)}
           /\ ~Bracketed(j - 3) /\ ~(b < j - 1 /\ Brace(j - 1)) => Payloads(d, j) = {}
           /\ Bracketed(j - 3) /\ ~(b < j - 3) => Payloads(d, j) = {}
<1> DEFINE opt   == Char(d + 2) = "?"
           list  == Is(j - 3, <<"[", "]", "}">>)
           last  == IF list THEN j - 3 ELSE j - 1
           first == IF opt THEN d + 3 ELSE d + 2
           Those(i, l, k) == {[segments |-> s, optional |-> opt, list |-> l] : s \in PathsIn(i, k)}
           Fit(i, l, k)   == /\ Dollar(d) /\ Brace(j - 1) /\ i < k
                             /\ ~(l /\ \E m \in i .. k - 1 : Wide(m, k))
<1>1. Payloads(d, j) = IF Fit(first, list, last) THEN Those(first, list, last) ELSE {}
  BY Zenon DEF Payloads, Wide, Dollar, Brace, Narrow
<1>2. first = b
  BY DEF BeginsPath
<1>3. CASE Bracketed(j - 3)
  <2>1. Is(j - 3, <<"[", "]", "}">>)
    BY <1>3 DEF Bracketed
  <2>2. Brace(j - 1)
    <3>1. j - 3 \in Int /\ j - 3 + 2 = j - 1
      OBVIOUS
    <3> QED
      BY <2>1, <3>1, BeginsAt DEF Brace
  <2>3. j - 3 - 1 = j - 4
    OBVIOUS
  <2>4. list = TRUE /\ last = j - 3
    BY <2>1
  <2>5. Payloads(d, j) = IF Fit(b, TRUE, j - 3) THEN Those(b, TRUE, j - 3) ELSE {}
    <3> HIDE DEF list, last, first, Those, Fit
    <3> QED
      BY <1>1, <1>2, <2>4
  <2> QED
    BY <1>3, <2>2, <2>3, <2>5
<1>4. CASE ~Bracketed(j - 3)
  <2>1. list = FALSE /\ last = j - 1
    <3>1. ~Is(j - 3, <<"[", "]", "}">>)
      BY <1>4 DEF Bracketed
    <3>2. Is(j - 3, <<"[", "]", "}">>) \in BOOLEAN
      BY DEF Is
    <3> QED
      BY <3>1, <3>2
  <2>2. Payloads(d, j) = IF Fit(b, FALSE, j - 1) THEN Those(b, FALSE, j - 1) ELSE {}
    <3> HIDE DEF list, last, first, Those, Fit
    <3> QED
      BY <1>1, <1>2, <2>1
  <2> QED
    BY <1>4, <2>2
<1> QED
  BY <1>3, <1>4
\* The path of the substitution that begins at d begins at b.
Heads(d, b) == Dollar(d) /\ b = BeginsPath(d)

LEMMA BracketedIs ==
    ASSUME NEW k \in Int, Bracketed(k)
    PROVE  Bracket(k) /\ Char(k + 1) = "]" /\ Brace(k + 2)
  BY BeginsAt, Zenon DEF Bracketed, Bracket, Brace

\* The closing brace ends the only reading there is.
LEMMA EndReads ==
    ASSUME ItsText, NEW d \in Nat, NEW b \in Nat, Heads(d, b),
           NEW p \in b .. Len(input), Brace(p),
           NEW segs, NEW text, NEW pending, PathBegun(b, p, segs, text, pending)
    PROVE  Payloads(d, p + 1) = {[segments |-> Append(segs, text), optional |-> (Char(d + 2) = "?"), list |-> FALSE]}
<1>1. Len(input) \in Nat
  BY Chars
<1>2. PICK s \in b .. p : BegunAt(s, p, text, pending)
  BY DEF PathBegun, PathFits
<1>3. /\ b \in 1 .. Len(input) + 1 /\ p \in b .. Len(input) + 1 /\ p \in 1 .. Len(input) + 1
      /\ s \in 1 .. p /\ b \in 1 .. s /\ d \in Nat /\ p \in Int
  BY <1>1 DEF BeginsPath, Heads
<1>4. PathsIn(b, p) = {Append(segs, text)}
  <2>1. b \in 1 .. Len(input) + 1
    BY <1>3
  <2>2. p \in b .. Len(input) + 1
    BY <1>3
  <2> QED
    BY <2>1, <2>2, BegunEnds
<1>5. s < p /\ Char(p - 1) # "]"
  BY <1>2, <1>3, PendingIs
<1>6. p + 1 - 3 \in Int /\ p + 1 - 3 + 1 = p - 1 /\ p + 1 - 1 = p /\ p + 1 \in Nat /\ b < p
  BY <1>1, <1>3, <1>5
<1>7. ~Bracketed(p + 1 - 3)
  <2>1. Bracketed(p + 1 - 3) => Char(p + 1 - 3 + 1) = "]"
    BY <1>6, BracketedIs
  <2> QED
    BY <1>5, <1>6, <2>1
<1>8. Payloads(d, p + 1) = {[segments |-> x, optional |-> (Char(d + 2) = "?"), list |-> FALSE] : x \in PathsIn(b, p)}
  <2>1. Brace(p + 1 - 1) /\ b < p + 1 - 1 /\ Dollar(d) /\ b = BeginsPath(d)
    BY <1>6 DEF Heads
  <2>2. Payloads(d, p + 1) = {[segments |-> x, optional |-> (Char(d + 2) = "?"), list |-> FALSE] : x \in PathsIn(b, p + 1 - 1)}
    BY <1>3, <1>6, <1>7, <2>1, PayloadsAre
  <2> QED
    BY <1>6, <2>2
<1> QED
  BY <1>4, <1>8

\* And the suffix [].
LEMMA ListReads ==
    ASSUME ItsText, NEW d \in Nat, NEW b \in Nat, Heads(d, b),
           NEW p \in b .. Len(input), Bracketed(p),
           NEW segs, NEW text, NEW pending, PathBegun(b, p, segs, text, pending),
           \A i \in DOMAIN pending : pending[i] \in Narrow
    PROVE  Payloads(d, p + 3) = {[segments |-> Append(segs, text), optional |-> (Char(d + 2) = "?"), list |-> TRUE]}
<1>1. Len(input) \in Nat
  BY Chars
<1>2. PICK s \in b .. p : BegunAt(s, p, text, pending)
  BY DEF PathBegun, PathFits
<1>3. /\ b \in 1 .. Len(input) + 1 /\ p \in b .. Len(input) + 1 /\ p \in 1 .. Len(input) + 1
      /\ s \in 1 .. p /\ b \in 1 .. s /\ d \in Nat /\ p \in Int
  BY <1>1 DEF BeginsPath, Heads
<1>4. PathsIn(b, p) = {Append(segs, text)}
  <2>1. b \in 1 .. Len(input) + 1
    BY <1>3
  <2>2. p \in b .. Len(input) + 1
    BY <1>3
  <2> QED
    BY <2>1, <2>2, BegunEnds
<1>5. s < p /\ \A m \in b .. p - 1 : ~Wide(m, p)
  BY <1>2, <1>3, PendingIs
<1>6. p + 3 - 3 = p /\ p + 3 - 4 = p - 1 /\ p + 3 \in Nat /\ b < p
  BY <1>1, <1>3, <1>5
<1>7. Payloads(d, p + 3) = {[segments |-> x, optional |-> (Char(d + 2) = "?"), list |-> TRUE] : x \in PathsIn(b, p)}
  <2> DEFINE j == p + 3
  <2>1. Bracketed(j - 3) /\ b < j - 3 /\ Dollar(d) /\ b = BeginsPath(d) /\ j \in Nat /\ j - 3 = p
    BY <1>6 DEF Heads
  <2>2. \A m \in b .. j - 4 : ~Wide(m, j - 3)
    BY <1>5, <1>6
  <2> HIDE DEF j
  <2>3. Payloads(d, j) = {[segments |-> x, optional |-> (Char(d + 2) = "?"), list |-> TRUE] : x \in PathsIn(b, j - 3)}
    BY <1>3, <2>1, <2>2, PayloadsAre
  <2> QED
    BY <2>1, <2>3 DEF j
<1> QED
  BY <1>4, <1>7

\* Where the path cannot go on, the whole substitution has no reading.
LEMMA NothingRead ==
    ASSUME ItsText, NEW d \in Nat, NEW b \in Nat, Heads(d, b),
           NEW p \in b .. Len(input) + 1,
           NEW segs, NEW text, NEW started, NEW pending, PathFits(b, p, segs, text, started, pending),
           Char(p) = "." \/ Brace(p) => ~started,
           Bracket(p) => ~started \/ ~Bracketed(p) \/ \E i \in DOMAIN pending : pending[i] \notin Narrow,
           p <= Len(input) => ~Blank(p),
           p <= Len(input) => \/ \A m \in p + 1 .. Len(input) + 1 : Fragments(p, m) = {}
                              \/ ~started /\ BareMinus(p)
    PROVE  Hopeless(d)
<1>1. Len(input) \in Nat
  BY Chars
<1>2. b \in 1 .. Len(input) + 1 /\ p \in 1 .. Len(input) + 1 /\ d \in Nat
  BY <1>1 DEF BeginsPath, Heads
<1>3. \A k \in b .. Len(input) : Char(k) \in Closers /\ k # p => PathsIn(b, k) = {}
  BY <1>2, PathStops
<1>4. ASSUME ~started PROVE PathsIn(b, p) = {}
  <2>1. PathIdle(b, p, segs, text, pending)
    BY <1>4 DEF PathIdle, PathFits
  <2> QED
    BY <1>2, <2>1, NotBegunEnds
<1>5. ASSUME started, Bracket(p), Bracketed(p), b < p PROVE \E m \in b .. p - 1 : Wide(m, p)
  <2>1. PICK s \in b .. p : BegunAt(s, p, text, pending)
    BY <1>5 DEF PathFits
  <2>2. s \in 1 .. p /\ b \in 1 .. s
    BY <1>1, <1>2
  <2>3. PICK i \in DOMAIN pending : pending[i] \notin Narrow
    BY <1>5
  <2> QED
    BY <1>2, <2>1, <2>2, <2>3, PendingIs
<1>6. ASSUME NEW j \in d + 1 .. Len(input) + 1 PROVE Payloads(d, j) = {}
  <2>0. j \in Nat /\ j - 3 \in Int /\ j - 3 - 1 = j - 4
    BY <1>1
  <2>1. CASE Bracketed(j - 3) /\ b < j - 3 /\ \A m \in b .. j - 4 : ~Wide(m, j - 3)
    <3> DEFINE k == j - 3
    <3>1. Bracket(k)
      BY <2>0, <2>1, BeginsAt DEF Bracketed, Bracket
    <3>2. k \in b .. Len(input)
      BY <1>1, <1>2, <2>0, <2>1
    <3>3. PathsIn(b, k) = {}
      <4>1. CASE k # p
        BY <1>3, <3>1, <3>2, <4>1 DEF Closers, Brace, Bracket
      <4>2. CASE k = p
        BY <1>4, <1>5, <2>0, <2>1, <3>1, <4>2
      <4> QED
        BY <4>1, <4>2
    <3>4. Payloads(d, j) = {[segments |-> x, optional |-> (Char(d + 2) = "?"), list |-> TRUE] : x \in PathsIn(b, k)}
      BY <1>2, <2>0, <2>1, PayloadsAre DEF Heads
    <3> QED
      BY <3>3, <3>4
  <2>2. CASE ~Bracketed(j - 3) /\ b < j - 1 /\ Brace(j - 1)
    <3> DEFINE k == j - 1
    <3>0. k \in b .. Len(input)
      BY <1>1, <1>2, <2>0, <2>2
    <3>1. k \in b .. Len(input) /\ Char(k) \in Closers
      BY <2>2, <3>0, Zenon DEF Closers, Brace
    <3>2. PathsIn(b, k) = {}
      <4>1. CASE k # p
        BY <1>3, <3>1, <4>1
      <4>2. CASE k = p
        BY <1>4, <2>2, <4>2
      <4> QED
        BY <4>1, <4>2
    <3>3. Payloads(d, j) = {[segments |-> x, optional |-> (Char(d + 2) = "?"), list |-> FALSE] : x \in PathsIn(b, k)}
      BY <1>2, <2>0, <2>2, PayloadsAre DEF Heads
    <3> QED
      BY <3>2, <3>3
  <2>3. CASE Bracketed(j - 3) /\ \E m \in b .. j - 4 : Wide(m, j - 3)
    BY <1>2, <2>0, <2>3, PayloadsAre DEF Heads
  <2>4. CASE ~Bracketed(j - 3) /\ ~(b < j - 1 /\ Brace(j - 1))
    BY <1>2, <2>0, <2>4, PayloadsAre DEF Heads
  <2>5. CASE Bracketed(j - 3) /\ ~(b < j - 3)
    BY <1>2, <2>0, <2>5, PayloadsAre DEF Heads
  <2> QED
    BY <2>1, <2>2, <2>3, <2>4, <2>5
<1>7. Char(d) = "$" /\ ~Breaks(d) /\ ~Triple(d)
  <2>1. d \in Int
    BY <1>2
  <2>2. Char(d) = "$"
    BY <2>1, BeginsAt, Zenon DEF Heads, Dollar
  <2>3. ~Breaks(d)
    <3>1. /\ Is(d, <<"+", "=">>) => Char(d) = "+"
          /\ Is(d, <<"/", "/">>) => Char(d) = "/"
      BY <2>1, BeginsAt, Zenon
    <3> QED
      BY <2>2, <3>1 DEF Breaks
  <2>4. Char(d) # Quote
    BY <2>2 DEF Quote
  <2>5. ~Triple(d)
    BY <2>1, <2>4, BeginsAt DEF Triple
  <2> QED
    BY <2>2, <2>3, <2>5
<1>8. Char(d) \notin Whitespace \cup DOMAIN Punctuation \cup {"#"} /\ Char(d) # Quote /\ ~Starts(Char(d))
  BY <1>7 DEF Whitespace, Newline, Punctuation, Quote, Starts, Forbidden
<1> QED
  BY <1>6, <1>7, <1>8 DEF Hopeless, ReadsQuoted, ReadsTriple
(* --------------------------- the invariant -------------------------- *)
LineEnds(i) == Char(i) \in {"", Newline}
\* The blanks since the last token are kept, of what is in no comment; a comment
\* goes on to the end of the line.
BlanksTo(i) ==
    (\A k \in Since .. i - 1 : Char(k) # Newline) =>
        /\ blanks = BlanksIn(Since, i)
        /\ (\A k \in Since .. i - 1 : Blank(k)) \/ LineEnds(i)
PathAt ==
    /\ sub.optional = (Char(sub.at + 2) = "?")
    /\ PathFits(BeginsPath(sub.at), pos, sub.segments, sub.text, sub.started, sub.pending)
AllRead == \A n \in DOMAIN tokens : Reads(n)
Place   == IF sub.open THEN sub.at ELSE pos

\* With LexInv, the inductive invariant.
HoldInv ==
    /\ {"optional", "text", "pending", "segments"} \subseteq DOMAIN sub
    /\ lexing = "on" /\ ~sub.open => BlanksTo(pos)
    /\ lexing = "on" /\ sub.open  => BlanksTo(sub.at) /\ PathAt
    /\ AllRead
    /\ lexing \notin {"on", "done"} => Hopeless(Place)

\* A step that leaves the text alone.
LEMMA SameFits ==
    ASSUME input' = input
    PROVE  /\ \A b, p, segs, text, started, pending :
                 PathFits(b, p, segs, text, started, pending)' <=> PathFits(b, p, segs, text, started, pending)
           /\ \A d : BeginsPath(d)' = BeginsPath(d)
<1>1. /\ \A i, j : PathsIn(i, j)' = PathsIn(i, j)
      /\ \A i, j : Segments(i, j)' = Segments(i, j)
      /\ \A i, j : Fragments(i, j)' = Fragments(i, j)
      /\ \A i, j : Text(i, j)' = Text(i, j)
      /\ \A i : Blank(i)' <=> Blank(i)
      /\ \A i : BareMinus(i)' <=> BareMinus(i)
  BY SameReadings
<1>2. \A i : Char(i)' = Char(i)
  BY SameText
<1>3. \A a, b, x : Carries(a, b, x)' <=> Carries(a, b, x)
  BY <1>1 DEF Carries
<1>4. \A b, segs, s, p : FixedAt(b, segs, s, p)' <=> FixedAt(b, segs, s, p)
  BY <1>1, <1>2 DEF FixedAt
<1>5. \A s, p, text, pending : BegunAt(s, p, text, pending)' <=> BegunAt(s, p, text, pending)
  BY <1>1, <1>2, <1>3 DEF BegunAt
<1>6. \A s, p, text : NotBegunAt(s, p, text)' <=> NotBegunAt(s, p, text)
  BY <1>1 DEF NotBegunAt
<1>7. \A b, p, segs, text, started, pending :
         PathFits(b, p, segs, text, started, pending)' <=> PathFits(b, p, segs, text, started, pending)
  BY <1>4, <1>5, <1>6 DEF PathFits
<1>8. \A d : BeginsPath(d)' = BeginsPath(d)
  BY <1>2 DEF BeginsPath
<1> QED
  BY <1>7, <1>8

\* A token holds the same in the next state.
LEMMA OldRead ==
    ASSUME LexInv, AllRead, input' = input, NEW n \in DOMAIN tokens,
           tokens' = tokens \/ \E t : tokens' = Append(tokens, t)
    PROVE  Reads(n)'
<1>1. Lexed /\ Len(tokens) \in Nat /\ n \in 1 .. Len(tokens)
  BY Places DEF LexInv
<1>2. /\ \A i, j : Decoded(i, j)' = Decoded(i, j)
      /\ \A i, j : Payloads(i, j)' = Payloads(i, j)
      /\ \A i, j : BlanksIn(i, j)' = BlanksIn(i, j)
      /\ \A i : Char(i)' = Char(i)
      /\ Home' = Home
  BY SameReadings, SameText
<1>3. \A m \in 1 .. Len(tokens) : tokens'[m] = tokens[m]
  BY <1>1 DEF Lexed
<1>4. GapBefore(n)' = GapBefore(n)
  <2>1. n # 1 => n - 1 \in 1 .. Len(tokens)
    BY <1>1
  <2> QED
    BY <1>2, <1>3, <2>1 DEF GapBefore
<1>5. tokens'[n] = tokens[n]
  BY <1>1, <1>3
<1>6. Reads(n)
  BY DEF AllRead
<1> QED
  BY <1>2, <1>4, <1>5, <1>6 DEF Reads

\* A step that adds no token.
LEMMA StillRead ==
    ASSUME LexInv, AllRead, UNCHANGED <<input, tokens>>
    PROVE  AllRead'
<1>1. \A n \in DOMAIN tokens : Reads(n)'
  BY OldRead
<1> QED
  BY <1>1 DEF AllRead

\* One more token, that holds what it should.
LEMMA OneMoreRead ==
    ASSUME LexInv, AllRead, input' = input, NEW t, tokens' = Append(tokens, t),
           t.kind = "quoted" => t.value = Decoded(t.from, t.to),
           t.kind = "subst"  => Payloads(t.from, t.to) = {t.subst},
           (\A k \in Since .. t.from - 1 : Char(k) # Newline) /\ t.kind # "eof" => t.blanks = BlanksIn(Since, t.from)
    PROVE  AllRead'
<1>1. Lexed /\ Len(tokens) \in Nat /\ DOMAIN tokens = 1 .. Len(tokens)
  BY Places DEF LexInv
<1>2. DOMAIN tokens' = 1 .. Len(tokens) + 1 /\ tokens'[Len(tokens) + 1] = t
      /\ \A m \in 1 .. Len(tokens) : tokens'[m] = tokens[m]
  BY <1>1 DEF Lexed
<1>3. /\ \A i, j : Decoded(i, j)' = Decoded(i, j)
      /\ \A i, j : Payloads(i, j)' = Payloads(i, j)
      /\ \A i, j : BlanksIn(i, j)' = BlanksIn(i, j)
      /\ \A i : Char(i)' = Char(i)
      /\ Home' = Home
  BY SameReadings, SameText
<1>4. ASSUME NEW m, m = Len(tokens) + 1 PROVE Reads(m)'
  <2>1. m # 1 => m - 1 \in 1 .. Len(tokens)
    BY <1>1, <1>4
  <2>2. Since = GapBefore(m)
    BY <1>4 DEF Since
  <2>3. GapBefore(m)' = Since
    BY <1>2, <1>3, <2>1, <2>2 DEF GapBefore
  <2>4. tokens'[m] = t
    BY <1>2, <1>4
  <2> QED
    BY <1>3, <2>3, <2>4 DEF Reads
<1>5. \A n \in 1 .. Len(tokens) : Reads(n)'
  BY <1>1, OldRead
<1>6. \A n \in 1 .. Len(tokens) + 1 : Reads(n)'
  <2>1. \A n \in 1 .. Len(tokens) + 1 : n \in 1 .. Len(tokens) \/ n = Len(tokens) + 1
    BY <1>1
  <2> QED
    BY <1>4, <1>5, <2>1
<1> QED
  BY <1>2, <1>6 DEF AllRead
(* ------------------------ blanks and comments ----------------------- *)

\* The gap after a new token begins where it ends.
LEMMA SinceToken ==
    ASSUME LexInv, input' = input, NEW t, tokens' = Append(tokens, t)
    PROVE  Since' = t.to
<1>1. Lexed /\ Len(tokens) \in Nat
  BY Places DEF LexInv
<1>2. Len(tokens') = Len(tokens) + 1 /\ tokens'[Len(tokens) + 1] = t
  BY <1>1 DEF Lexed
<1>3. Len(tokens') + 1 # 1 /\ Len(tokens') + 1 - 1 = Len(tokens) + 1
  BY <1>1, <1>2
<1> QED
  BY <1>2, <1>3 DEF Since, GapBefore

\* After a token there are no blanks yet.
LEMMA FreshBlanks ==
    ASSUME LexInv, input' = input, pos' \in 1 .. Len(input) + 1, Since' = pos', blanks' = <<>>
    PROVE  BlanksTo(pos)'
<1>1. ItsText /\ Len(input) \in Nat
  BY Places
<1>2. \A p \in 1 .. Len(input) + 1 : BlanksIn(p, p) = <<>> /\ p .. p - 1 = {}
  <2>1. ASSUME NEW p \in 1 .. Len(input) + 1 PROVE BlanksIn(p, p) = <<>>
    BY <1>1, InOrderTurn DEF BlanksIn
  <2>2. \A p \in 1 .. Len(input) + 1 : p .. p - 1 = {}
    BY <1>1
  <2> QED
    BY <2>1, <2>2
<1>3. BlanksIn(pos, pos)' = <<>> /\ pos' .. pos' - 1 = {}
  BY <1>2, SameReadings
<1> QED
  BY <1>3 DEF BlanksTo

\* A step that reads neither a token nor a blank.
LEMMA KeptBlanks ==
    ASSUME UNCHANGED <<input, tokens, blanks>>
    PROVE  Since' = Since /\ \A i : BlanksTo(i)' <=> BlanksTo(i)
<1>1. Since' = Since
  BY SameText DEF Since, GapBefore
<1>2. \A i, j : BlanksIn(i, j)' = BlanksIn(i, j)
  BY SameReadings
<1>3. \A i : (LineEnds(i)' <=> LineEnds(i)) /\ (Char(i)' = Char(i)) /\ (Blank(i)' <=> Blank(i))
  BY SameText, SameReadings DEF LineEnds
<1> QED
  BY <1>1, <1>2, <1>3 DEF BlanksTo

\* One more blank, and no comment began on the way.
LEMMA BlankRead ==
    ASSUME LexInv, Reading, BlanksTo(pos), Blank(pos), blanks' = Append(blanks, Char(pos)),
           pos' = pos + 1, UNCHANGED <<input, tokens>>
    PROVE  BlanksTo(pos)'
<1>1. ItsText /\ Len(input) \in Nat /\ pos \in 1 .. Len(input) /\ Home \in 1 .. 2
  BY Places DEF Reading
<1> DEFINE i == Since
<1>2. i \in 1 .. pos
  BY <1>1 DEF LexInv, Reading, GapTo
<1>3. Since' = i
  BY SameText DEF Since, GapBefore
<1>4. BlanksTo(pos) <=> ((\A k \in i .. pos - 1 : Char(k) # Newline) =>
        /\ blanks = BlanksIn(i, pos)
        /\ (\A k \in i .. pos - 1 : Blank(k)) \/ LineEnds(pos))
  BY DEF BlanksTo
<1> HIDE DEF i
<1>5. ASSUME \A k \in i .. pos : Char(k) # Newline
      PROVE  blanks' = BlanksIn(i, pos + 1) /\ \A k \in i .. pos : Blank(k)
  <2>1. \A k \in i .. pos - 1 : k \in i .. pos
    BY <1>1, <1>2
  <2>2. ~LineEnds(pos)
    BY <1>1, Chars DEF Blank, LineEnds
  <2>3. blanks = BlanksIn(i, pos) /\ \A k \in i .. pos - 1 : Blank(k)
    BY <1>4, <1>5, <2>1, <2>2
  <2>4. \A k \in i .. pos : Blank(k)
    <3>1. \A k \in i .. pos : k \in i .. pos - 1 \/ k = pos
      BY <1>1, <1>2
    <3> QED
      BY <2>3, <3>1
  <2>5. ~Commented(i, pos)
    <3>1. \A c \in i .. pos : c \in Int /\ Char(c) \in Whitespace
      BY <1>1, <1>2, <2>4 DEF Blank
    <3>2. \A c \in i .. pos : Char(c) # "/" /\ Char(c) # "#"
      BY <3>1, Zenon DEF Whitespace, Newline
    <3>3. \A c \in i .. pos : ~Is(c, <<"/", "/">>) /\ ~Is(c, <<"#">>)
      BY <3>1, <3>2, BeginsAt
    <3> QED
      BY <3>3 DEF Commented
  <2> DEFINE S == {k \in DOMAIN input : Blank(k) /\ ~Commented(i, k)}
  <2>6. pos \in S
    BY <1>1, <2>4, <2>5, Chars
  <2> HIDE DEF S
  <2>7. i \in 1 .. Len(input) + 1 /\ pos \in i .. Len(input)
    BY <1>1, <1>2
  <2>8. InOrder(S, input, i, pos + 1) = Append(InOrder(S, input, i, pos), input[pos])
    BY <1>1, <2>6, <2>7, InOrderTurn
  <2>9. BlanksIn(i, pos + 1) = Append(BlanksIn(i, pos), Char(pos))
    BY <1>1, <2>8, Chars DEF BlanksIn, S
  <2> QED
    BY <2>3, <2>4, <2>9
<1>6. pos + 1 - 1 = pos
  BY <1>1
<1>7. \A k : (LineEnds(k)' <=> LineEnds(k)) /\ (Char(k)' = Char(k)) /\ (Blank(k)' <=> Blank(k))
  BY SameText, SameReadings DEF LineEnds
<1>8. BlanksIn(Since, pos)' = BlanksIn(i, pos + 1)
  BY <1>3, SameReadings
<1>9. BlanksTo(pos)' <=>
        ((\A k \in Since' .. pos' - 1 : Char(k)' # Newline) =>
            /\ blanks' = BlanksIn(Since, pos)'
            /\ (\A k \in Since' .. pos' - 1 : Blank(k)') \/ LineEnds(pos)')
  BY DEF BlanksTo
<1>10. Since' .. pos' - 1 = i .. pos
  <2>1. pos' - 1 = pos
    BY <1>1
  <2> QED
    BY <1>3, <2>1
<1>11. ASSUME \A k \in Since' .. pos' - 1 : Char(k)' # Newline
       PROVE  blanks' = BlanksIn(Since, pos)' /\ \A k \in Since' .. pos' - 1 : Blank(k)'
  <2>1. \A k \in i .. pos : Char(k) # Newline
    BY <1>7, <1>10, <1>11
  <2> QED
    BY <1>5, <1>7, <1>8, <1>10, <2>1
<1> QED
  BY <1>9, <1>11

\* A comment adds none, and goes on to the end of the line.
LEMMA CommentRead ==
    ASSUME LexInv, Reading, BlanksTo(pos), Commenting, NEW j \in pos .. Len(input) + 1,
           \A k \in pos .. j - 1 : Char(k) # Newline, LineEnds(j),
           pos' = j, UNCHANGED <<input, tokens, blanks>>
    PROVE  BlanksTo(pos)'
<1>0. ItsText /\ Len(input) \in Nat /\ pos \in 1 .. Len(input) + 1 /\ Home \in 1 .. 2
  BY Places
<1>1. ItsText /\ Len(input) \in Nat /\ pos \in 1 .. Len(input) /\ Home \in 1 .. 2
  BY <1>0 DEF Reading
<1> DEFINE i == Since
<1>2. i \in 1 .. pos
  BY <1>1 DEF LexInv, Reading, GapTo
<1>3. Since' = i
  BY KeptBlanks
<1>4. BlanksTo(pos) => ((\A k \in i .. pos - 1 : Char(k) # Newline) => blanks = BlanksIn(i, pos))
  BY DEF BlanksTo
<1> HIDE DEF i
<1>5. ASSUME \A k \in i .. j - 1 : Char(k) # Newline
      PROVE  blanks = BlanksIn(i, j)
  <2>1. \A k \in i .. pos - 1 : k \in i .. j - 1
    BY <1>1, <1>2
  <2>2. blanks = BlanksIn(i, pos)
    BY <1>4, <1>5, <2>1
  <2> DEFINE S == {k \in DOMAIN input : Blank(k) /\ ~Commented(i, k)}
  <2>3. ASSUME NEW k \in pos .. j - 1 PROVE k \notin S
    <3>1. pos \in 1 .. Len(input) + 1 /\ k + 1 \in Nat /\ pos <= k + 1 /\ k + 1 <= Len(input) + 1
      BY <1>1
    <3>2. \A m \in pos .. k + 1 - 1 : m \in pos .. j - 1
      BY <1>1
    <3>3. Newlines(pos, k + 1) = {}
      BY <1>1, <3>1, <3>2, NoNewline
    <3>4. pos \in i .. k
      BY <1>1, <1>2
    <3>5. Commented(i, k)
      BY <3>3, <3>4 DEF Commented, Commenting
    <3> QED
      BY <3>5
  <2> HIDE DEF S
  <2>4. i \in 1 .. Len(input) + 1 /\ pos \in i .. Len(input) + 1
    BY <1>1, <1>2
  <2>5. InOrder(S, input, i, j) = InOrder(S, input, i, pos)
    BY <1>1, <2>3, <2>4, InOrderSkips
  <2> QED
    BY <2>2, <2>5 DEF BlanksIn, S
<1>6. \A k : (LineEnds(k)' <=> LineEnds(k)) /\ (Char(k)' = Char(k)) /\ (Blank(k)' <=> Blank(k))
  BY SameText, SameReadings DEF LineEnds
<1>7. BlanksIn(Since, pos)' = BlanksIn(i, j)
  BY <1>3, SameReadings
<1> QED
  BY <1>3, <1>5, <1>6, <1>7 DEF BlanksTo
SubFields == {"optional", "text", "pending", "segments"}

\* One more token of any kind, with all the blanks there were.
LEMMA PushHolds ==
    ASSUME LexInv, HoldInv, NEW t, tokens' = Append(tokens, t), blanks' = <<>>, input' = input,
           t.to = pos', pos' \in 1 .. Len(input) + 1, t.kind # "eof", t.blanks = blanks, BlanksTo(t.from),
           t.kind = "quoted" => t.value = Decoded(t.from, t.to),
           t.kind = "subst"  => Payloads(t.from, t.to) = {t.subst},
           lexing' = "on", ~sub'.open, SubFields \subseteq DOMAIN sub'
    PROVE  HoldInv'
<1>1. AllRead
  BY DEF HoldInv
<1>2. (\A k \in Since .. t.from - 1 : Char(k) # Newline) => t.blanks = BlanksIn(Since, t.from)
  BY DEF BlanksTo
<1>3. AllRead'
  BY <1>1, <1>2, OneMoreRead
<1>4. Since' = pos'
  BY SinceToken
<1>5. BlanksTo(pos)'
  BY <1>4, FreshBlanks
<1> QED
  BY <1>3, <1>5 DEF HoldInv, SubFields

\* A token that is read in one step.
LEMMA TokenHolds ==
    ASSUME LexInv, HoldInv, Reading, NEW kind, NEW value, kind # "eof", kind # "subst",
           NEW j \in pos .. Len(input) + 1, kind = "quoted" => value = Decoded(pos, j),
           Push(Token(kind, value, NoPayload, pos, j, col)), pos' = j, UNCHANGED <<input, sub, lexing>>
    PROVE  HoldInv'
<1> DEFINE t == Token(kind, value, NoPayload, pos, j, col)
<1>1. tokens' = Append(tokens, t) /\ blanks' = <<>>
  BY DEF Push
<1>2. /\ t.kind = kind /\ t.value = value /\ t.from = pos /\ t.to = j /\ t.blanks = blanks
  BY DEF Token
<1>3. Len(input) \in Nat /\ pos \in 1 .. Len(input) + 1
  BY Places
<1>4. j \in 1 .. Len(input) + 1
  BY <1>3
<1>5. lexing = "on" /\ ~sub.open
  BY DEF Reading
<1>6. BlanksTo(pos) /\ SubFields \subseteq DOMAIN sub
  BY <1>5 DEF HoldInv, SubFields
<1> HIDE DEF t
<1>7. t.to = pos' /\ pos' \in 1 .. Len(input) + 1 /\ input' = input
  BY <1>2, <1>4
<1>8. BlanksTo(t.from)
  BY <1>2, <1>6
<1>9. lexing' = "on" /\ ~sub'.open /\ SubFields \subseteq DOMAIN sub'
  BY <1>5, <1>6
<1>10. t.kind # "eof" /\ (t.kind = "quoted" => t.value = Decoded(t.from, t.to)) /\ t.kind # "subst"
  BY <1>2
<1> QED
  BY <1>1, <1>2, <1>7, <1>8, <1>9, <1>10, PushHolds

\* The text is refused where nothing can be read.
LEMMA WrongHolds ==
    ASSUME LexInv, HoldInv, NEW e, Wrong(e), e \notin {"on", "done"}, Hopeless(Place)
    PROVE  HoldInv'
<1>1. UNCHANGED <<input, pos, tokens, sub>> /\ lexing' = e
  BY DEF Wrong
<1>2. AllRead'
  BY <1>1, StillRead DEF HoldInv
<1>3. Hopeless(Place)'
  BY <1>1, SameReadings DEF Place
<1> QED
  BY <1>1, <1>2, <1>3 DEF HoldInv

\* What stands between two tokens.
LEMMA QuietHolds ==
    ASSUME LexInv, HoldInv, Reading, UNCHANGED <<input, tokens, sub, lexing>>, BlanksTo(pos)'
    PROVE  HoldInv'
<1>1. AllRead'
  BY StillRead DEF HoldInv
<1> QED
  BY <1>1 DEF HoldInv, Reading

LEMMA BlankHolds ==
    ASSUME LexInv, HoldInv, LexBlank \/ LexComment
    PROVE  HoldInv'
<1>1. Reading /\ BlanksTo(pos)
  BY DEF HoldInv, Reading, LexBlank, LexComment
<1>2. UNCHANGED <<input, tokens, sub, lexing>>
  BY DEF LexBlank, LexComment
<1>3. CASE LexBlank
  <2>1. Blank(pos) /\ blanks' = Append(blanks, Char(pos)) /\ pos' = pos + 1
    BY <1>3 DEF LexBlank, Blank
  <2>2. BlanksTo(pos)'
    BY <1>1, <1>2, <2>1, BlankRead
  <2> QED
    BY <1>1, <1>2, <2>2, QuietHolds
<1>4. CASE LexComment
  <2> DEFINE S == {i \in 1 .. Len(input) : input[i] # Newline}
             j == Past(pos, S)
  <2>1. Len(input) \in Nat /\ pos \in 1 .. Len(input) + 1 /\ ItsText
    BY Places
  <2>2. Len(input) + 1 \notin S
    BY <2>1
  <2>3. j \in pos .. Len(input) + 1 /\ j \notin S /\ \A k \in pos .. j - 1 : k \in S
    <3> HIDE DEF S
    <3> QED
      BY <2>1, <2>2, PastStops
  <2>4. pos' = j /\ Commenting /\ blanks' = blanks
    BY <1>4 DEF LexComment
  <2> HIDE DEF j
  <2>5. \A k \in pos .. j - 1 : Char(k) # Newline
    BY <2>1, <2>3, Chars
  <2>6. LineEnds(j)
    <3>1. CASE j \in 1 .. Len(input)
      BY <2>1, <2>3, <3>1, Chars DEF LineEnds
    <3>2. CASE j \notin 1 .. Len(input)
      BY <2>1, <3>2, Chars DEF LineEnds
    <3> QED
      BY <3>1, <3>2
  <2>7. BlanksTo(pos)'
    BY <1>1, <1>2, <2>3, <2>4, <2>5, <2>6, CommentRead
  <2> QED
    BY <1>1, <1>2, <2>7, QuietHolds
<1> QED
  BY <1>3, <1>4

LEMMA NewlineHolds ==
    ASSUME LexInv, HoldInv, LexNewline
    PROVE  HoldInv'
<1>1. /\ Reading /\ Char(pos) = Newline /\ pos' = pos + 1 /\ UNCHANGED <<input, sub, lexing>>
      /\ \/ UNCHANGED <<tokens, blanks>>
         \/ Push(Token("newline", <<Newline>>, NoPayload, pos, pos + 1, col))
  BY DEF LexNewline
<1>2. /\ Len(input) \in Nat /\ pos \in 1 .. Len(input) /\ Home \in 1 .. 2
  <2>1. Len(input) \in Nat /\ pos \in 1 .. Len(input) + 1 /\ Home \in 1 .. 2
    BY Places
  <2> QED
    BY <1>1, <2>1 DEF Reading
<1>3. CASE UNCHANGED <<tokens, blanks>>
  <2>1. Since \in 1 .. pos
    BY <1>1, <1>2 DEF LexInv, Reading, GapTo
  <2>2. Since' = Since
    BY <1>1, <1>3, KeptBlanks
  <2>3. \E m \in Since' .. pos' - 1 : ~(Char(m)' # Newline)
    <3>1. pos \in Since' .. pos' - 1
      <4>1. pos' - 1 = pos
        BY <1>1, <1>2
      <4>2. pos \in Since .. pos
        BY <1>2, <2>1
      <4> QED
        BY <2>2, <4>1, <4>2
    <3>2. \A m : m = pos => Char(m)' = Newline
      BY <1>1, SameText
    <3> QED
      BY <3>1, <3>2
  <2>4. BlanksTo(pos)'
    BY <2>3 DEF BlanksTo
  <2> QED
    BY <1>1, <1>3, <2>4, QuietHolds
<1>4. CASE Push(Token("newline", <<Newline>>, NoPayload, pos, pos + 1, col))
  <2>1. pos + 1 \in pos .. Len(input) + 1
    BY <1>2
  <2> QED
    BY <1>1, <1>4, <2>1, TokenHolds
<1> QED
  BY <1>1, <1>3, <1>4
(* ------------------------- words and strings ------------------------ *)

LEMMA EmitHolds ==
    ASSUME LexInv, HoldInv, Reading, NEW kind, NEW value, kind # "eof", kind # "subst",
           NEW j \in pos .. Len(input) + 1, kind = "quoted" => value = Decoded(pos, j),
           Emit(kind, value, j)
    PROVE  HoldInv'
<1>1. Push(Token(kind, value, NoPayload, pos, j, col)) /\ pos' = j /\ UNCHANGED <<input, sub, lexing>>
  BY DEF Emit
<1> QED
  BY <1>1, TokenHolds

LEMMA WordHolds ==
    ASSUME LexInv, HoldInv, LexPunctuation \/ LexUnquoted
    PROVE  HoldInv'
<1>1. Reading
  BY DEF LexPunctuation, LexUnquoted
<1>2. Len(input) \in Nat /\ pos \in 1 .. Len(input)
  BY <1>1, Places DEF Reading
<1>3. ItsText
  BY Places
<1>4. ASSUME Char(pos) \in DOMAIN Punctuation, Emit(Punctuation[Char(pos)], <<Char(pos)>>, pos + 1)
      PROVE  HoldInv'
  <2> DEFINE c == Char(pos)
             j == pos + 1
             value == <<c>>
  <2>1. Punctuation[c] = c /\ c # "eof" /\ c # "quoted" /\ c # "subst"
    BY <1>4 DEF Punctuation
  <2>2. j \in pos .. Len(input) + 1
    BY <1>2
  <2>3. Emit(c, value, j)
    BY <1>4, <2>1
  <2> HIDE DEF j, c, value
  <2> QED
    BY <1>1, <2>1, <2>2, <2>3, EmitHolds
<1>5. ASSUME Is(pos, <<"+", "=">>), Emit("+=", <<"+", "=">>, pos + 2)
      PROVE  HoldInv'
  <2> DEFINE j == pos + 2
             kind == "+="
             value == <<"+", "=">>
  <2>1. Char(pos) = "+" /\ Char(pos + 1) = "="
    BY <1>2, <1>5, BeginsAt
  <2>2. pos + 1 \in 1 .. Len(input)
    BY <1>3, <2>1, Chars
  <2>3. j \in pos .. Len(input) + 1
    BY <1>2, <2>2
  <2>4. kind # "eof" /\ kind # "quoted" /\ kind # "subst"
    OBVIOUS
  <2>5. Emit(kind, value, j)
    BY <1>5
  <2> HIDE DEF j, kind, value
  <2> QED
    BY <1>1, <2>3, <2>4, <2>5, EmitHolds
<1>6. CASE LexUnquoted
  <2> DEFINE j == Past(pos, {k \in 1 .. Len(input) : Continues(k)})
             kind == "unquoted"
             value == Text(pos, j)
  <2>1. Starts(Char(pos)) /\ ~Is(pos, <<"/", "/">>) /\ Emit(kind, value, j)
    BY <1>6, Zenon DEF LexUnquoted, Commenting
  <2>2. j \in pos + 1 .. Len(input) + 1
    BY <1>2, <1>3, <2>1, UnquotedShape
  <2> HIDE DEF j, value
  <2>3. j \in pos .. Len(input) + 1
    BY <1>2, <2>2
  <2>4. kind # "eof" /\ kind # "quoted" /\ kind # "subst"
    OBVIOUS
  <2> HIDE DEF kind
  <2> QED
    BY <1>1, <2>1, <2>3, <2>4, EmitHolds
<1> QED
  BY <1>4, <1>5, <1>6, Zenon DEF LexPunctuation

\* The end of the text: nothing changes but a token of its own.
LEMMA EndHolds ==
    ASSUME LexInv, HoldInv, LexEnd
    PROVE  HoldInv'
<1> DEFINE t == [Token("eof", <<>>, NoPayload, pos, pos, col) EXCEPT !.space = FALSE, !.blanks = <<>>]
<1>1. /\ lexing = "on" /\ ~sub.open /\ tokens' = Append(tokens, t) /\ lexing' = "done"
      /\ UNCHANGED <<input, pos, sub>>
  BY Zenon DEF LexEnd
<1>2. t.kind = "eof"
  BY DEF Token
<1> HIDE DEF t
<1>3. AllRead
  BY DEF HoldInv
<1>4. t.kind # "quoted" /\ t.kind # "subst"
  BY <1>2
<1>5. AllRead'
  BY <1>1, <1>2, <1>3, <1>4, OneMoreRead
<1>6. {"optional", "text", "pending", "segments"} \subseteq DOMAIN sub'
  BY <1>1 DEF HoldInv
<1> QED
  BY <1>1, <1>5, <1>6 DEF HoldInv
\* No token begins where a string is not read to its end.
LEMMA NoString ==
    ASSUME ItsText, NEW p \in 1 .. Len(input), Char(p) = Quote,
           ~QuotedBody(p + 1).ok \/ Triple(p), \A j \in Nat : ~ReadsTriple(p, j)
    PROVE  Hopeless(p)
<1>1. Len(input) \in Nat
  BY Chars
<1>2. /\ Char(p) \notin Whitespace \cup DOMAIN Punctuation \cup {"#"}
      /\ Char(p) # "+" /\ Char(p) # "/" /\ Char(p) # "$" /\ Char(p) \in Forbidden
  BY Zenon DEF Quote, Whitespace, Punctuation, Forbidden, Newline
<1>3. ~Breaks(p) /\ ~Dollar(p)
  <2>1. p \in Int
    BY <1>1
  <2>2. (Is(p, <<"+", "=">>) => Char(p) = "+") /\ (Is(p, <<"/", "/">>) => Char(p) = "/")
    BY <2>1, BeginsAt
  <2>3. Dollar(p) => Char(p) = "$"
    BY <2>1, BeginsAt, Zenon DEF Dollar
  <2> QED
    BY <1>2, <2>2, <2>3 DEF Breaks
<1>4. ~Starts(Char(p))
  BY <1>2, Zenon DEF Starts
<1>5. ASSUME NEW j \in p + 1 .. Len(input) + 1 PROVE ~(ReadsQuoted(p, j) /\ ~Triple(p)) /\ ~ReadsTriple(p, j) /\ Payloads(p, j) = {}
  <2>1. j \in Nat /\ j <= Len(input) + 1
    BY <1>1
  <2>2. ReadsQuoted(p, j) => QuotedBody(p + 1).ok
    BY <2>1, StringRead
  <2>3. Payloads(p, j) = {}
    BY <1>3, Zenon DEF Payloads, Dollar
  <2> QED
    BY <2>1, <2>2, <2>3
<1> QED
  BY <1>2, <1>3, <1>4, <1>5, Zenon DEF Hopeless

LEMMA QuotedHolds ==
    ASSUME LexInv, HoldInv, LexQuoted
    PROVE  HoldInv'
<1>1. Reading
  BY DEF LexQuoted
<1>2. Len(input) \in Nat /\ pos \in 1 .. Len(input)
  BY <1>1, Places DEF Reading
<1>3. ItsText
  BY Places
<1> DEFINE body == QuotedBody(pos + 1)
           j == body.to
           text == body.text
<1>4. /\ Char(pos) = Quote /\ ~Triple(pos)
      /\ IF body.ok THEN Emit("quoted", text, j) ELSE Wrong(body.why)
  BY Zenon DEF LexQuoted, Triple
<1>5. CASE ~body.ok
  <2>1. body.why \in Refusals
    BY <1>2, <1>3, <1>4, <1>5, QuotedShape
  <2>2. Wrong(body.why) /\ body.why \notin {"on", "done"}
    BY <1>4, <1>5, <2>1 DEF Refusals
  <2>3. \A k \in Nat : ~ReadsTriple(pos, k)
    BY <1>4 DEF ReadsTriple
  <2>4. Hopeless(pos)
    BY <1>2, <1>3, <1>4, <1>5, <2>3, NoString
  <2>5. Place = pos
    BY <1>1 DEF Place, Reading
  <2> DEFINE e == body.why
  <2> HIDE DEF e
  <2> QED
    BY <2>2, <2>4, <2>5, WrongHolds DEF e
<1>6. CASE body.ok
  <2>1. Emit("quoted", text, j)
    BY <1>4, <1>6
  <2>2. j \in pos + 2 .. Len(input) + 1 /\ ReadsQuoted(pos, j)
    BY <1>2, <1>3, <1>4, <1>6, QuotedShape
  <2>3. j \in Nat /\ j <= Len(input) + 1 /\ j \in pos .. Len(input) + 1
    BY <1>2, <2>2
  <2>4. text = Decoded(pos, j)
    <3> HIDE DEF j
    <3> QED
      BY <1>2, <1>3, <2>2, <2>3, StringRead
  <2> DEFINE kind == "quoted"
  <2>5. kind # "eof" /\ kind # "subst"
    OBVIOUS
  <2>6. Emit(kind, text, j)
    BY <2>1
  <2> HIDE DEF body, j, text, kind
  <2> QED
    BY <1>1, <2>3, <2>4, <2>5, <2>6, EmitHolds
<1> QED
  BY <1>5, <1>6

LEMMA TripleHolds ==
    ASSUME LexInv, HoldInv, LexTriple
    PROVE  HoldInv'
<1>1. Reading
  BY DEF LexTriple
<1>2. Len(input) \in Nat /\ pos \in 1 .. Len(input)
  BY <1>1, Places DEF Reading
<1>3. ItsText
  BY Places
<1>4. Triple(pos)
  BY DEF LexTriple, Triple
<1>5. CASE TripleStops = {}
  <2> DEFINE e == "unterminated triple-quoted string"
  <2>1. Wrong(e)
    BY <1>5, Zenon DEF LexTriple
  <2>2. ASSUME NEW k \in Nat, ReadsTriple(pos, k) PROVE FALSE
    <3> DEFINE i == k - 3
    <3>1. k - pos >= 6 /\ Triple(i)
      BY <2>2 DEF ReadsTriple
    <3>2. i \in Int /\ i >= pos + 3
      BY <1>2, <3>1
    <3>3. Is(i, <<Quote, Quote, Quote>>)
      BY <3>1 DEF Triple
    <3> HIDE DEF i
    <3>4. Char(i) = Quote
      BY <3>2, <3>3, BeginsAt
    <3>5. i \in 1 .. Len(input)
      BY <1>3, <3>4, Chars DEF Quote
    <3>6. i \in pos + 3 .. Len(input)
      BY <1>2, <3>2, <3>5
    <3>7. i \in TripleStops
      BY <3>3, <3>6, Zenon DEF TripleStops
    <3> QED
      BY <1>5, <3>7
  <2>3. Char(pos) = Quote
    BY <1>2, <1>4, BeginsAt DEF Triple
  <2>4. Hopeless(pos)
    BY <1>2, <1>3, <1>4, <2>2, <2>3, NoString
  <2>5. Place = pos
    BY <1>1 DEF Place, Reading
  <2>6. e \notin {"on", "done"}
    OBVIOUS
  <2> HIDE DEF e
  <2> QED
    BY <2>1, <2>4, <2>5, <2>6, WrongHolds
<1>6. CASE TripleStops # {}
  <2> DEFINE j == TripleEnd
             kind == "triple"
             value == Text(pos + 3, j - 3)
  <2>1. /\ Push(Token(kind, value, NoPayload, pos, j, col)) /\ pos' = j /\ UNCHANGED <<input, sub, lexing>>
    BY <1>6, Zenon DEF LexTriple
  <2>2. j \in pos + 6 .. Len(input) + 1
    BY <1>2, <1>3, <1>4, <1>6, TripleShape
  <2> HIDE DEF j, value
  <2>3. j \in pos .. Len(input) + 1
    BY <1>2, <2>2
  <2>4. kind # "eof" /\ kind # "quoted" /\ kind # "subst"
    OBVIOUS
  <2> HIDE DEF kind
  <2> QED
    BY <1>1, <2>1, <2>3, <2>4, TokenHolds
<1> QED
  BY <1>5, <1>6

\* A character nothing begins with.
LEMMA UnexpectedHolds ==
    ASSUME LexInv, HoldInv, LexUnexpected
    PROVE  HoldInv'
<1> DEFINE c == Char(pos)
           e == "unexpected character"
<1>1. /\ Reading /\ Wrong(e)
      /\ \/ c \in Forbidden \ (DOMAIN Punctuation \cup {"#", Quote, "$"})
         \/ c = "$" /\ ~Is(pos, <<"$", "{">>)
         \/ c = "+" /\ ~Is(pos, <<"+", "=">>)
  BY DEF LexUnexpected
<1>2. Len(input) \in Nat /\ pos \in 1 .. Len(input) + 1 /\ pos \in Int
  BY Places
<1>3. /\ c \notin Whitespace \cup DOMAIN Punctuation \cup {"#"} /\ c # "/" /\ c # Quote
      /\ c \in Forbidden \/ c = "+"
  BY <1>1 DEF Forbidden, Whitespace, Punctuation, Quote, Newline, Backslash
<1>4. (c = "+" => ~Is(pos, <<"+", "=">>)) /\ (c = "$" => ~Dollar(pos))
  BY <1>1 DEF Forbidden, Dollar, Quote, Backslash
<1>5. ~Breaks(pos) /\ ~Dollar(pos) /\ ~Triple(pos)
  <2>1. (Is(pos, <<"+", "=">>) => c = "+") /\ (Is(pos, <<"/", "/">>) => c = "/")
    BY <1>2, BeginsAt
  <2>2. (Dollar(pos) => c = "$") /\ (Triple(pos) => c = Quote)
    BY <1>2, BeginsAt DEF Dollar, Triple
  <2> QED
    BY <1>3, <1>4, <2>1, <2>2 DEF Breaks
<1>6. ~Starts(c)
  BY <1>3 DEF Starts
<1>7. ASSUME NEW j \in pos + 1 .. Len(input) + 1 PROVE ~ReadsQuoted(pos, j) /\ ~ReadsTriple(pos, j) /\ Payloads(pos, j) = {}
  <2>1. ~ReadsQuoted(pos, j)
    BY <1>3 DEF ReadsQuoted
  <2>2. ~ReadsTriple(pos, j)
    BY <1>5 DEF ReadsTriple
  <2>3. Payloads(pos, j) = {}
    BY <1>5, Zenon DEF Payloads, Dollar
  <2> QED
    BY <2>1, <2>2, <2>3
<1>8. Hopeless(pos)
  BY <1>3, <1>5, <1>6, <1>7, Zenon DEF Hopeless
<1>9. Place = pos
  BY <1>1 DEF Place, Reading
<1>10. e \notin {"on", "done"}
  OBVIOUS
<1> HIDE DEF e, c
<1> QED
  BY <1>1, <1>8, <1>9, <1>10, WrongHolds
(* ------------------------------- paths ------------------------------ *)
\* The next state of a path, in the text as it is.
LEMMA NextPath ==
    ASSUME input' = input, NEW d, sub'.at = d, sub'.optional = (Char(d + 2) = "?"),
           PathFits(BeginsPath(d), pos', sub'.segments, sub'.text, sub'.started, sub'.pending)
    PROVE  PathAt'
<1>1. \A k : Char(k)' = Char(k)
  BY SameText
<1>2. BeginsPath(sub.at)' = BeginsPath(d)
  BY SameFits
<1>3. PathFits(BeginsPath(sub.at), pos, sub.segments, sub.text, sub.started, sub.pending)'
  BY <1>2, SameFits
<1>4. sub'.optional = (Char(sub.at + 2)' = "?")
  BY <1>1
<1> QED
  BY <1>3, <1>4 DEF PathAt

LEMMA SubstHolds ==
    ASSUME LexInv, HoldInv, LexSubst
    PROVE  HoldInv'
<1>1. Reading /\ Is(pos, <<"$", "{">>) /\ UNCHANGED <<input, blanks, tokens, lexing>>
  BY DEF LexSubst
<1>2. Len(input) \in Nat /\ pos \in 1 .. Len(input) + 1 /\ pos \in Int
  BY Places
<1>3. ItsText
  BY Places
<1> DEFINE n == IF Char(pos + 2) = "?" THEN 3 ELSE 2
           q == Char(pos + 2) = "?"
<1>4. /\ sub' = [NoSub EXCEPT !.open = TRUE, !.optional = (n = 3), !.at = pos, !.col = col]
      /\ pos' = pos + n
  BY Zenon DEF LexSubst
<1>5. (n = 3) = q
  OBVIOUS
<1>6. /\ SubFields \subseteq DOMAIN sub'
      /\ sub'.open = TRUE /\ sub'.optional = q /\ sub'.at = pos /\ sub'.started = FALSE
      /\ sub'.segments = <<>> /\ sub'.text = <<>> /\ sub'.pending = <<>>
  <2> HIDE DEF n
  <2> QED
    BY <1>4, <1>5 DEF NoSub, SubFields
<1>7. pos' = BeginsPath(pos)
  BY <1>2, <1>4 DEF BeginsPath
<1>8. pos' \in 1 .. Len(input) + 1
  <2>1. LexInv'
    BY SubstKeeps
  <2>2. pos' \in 1 .. Len(input') + 1
    BY <2>1 DEF LexInv, CursorAt, Home
  <2> QED
    BY <1>1, <2>2
<1> HIDE DEF n
<1>9. PathFits(pos', pos', <<>>, <<>>, FALSE, <<>>)
  BY <1>3, <1>8, PathBegins
<1>10. PathAt'
  BY <1>1, <1>6, <1>7, <1>9, NextPath
<1>11. BlanksTo(sub.at)'
  <2>1. BlanksTo(pos)
    BY <1>1 DEF HoldInv, Reading
  <2> QED
    BY <1>1, <1>6, <2>1, KeptBlanks
<1>12. AllRead'
  BY <1>1, StillRead DEF HoldInv
<1>13. lexing' = "on"
  BY <1>1 DEF Reading
<1> QED
  BY <1>6, <1>10, <1>11, <1>12, <1>13 DEF HoldInv, SubFields

\* A step on the way of a path.
LEMMA PathHolds ==
    ASSUME LexInv, HoldInv, InPath, UNCHANGED <<input, blanks, tokens, lexing>>,
           sub'.open = sub.open, sub'.at = sub.at, sub'.optional = sub.optional, SubFields \subseteq DOMAIN sub',
           PathFits(BeginsPath(sub.at), pos', sub'.segments, sub'.text, sub'.started, sub'.pending)
    PROVE  HoldInv'
<1>1. BlanksTo(sub.at) /\ PathAt /\ lexing = "on" /\ sub.open
  BY DEF HoldInv, InPath
<1>2. sub.optional = (Char(sub.at + 2) = "?")
  BY <1>1 DEF PathAt
<1>3. PathAt'
  BY <1>2, NextPath
<1>4. BlanksTo(sub.at)'
  BY <1>1, KeptBlanks
<1>5. AllRead'
  BY StillRead DEF HoldInv
<1> QED
  BY <1>1, <1>3, <1>4, <1>5 DEF HoldInv, SubFields

\* Where a substitution is read, and its path so far.
LEMMA PathPlaces ==
    ASSUME LexInv, HoldInv, InPath
    PROVE  /\ ItsText /\ Len(input) \in Nat
           /\ sub.at \in Nat /\ BeginsPath(sub.at) \in 1 .. Len(input) + 1 /\ Heads(sub.at, BeginsPath(sub.at))
           /\ pos \in BeginsPath(sub.at) .. Len(input) + 1
           /\ Place = sub.at /\ SubFields \cup {"open", "at", "col", "started"} \subseteq DOMAIN sub
           /\ PathFits(BeginsPath(sub.at), pos, sub.segments, sub.text, sub.started, sub.pending)
           /\ sub.optional = (Char(sub.at + 2) = "?")
<1>1. lexing = "on" /\ sub.open /\ SubAt /\ PathAt
  BY DEF HoldInv, InPath, LexInv
<1>2. Len(input) \in Nat /\ pos \in 1 .. Len(input) + 1 /\ Home \in 1 .. 2 /\ ItsText
  BY Places
<1>3. sub.at \in Home .. pos - 2 /\ Is(sub.at, <<"$", "{">>)
  BY <1>1 DEF SubAt
<1>4. sub.at \in Nat /\ Heads(sub.at, BeginsPath(sub.at))
  <2>1. sub.at \in Home .. pos - 2
    BY <1>3
  <2>2. Heads(sub.at, BeginsPath(sub.at))
    BY <1>3, Zenon DEF Heads, Dollar
  <2> QED
    BY <1>2, <2>1, <2>2
<1> DEFINE b == BeginsPath(sub.at)
<1>5. PathFits(b, pos, sub.segments, sub.text, sub.started, sub.pending) /\ sub.optional = (Char(sub.at + 2) = "?")
  BY <1>1 DEF PathAt
<1>6. b \in 1 .. Len(input) + 1 /\ pos \in b .. Len(input) + 1
  <2>1. b \in Nat /\ b >= 1
    BY <1>4 DEF BeginsPath
  <2> HIDE DEF b
  <2>2. PICK s \in b .. pos : TRUE
    BY <1>5 DEF PathFits
  <2> QED
    BY <1>2, <2>1, <2>2
<1>7. SubFields \cup {"open", "at", "col", "started"} \subseteq DOMAIN sub
  <2>1. SubFields \subseteq DOMAIN sub
    BY DEF HoldInv, SubFields
  <2>2. {"open", "at", "col", "started"} \subseteq DOMAIN sub
    BY DEF LexInv
  <2> QED
    BY <2>1, <2>2
<1> QED
  BY <1>1, <1>2, <1>4, <1>5, <1>6, <1>7 DEF Place
\* Between p and e nothing a path could stop at is read from p on.
Passes(p, e) ==
    \A k \in p + 1 .. e - 1 : Char(k) \in Closers \cup {"."} => \A m \in p + 1 .. k : Fragments(p, m) = {}
\* Where a piece of a segment may begin.
BeginsPiece(p) == ~Blank(p) /\ (~sub.started => ~BareMinus(p)) /\ Char(p) \notin Closers \cup {"."}
EndsPiece(e)   == Char(e - 1) = Quote \/ InSubst(Char(e - 1))
Spoken         == sub.text \o (IF sub.started THEN sub.pending ELSE <<>>)

LEMMA SpokenIs ==
    ASSUME sub.text \in Seq(Letters)
    PROVE  (sub.started => Spoken = sub.text \o sub.pending) /\ (~sub.started => Spoken = sub.text)
<1>1. sub.text \o <<>> = sub.text
  OBVIOUS
<1>2. CASE sub.started
  BY <1>2, Zenon DEF Spoken
<1>3. CASE ~sub.started
  <2>1. Spoken = sub.text \o <<>>
    BY <1>3, Zenon DEF Spoken
  <2> QED
    BY <1>1, <1>3, <2>1
<1> QED
  BY <1>2, <1>3

\* A piece of a path, and the blanks before it unless it is the first.
LEMMA PieceFits ==
    ASSUME ItsText, NEW b \in 1 .. Len(input), NEW p \in b .. Len(input), NEW e \in p + 1 .. Len(input) + 1,
           PathFits(b, p, sub.segments, sub.text, sub.started, sub.pending),
           NEW x \in Seq(Letters), BeginsPiece(p), EndsPiece(e), Carries(p, e, x), Passes(p, e)
    PROVE  PathFits(b, e, sub.segments, Spoken \o x, TRUE, <<>>)
<1>1. sub.text \in Seq(Letters)
  BY DEF PathFits
<1>2. (sub.started => Spoken = sub.text \o sub.pending) /\ (~sub.started => Spoken = sub.text)
  BY <1>1, SpokenIs
<1>3. ~Blank(p) /\ (~sub.started => ~BareMinus(p)) /\ Char(p) \notin Closers \cup {"."}
  BY DEF BeginsPiece
<1>4. Char(e - 1) = Quote \/ InSubst(Char(e - 1))
  BY DEF EndsPiece
<1>5. \A k \in p + 1 .. e - 1 : Char(k) \in Closers \cup {"."} => \A m \in p + 1 .. k : Fragments(p, m) = {}
  BY DEF Passes
<1> QED
  BY <1>2, <1>3, <1>4, <1>5, PieceGoes

LEMMA PieceHolds ==
    ASSUME LexInv, HoldInv, InPath, pos <= Len(input), NEW e \in pos + 1 .. Len(input) + 1,
           NEW x \in Seq(Letters), SubAppend(x, e),
           BeginsPiece(pos), EndsPiece(e), Carries(pos, e, x), Passes(pos, e)
    PROVE  HoldInv'
<1> DEFINE b == BeginsPath(sub.at)
<1>1. /\ ItsText /\ Len(input) \in Nat /\ b \in 1 .. Len(input) + 1
      /\ pos \in b .. Len(input) + 1 /\ SubFields \cup {"open", "at", "col", "started"} \subseteq DOMAIN sub
      /\ PathFits(b, pos, sub.segments, sub.text, sub.started, sub.pending)
  BY PathPlaces
<1>2. /\ sub' = [sub EXCEPT !.text = sub.text \o (IF sub.started THEN sub.pending ELSE <<>>) \o x,
                            !.started = TRUE, !.pending = <<>>]
      /\ pos' = e /\ UNCHANGED <<input, blanks, tokens, lexing>>
  BY Zenon DEF SubAppend
<1>3. sub.text \o (IF sub.started THEN sub.pending ELSE <<>>) \o x = Spoken \o x
  BY Zenon DEF Spoken
<1> HIDE DEF b
<1>4. b \in 1 .. Len(input) /\ pos \in b .. Len(input)
  BY <1>1
<1>5. PathFits(b, e, sub.segments, Spoken \o x, TRUE, <<>>)
  BY <1>1, <1>4, PieceFits
<1> DEFINE y == Spoken \o x
<1>6. sub' = [sub EXCEPT !.text = y, !.started = TRUE, !.pending = <<>>]
  BY <1>2, <1>3, Zenon
<1>7. PathFits(b, e, sub.segments, y, TRUE, <<>>)
  BY <1>5
<1> HIDE DEF y
<1>8. /\ sub'.open = sub.open /\ sub'.at = sub.at /\ sub'.optional = sub.optional /\ SubFields \subseteq DOMAIN sub'
      /\ sub'.segments = sub.segments /\ sub'.text = y /\ sub'.started = TRUE /\ sub'.pending = <<>>
  BY <1>1, <1>6 DEF SubFields
<1>9. PathFits(b, pos', sub'.segments, sub'.text, sub'.started, sub'.pending)
  BY <1>2, <1>7, <1>8
<1> QED
  BY <1>2, <1>8, <1>9, PathHolds DEF b
\* The path ends neither here nor further on.
NoMore(p) == \/ \A m \in p + 1 .. Len(input) + 1 : Fragments(p, m) = {}
             \/ ~sub.started /\ BareMinus(p)
Stuck ==
    /\ Char(pos) = "." \/ Brace(pos) => ~sub.started
    /\ Bracket(pos) => ~sub.started \/ ~Bracketed(pos) \/ \E i \in DOMAIN sub.pending : sub.pending[i] \notin Narrow
    /\ pos <= Len(input) => ~Blank(pos)
    /\ pos <= Len(input) => NoMore(pos)

\* The path is refused where it cannot go on.
LEMMA StuckHolds ==
    ASSUME LexInv, HoldInv, InPath, Stuck, NEW e, Wrong(e), e \notin {"on", "done"}
    PROVE  HoldInv'
<1> DEFINE d == sub.at
           b == BeginsPath(d)
<1>1. /\ ItsText /\ Len(input) \in Nat /\ d \in Nat /\ b \in 1 .. Len(input) + 1 /\ Heads(d, b)
      /\ pos \in b .. Len(input) + 1 /\ Place = d
      /\ PathFits(b, pos, sub.segments, sub.text, sub.started, sub.pending)
  BY PathPlaces
<1>2. /\ Char(pos) = "." \/ Brace(pos) => ~sub.started
      /\ Bracket(pos) => ~sub.started \/ ~Bracketed(pos) \/ \E i \in DOMAIN sub.pending : sub.pending[i] \notin Narrow
      /\ pos <= Len(input) => ~Blank(pos)
      /\ pos <= Len(input) => \/ \A m \in pos + 1 .. Len(input) + 1 : Fragments(pos, m) = {}
                              \/ ~sub.started /\ BareMinus(pos)
  BY DEF Stuck, NoMore
<1> HIDE DEF d, b
<1>3. b \in Nat
  BY <1>1
<1>4. Hopeless(d)
  BY <1>1, <1>2, <1>3, NothingRead
<1> QED
  BY <1>1, <1>4, WrongHolds

LEMMA QuotedPathHolds ==
    ASSUME LexInv, HoldInv, SubQuoted
    PROVE  HoldInv'
<1>1. InPath
  BY DEF SubQuoted
<1>2. Len(input) \in Nat /\ pos \in 1 .. Len(input) + 1
  BY Places
<1>3. ItsText
  BY Places
<1> DEFINE body == QuotedBody(pos + 1)
           e == body.to
           text == body.text
<1>4. Char(pos) = Quote /\ IF body.ok THEN SubAppend(text, e) ELSE Wrong(body.why)
  BY Zenon DEF SubQuoted
<1>5. pos \in 1 .. Len(input)
  BY <1>3, <1>4, Chars DEF Quote
<1>6. /\ ~Blank(pos) /\ ~BareMinus(pos) /\ Char(pos) \notin Closers \cup {"."}
      /\ Char(pos) # "." /\ ~Brace(pos) /\ ~Bracket(pos)
  BY <1>4, Zenon DEF Blank, BareMinus, Closers, Brace, Bracket, Quote, Whitespace, Newline
<1>7. CASE ~body.ok
  <2>1. body.why \in Refusals
    BY <1>3, <1>4, <1>5, <1>7, QuotedShape
  <2>2. Wrong(body.why) /\ body.why \notin {"on", "done"}
    BY <1>4, <1>7, <2>1 DEF Refusals
  <2>3. \A k \in Nat : k <= Len(input) + 1 => ~ReadsQuoted(pos, k)
    BY <1>3, <1>5, <1>7, StringRead
  <2>4. NoMore(pos)
    BY <1>3, <1>4, <1>5, <2>3, NothingOver DEF NoMore
  <2>5. Stuck
    BY <1>6, <2>4, Zenon DEF Stuck
  <2> DEFINE w == body.why
  <2>6. Wrong(w) /\ w \notin {"on", "done"}
    BY <2>2
  <2> HIDE DEF w
  <2> QED
    BY <1>1, <2>5, <2>6, StuckHolds
<1>8. CASE body.ok
  <2>1. SubAppend(text, e)
    BY <1>4, <1>8
  <2>2. e \in pos + 2 .. Len(input) + 1 /\ ReadsQuoted(pos, e)
    BY <1>3, <1>4, <1>5, <1>8, QuotedShape
  <2>3. e \in Nat /\ e <= Len(input) + 1 /\ e \in pos + 1 .. Len(input) + 1
    BY <1>2, <2>2
  <2>4. text = Decoded(pos, e) /\ Decoded(pos, e) \in Seq(Letters)
    <3> HIDE DEF e
    <3> QED
      BY <1>3, <1>5, <2>2, <2>3, StringRead
  <2> HIDE DEF body, e, text
  <2>5. text \in Seq(Letters)
    BY <2>4
  <2>6. Carries(pos, e, text)
    BY <1>3, <1>5, <2>2, <2>3, <2>4, QuotedOver DEF Carries
  <2>7. Passes(pos, e)
    <3>1. \A k \in pos + 1 .. e - 1 : Fragments(pos, k) = {}
      BY <1>3, <1>5, <2>2, <2>3, QuotedOver
    <3>2. \A k \in pos + 1 .. e - 1 : \A m \in pos + 1 .. k : m \in pos + 1 .. e - 1
      BY <1>2, <2>3
    <3> QED
      BY <3>1, <3>2 DEF Passes
  <2>8. EndsPiece(e)
    BY <2>2, Zenon DEF EndsPiece, ReadsQuoted
  <2>9. BeginsPiece(pos)
    BY <1>6, Zenon DEF BeginsPiece
  <2>10. pos <= Len(input)
    BY <1>5
  <2> QED
    BY <1>1, <2>1, <2>3, <2>5, <2>6, <2>7, <2>8, <2>9, <2>10, PieceHolds
<1> QED
  BY <1>7, <1>8

LEMMA WordPathHolds ==
    ASSUME LexInv, HoldInv, SubWord
    PROVE  HoldInv'
<1>1. InPath
  BY DEF SubWord
<1>2. Len(input) \in Nat /\ pos \in 1 .. Len(input) + 1
  BY Places
<1>3. ItsText
  BY Places
<1> DEFINE S == {i \in 1 .. Len(input) : InSubst(input[i])}
           e == Past(pos, S)
           text == Text(pos, e)
           minus == "segment begins with '-'"
<1>4. /\ Char(pos) # "" /\ InSubst(Char(pos))
      /\ ~sub.started /\ BareMinus(pos) => Wrong(minus)
      /\ ~(~sub.started /\ BareMinus(pos)) => SubAppend(text, e)
  BY Zenon DEF SubWord, BareMinus
<1>5. pos \in 1 .. Len(input) /\ pos <= Len(input)
  <2>1. Char(pos) # ""
    BY DEF SubWord
  <2>2. pos \in 1 .. Len(input)
    BY <1>3, <2>1, Chars
  <2> QED
    BY <1>2, <2>2
<1>6. ~Blank(pos) /\ Char(pos) # "." /\ ~Brace(pos) /\ ~Bracket(pos) /\ Char(pos) \notin Closers \cup {"."}
  <2>1. Char(pos) \notin Whitespace /\ Char(pos) \notin Forbidden /\ Char(pos) # "."
    BY <1>4, Zenon DEF InSubst
  <2>2. "}" \in Forbidden /\ "[" \in Forbidden
    BY Zenon DEF Forbidden
  <2>3. ~Blank(pos)
    BY <2>1, Zenon DEF Blank
  <2>4. ~Brace(pos) /\ ~Bracket(pos)
    BY <2>1, <2>2, Zenon DEF Brace, Bracket
  <2>5. Char(pos) \notin Closers \cup {"."}
    BY <2>1, <2>2, Zenon DEF Closers
  <2> QED
    BY <2>1, <2>3, <2>4, <2>5
<1>7. CASE ~sub.started /\ BareMinus(pos)
  <2>1. Wrong(minus)
    BY <1>4, <1>7
  <2>2. Stuck
    BY <1>6, <1>7, Zenon DEF Stuck, NoMore
  <2>3. minus \notin {"on", "done"}
    OBVIOUS
  <2> HIDE DEF minus
  <2> QED
    BY <1>1, <2>1, <2>2, <2>3, StuckHolds
<1>8. CASE ~(~sub.started /\ BareMinus(pos))
  <2>1. SubAppend(text, e)
    BY <1>4, <1>8
  <2>2. \A k \in 1 .. Len(input) : Char(k) = input[k]
    BY <1>3, Chars
  <2>3. Len(input) + 1 \notin S /\ pos \in S /\ \A k \in S : InSubst(Char(k))
    <3>1. Len(input) + 1 \notin 1 .. Len(input)
      BY <1>2
    <3>2. Char(pos) = input[pos]
      BY <1>5, <2>2
    <3>3. InSubst(input[pos])
      BY <1>4, <3>2
    <3> QED
      BY <1>5, <2>2, <3>1, <3>3
  <2> HIDE DEF S
  <2>4. e \in pos .. Len(input) + 1 /\ e \notin S /\ \A k \in pos .. e - 1 : k \in S
    BY <1>2, <2>3, PastStops
  <2> HIDE DEF e
  <2>5. e \in pos + 1 .. Len(input) + 1
    BY <1>2, <2>3, <2>4
  <2>6. \A k \in pos .. e - 1 : InSubst(Char(k))
    BY <2>3, <2>4
  <2>7. text \in Seq(Letters)
    BY <1>2, <1>3, <2>4, TextSplits
  <2> HIDE DEF text
  <2>8. Carries(pos, e, text)
    <3>1. ASSUME NEW k \in e .. Len(input) + 1 PROVE Fragments(pos, k) = After(Text(pos, e), Fragments(e, k))
      BY <1>2, <1>3, <2>4, <2>6, FragmentsOver
    <3> QED
      BY <3>1 DEF Carries, text
  <2>9. Passes(pos, e)
    <3>1. ASSUME NEW k \in pos + 1 .. e - 1 PROVE Char(k) \notin Closers \cup {"."}
      <4>1. k \in pos .. e - 1
        BY <1>2, <2>5
      <4>2. InSubst(Char(k))
        BY <2>6, <4>1
      <4> QED
        BY <4>2, Zenon DEF InSubst, Closers, Forbidden
    <3> QED
      BY <3>1 DEF Passes
  <2>10. EndsPiece(e)
    <3>1. e - 1 \in pos .. e - 1
      BY <1>2, <2>5
    <3> QED
      BY <2>6, <3>1 DEF EndsPiece
  <2>11. BeginsPiece(pos)
    BY <1>6, <1>8, Zenon DEF BeginsPiece
  <2> QED
    BY <1>1, <1>5, <2>1, <2>5, <2>7, <2>8, <2>9, <2>10, <2>11, PieceHolds
<1> QED
  BY <1>7, <1>8

LEMMA DotHolds ==
    ASSUME LexInv, HoldInv, SubDot
    PROVE  HoldInv'
<1>1. InPath /\ Char(pos) = "."
  BY DEF SubDot
<1> DEFINE b == BeginsPath(sub.at)
<1>2. /\ ItsText /\ Len(input) \in Nat /\ b \in 1 .. Len(input) + 1
      /\ pos \in b .. Len(input) + 1 /\ SubFields \cup {"open", "at", "col", "started"} \subseteq DOMAIN sub
      /\ PathFits(b, pos, sub.segments, sub.text, sub.started, sub.pending)
  BY <1>1, PathPlaces
<1>3. pos \in 1 .. Len(input)
  <2>1. Char(pos) # ""
    BY <1>1
  <2> QED
    BY <1>2, <2>1, Chars
<1>4. Char(pos) \in Closers \cup {"."}
  BY <1>1
<1>5. ~Blank(pos) /\ \A k \in pos + 1 .. Len(input) + 1 : Fragments(pos, k) = {}
  BY <1>2, <1>3, <1>4, StopsReading
<1>6. CASE ~sub.started
  <2> DEFINE e == "empty segment in path"
  <2>1. Wrong(e)
    BY <1>6, Zenon DEF SubDot
  <2>2. ~Bracket(pos)
    BY <1>1, Zenon DEF Bracket
  <2>3. Stuck
    BY <1>5, <1>6, <2>2 DEF Stuck, NoMore
  <2>4. e \notin {"on", "done"}
    OBVIOUS
  <2> HIDE DEF e
  <2> QED
    BY <1>1, <2>1, <2>3, <2>4, StuckHolds
<1>7. CASE sub.started
  <2> DEFINE segments == Append(sub.segments, sub.text)
  <2>1. /\ pos' = pos + 1 /\ UNCHANGED <<input, blanks, tokens, lexing>>
        /\ sub' = [sub EXCEPT !.segments = segments, !.text = <<>>, !.started = FALSE, !.pending = <<>>]
    BY <1>7, Zenon DEF SubDot
  <2>2. PathBegun(b, pos, sub.segments, sub.text, sub.pending)
    BY <1>2, <1>7 DEF PathBegun, PathFits
  <2>3. PathFits(b, pos + 1, segments, <<>>, FALSE, <<>>)
    <3>1. PathFits(b, pos, sub.segments, sub.text, TRUE, sub.pending)
      BY <2>2 DEF PathBegun
    <3>2. b \in 1 .. Len(input) /\ pos \in b .. Len(input)
      BY <1>2, <1>3
    <3> HIDE DEF b
    <3> QED
      BY <1>1, <1>2, <3>1, <3>2, DotGoes
  <2> HIDE DEF segments, b
  <2>4. /\ sub'.open = sub.open /\ sub'.at = sub.at /\ sub'.optional = sub.optional /\ SubFields \subseteq DOMAIN sub'
        /\ sub'.segments = segments /\ sub'.text = <<>> /\ sub'.started = FALSE /\ sub'.pending = <<>>
    BY <1>2, <2>1 DEF SubFields
  <2>5. PathFits(b, pos', sub'.segments, sub'.text, sub'.started, sub'.pending)
    BY <2>1, <2>3, <2>4
  <2> QED
    BY <1>1, <2>1, <2>4, <2>5, PathHolds DEF b
<1> QED
  BY <1>6, <1>7

LEMMA BlankPathHolds ==
    ASSUME LexInv, HoldInv, SubBlank
    PROVE  HoldInv'
<1>1. InPath /\ Blank(pos)
  BY DEF SubBlank, Blank
<1> DEFINE b == BeginsPath(sub.at)
<1>2. /\ ItsText /\ Len(input) \in Nat /\ b \in 1 .. Len(input) + 1
      /\ pos \in b .. Len(input) + 1 /\ SubFields \cup {"open", "at", "col", "started"} \subseteq DOMAIN sub
      /\ PathFits(b, pos, sub.segments, sub.text, sub.started, sub.pending)
  BY <1>1, PathPlaces
<1>3. pos \in 1 .. Len(input)
  <2>1. Char(pos) # ""
    BY <1>1 DEF Blank, Whitespace, Newline
  <2> QED
    BY <1>2, <2>1, Chars
<1> DEFINE pending == Append(sub.pending, Char(pos))
<1>4. /\ pos' = pos + 1 /\ UNCHANGED <<input, blanks, tokens, lexing>>
      /\ sub' = [sub EXCEPT !.pending = pending]
  BY Zenon DEF SubBlank
<1>5. PathFits(b, pos + 1, sub.segments, sub.text, sub.started, pending)
  <2>1. b \in 1 .. Len(input) /\ pos \in b .. Len(input)
    BY <1>2, <1>3
  <2> HIDE DEF b
  <2> QED
    BY <1>1, <1>2, <2>1, BlankGoes
<1> HIDE DEF pending, b
<1>6. /\ sub'.open = sub.open /\ sub'.at = sub.at /\ sub'.optional = sub.optional /\ SubFields \subseteq DOMAIN sub'
      /\ sub'.segments = sub.segments /\ sub'.text = sub.text /\ sub'.started = sub.started /\ sub'.pending = pending
  BY <1>2, <1>4 DEF SubFields
<1>7. PathFits(b, pos', sub'.segments, sub'.text, sub'.started, sub'.pending)
  BY <1>4, <1>5, <1>6
<1> QED
  BY <1>1, <1>4, <1>6, <1>7, PathHolds DEF b

\* The substitution is a token.
LEMMA PayloadHolds ==
    ASSUME LexInv, HoldInv, InPath, NEW segments, NEW list, NEW j, EndSubst(segments, list, j),
           Payloads(sub.at, j) = {[segments |-> segments, optional |-> sub.optional, list |-> list]},
           j \in 1 .. Len(input) + 1
    PROVE  HoldInv'
<1> DEFINE payload == [segments |-> segments, optional |-> sub.optional, list |-> list]
           t == Token("subst", <<>>, payload, sub.at, j, sub.col)
<1>1. Push(t) /\ pos' = j /\ sub' = NoSub /\ UNCHANGED <<input, lexing>>
  BY DEF EndSubst
<1>2. Payloads(sub.at, j) = {payload}
  OBVIOUS
<1> HIDE DEF payload
<1>3. t.kind = "subst" /\ t.from = sub.at /\ t.to = j /\ t.blanks = blanks /\ t.subst = payload
  BY DEF Token
<1> HIDE DEF t
<1>4. tokens' = Append(tokens, t) /\ blanks' = <<>>
  BY <1>1 DEF Push
<1>5. ~sub'.open /\ SubFields \subseteq DOMAIN sub'
  BY <1>1 DEF NoSub, SubFields
<1>6. lexing' = "on" /\ BlanksTo(t.from)
  BY <1>1, <1>3 DEF InPath, HoldInv
<1>7. t.kind # "eof" /\ t.kind # "quoted" /\ Payloads(t.from, t.to) = {t.subst} /\ t.to = pos' /\ pos' \in 1 .. Len(input) + 1
  BY <1>1, <1>2, <1>3
<1>8. input' = input
  BY <1>1
<1> QED
  BY <1>3, <1>4, <1>5, <1>6, <1>7, <1>8, PushHolds
(* ------------------------ braces and brackets ----------------------- *)

\* A closing brace or a bracket is no part of a path.
LEMMA ClosersStop ==
    ASSUME LexInv, Brace(pos) \/ Bracket(pos)
    PROVE  pos \in 1 .. Len(input) /\ ~Blank(pos) /\ NoMore(pos) /\ Char(pos) # "." /\ (Brace(pos) => ~Bracket(pos))
<1>1. ItsText
  BY Places
<1>2. Char(pos) # "" /\ Char(pos) # "." /\ (Brace(pos) => ~Bracket(pos)) /\ Char(pos) \in Closers \cup {"."}
  BY Zenon DEF Brace, Bracket, Closers
<1>3. pos \in 1 .. Len(input)
  BY <1>1, <1>2, Chars
<1>4. ~Blank(pos) /\ \A k \in pos + 1 .. Len(input) + 1 : Fragments(pos, k) = {}
  BY <1>1, <1>2, <1>3, StopsReading
<1> QED
  BY <1>2, <1>3, <1>4 DEF NoMore

\* The payload of a path without and with the suffix [].
OneRead(d, segs)  == {[segments |-> segs, optional |-> (Char(d + 2) = "?"), list |-> FALSE]}
ListRead(d, segs) == {[segments |-> segs, optional |-> (Char(d + 2) = "?"), list |-> TRUE]}

LEMMA BraceReads ==
    ASSUME ItsText, NEW d \in Nat, NEW b \in Nat, Heads(d, b), NEW p \in b .. Len(input), Brace(p),
           NEW segs, NEW text, NEW pending, PathBegun(b, p, segs, text, pending)
    PROVE  Payloads(d, p + 1) = OneRead(d, Append(segs, text))
<1>1. Payloads(d, p + 1) = {[segments |-> Append(segs, text), optional |-> (Char(d + 2) = "?"), list |-> FALSE]}
  BY EndReads
<1> QED
  BY <1>1, Zenon DEF OneRead

LEMMA BracketReads ==
    ASSUME ItsText, NEW d \in Nat, NEW b \in Nat, Heads(d, b), NEW p \in b .. Len(input), Bracketed(p),
           NEW segs, NEW text, NEW pending, PathBegun(b, p, segs, text, pending),
           \A i \in DOMAIN pending : pending[i] \in Narrow
    PROVE  Payloads(d, p + 3) = ListRead(d, Append(segs, text))
<1>1. Payloads(d, p + 3) = {[segments |-> Append(segs, text), optional |-> (Char(d + 2) = "?"), list |-> TRUE]}
  BY ListReads
<1> QED
  BY <1>1, Zenon DEF ListRead

LEMMA BraceHolds ==
    ASSUME LexInv, HoldInv, SubEnd
    PROVE  HoldInv'
<1>1. InPath /\ Brace(pos)
  BY Zenon DEF SubEnd, Brace
<1>2. pos \in 1 .. Len(input) /\ ~Blank(pos) /\ NoMore(pos) /\ Char(pos) # "." /\ ~Bracket(pos)
  BY <1>1, ClosersStop
<1>3. CASE ~sub.started
  <2> DEFINE e == IF sub.segments = <<>> THEN "empty substitution path" ELSE "empty segment in path"
  <2>1. Wrong(e)
    BY <1>3, Zenon DEF SubEnd
  <2>2. Stuck
    BY <1>2, <1>3 DEF Stuck
  <2>3. e \notin {"on", "done"}
    OBVIOUS
  <2> HIDE DEF e
  <2> QED
    BY <1>1, <2>1, <2>2, <2>3, StuckHolds
<1>4. CASE sub.started
  <2> DEFINE d == sub.at
             b == BeginsPath(d)
             segments == Append(sub.segments, sub.text)
             j == pos + 1
             list == FALSE
  <2>1. /\ ItsText /\ Len(input) \in Nat /\ d \in Nat /\ b \in 1 .. Len(input) + 1 /\ Heads(d, b)
        /\ pos \in b .. Len(input) + 1
        /\ PathFits(b, pos, sub.segments, sub.text, sub.started, sub.pending) /\ sub.optional = (Char(d + 2) = "?")
    BY <1>1, PathPlaces
  <2>2. PathBegun(b, pos, sub.segments, sub.text, sub.pending)
    <3> HIDE DEF b
    <3> QED
      BY <1>4, <2>1 DEF PathBegun, PathFits
  <2>3. b \in Nat /\ pos \in b .. Len(input) /\ j \in 1 .. Len(input) + 1
    BY <1>2, <2>1
  <2>4. Payloads(d, pos + 1) = OneRead(d, Append(sub.segments, sub.text))
    <3> HIDE DEF b, d
    <3> QED
      BY <1>1, <2>1, <2>2, <2>3, BraceReads
  <2>5. EndSubst(segments, list, j)
    BY <1>4, Zenon DEF SubEnd
  <2>6. Payloads(sub.at, j) = {[segments |-> segments, optional |-> sub.optional, list |-> list]}
    BY <2>1, <2>4, Zenon DEF OneRead
  <2> HIDE DEF segments, list, j, d, b
  <2> QED
    BY <1>1, <2>3, <2>5, <2>6, PayloadHolds
<1> QED
  BY <1>3, <1>4

LEMMA BracketHolds ==
    ASSUME LexInv, HoldInv, SubList
    PROVE  HoldInv'
<1> DEFINE wide == \E i \in DOMAIN sub.pending : sub.pending[i] \notin Narrow
           segments == Append(sub.segments, sub.text)
           e1 == "empty segment before []"
           e2 == "blank before []"
           e3 == "malformed []"
           j == pos + 3
           list == TRUE
<1>1. InPath /\ Bracket(pos)
  BY Zenon DEF SubList, Bracket
<1>2. /\ ~sub.started => Wrong(e1)
      /\ sub.started /\ wide => Wrong(e2)
      /\ sub.started /\ ~wide => IF Bracketed(pos) THEN EndSubst(segments, list, j) ELSE Wrong(e3)
  BY Zenon DEF SubList, Narrow, Bracketed
<1>3. pos \in 1 .. Len(input) /\ ~Blank(pos) /\ NoMore(pos) /\ Char(pos) # "." /\ ~Brace(pos)
  BY <1>1, ClosersStop
<1>4. e1 \notin {"on", "done"} /\ e2 \notin {"on", "done"} /\ e3 \notin {"on", "done"}
  OBVIOUS
<1>5. CASE ~sub.started \/ wide \/ ~Bracketed(pos)
  <2>1. Stuck
    BY <1>3, <1>5, Zenon DEF Stuck
  <2>2. Wrong(e1) \/ Wrong(e2) \/ Wrong(e3)
    BY <1>2, <1>5, Zenon
  <2> HIDE DEF e1, e2, e3
  <2> QED
    BY <1>1, <1>4, <2>1, <2>2, StuckHolds
<1>6. CASE sub.started /\ ~wide /\ Bracketed(pos)
  <2> DEFINE d == sub.at
             b == BeginsPath(d)
  <2>1. /\ ItsText /\ Len(input) \in Nat /\ d \in Nat /\ b \in 1 .. Len(input) + 1 /\ Heads(d, b)
        /\ pos \in b .. Len(input) + 1
        /\ PathFits(b, pos, sub.segments, sub.text, sub.started, sub.pending) /\ sub.optional = (Char(d + 2) = "?")
    BY <1>1, PathPlaces
  <2>2. PathBegun(b, pos, sub.segments, sub.text, sub.pending)
    <3> HIDE DEF b
    <3> QED
      BY <1>6, <2>1 DEF PathBegun, PathFits
  <2>3. Brace(pos + 2)
    <3>1. pos \in Int
      BY <1>3
    <3> QED
      BY <1>6, <3>1, BracketedIs
  <2>4. pos + 2 \in 1 .. Len(input)
    <3>1. Char(pos + 2) # ""
      BY <2>3, Zenon DEF Brace
    <3> QED
      BY <2>1, <3>1, Chars
  <2>5. b \in Nat /\ pos \in b .. Len(input) /\ j \in 1 .. Len(input) + 1
    BY <1>3, <2>1, <2>4
  <2>6. \A i \in DOMAIN sub.pending : sub.pending[i] \in Narrow
    BY <1>6
  <2>7. Payloads(d, pos + 3) = ListRead(d, Append(sub.segments, sub.text))
    <3> HIDE DEF b, d
    <3> QED
      BY <1>6, <2>1, <2>2, <2>5, <2>6, BracketReads
  <2>8. EndSubst(segments, list, j)
    BY <1>2, <1>6
  <2>9. Payloads(sub.at, j) = {[segments |-> segments, optional |-> sub.optional, list |-> list]}
    BY <2>1, <2>7, Zenon DEF ListRead
  <2> HIDE DEF segments, list, j, d, b
  <2> QED
    BY <1>1, <2>5, <2>8, <2>9, PayloadHolds
<1> QED
  BY <1>5, <1>6

LEMMA StrayHolds ==
    ASSUME LexInv, HoldInv, SubUnexpected
    PROVE  HoldInv'
<1> DEFINE e == IF Char(pos) \in {"", Newline} THEN "unterminated substitution" ELSE "unexpected character"
<1>1. InPath /\ Wrong(e) /\ Char(pos) \in {"", Newline, "+"} \cup (Forbidden \ (Closers \cup {Quote}))
  BY Zenon DEF SubUnexpected, Closers
<1>2. Char(pos) # "." /\ ~Brace(pos) /\ ~Bracket(pos) /\ ~Blank(pos) /\ Char(pos) # Quote
  <2>1. Char(pos) # "." /\ Char(pos) # Quote /\ Char(pos) \notin Closers
    BY <1>1, Zenon DEF Forbidden, Closers, Quote, Newline, Backslash
  <2>2. ~Brace(pos) /\ ~Bracket(pos)
    BY <2>1, Zenon DEF Closers, Brace, Bracket
  <2>3. ~Blank(pos)
    BY <1>1, Zenon DEF Blank, Whitespace, Forbidden, Quote, Newline, Backslash
  <2> QED
    BY <2>1, <2>2, <2>3
<1>3. Char(pos) # "" => ~InSubst(Char(pos))
  BY <1>1, Zenon DEF InSubst, Whitespace
<1>4. pos <= Len(input) => NoMore(pos)
  <2>1. ItsText /\ Len(input) \in Nat /\ pos \in 1 .. Len(input) + 1
    BY Places
  <2>2. ASSUME pos <= Len(input) PROVE \A m \in pos + 1 .. Len(input) + 1 : Fragments(pos, m) = {}
    <3>1. pos \in 1 .. Len(input)
      BY <2>1, <2>2
    <3>2. Char(pos) # ""
      BY <2>1, <3>1, Chars
    <3> QED
      BY <1>2, <1>3, <2>1, <3>1, <3>2, NothingOver
  <2> QED
    BY <2>2 DEF NoMore
<1>5. Stuck
  BY <1>2, <1>4, Zenon DEF Stuck
<1>6. e \notin {"on", "done"}
  OBVIOUS
<1> HIDE DEF e
<1> QED
  BY <1>1, <1>5, <1>6, StuckHolds

\* The invariant holds before the first character,
LEMMA HoldStart ==
    ASSUME LexInit
    PROVE  HoldInv
<1>1. /\ tokens = <<>> /\ sub = NoSub /\ lexing = "on" /\ blanks = <<>>
      /\ pos = (IF Len(input) > 0 /\ input[1] = "bom" THEN 2 ELSE 1)
  BY DEF LexInit
<1>2. LexInv
  BY TextStart
<1>3. ItsText /\ Len(input) \in Nat /\ pos \in 1 .. Len(input) + 1
  BY <1>2, Places
<1>4. sub.open = FALSE /\ {"optional", "text", "pending", "segments"} \subseteq DOMAIN sub
  BY <1>1 DEF NoSub
<1>5. AllRead
  BY <1>1 DEF AllRead
<1>6. Since = pos
  <2>1. Since = Home
    <3>1. Len(tokens) + 1 = 1
      BY <1>1
    <3> QED
      BY <3>1 DEF Since, GapBefore
  <2>2. CASE Len(input) > 0 /\ input[1] = "bom"
    <3>1. 1 \in 1 .. Len(input)
      BY <1>3, <2>2
    <3>2. Char(1) = "bom"
      BY <2>2, <3>1 DEF Char
    <3> QED
      BY <1>1, <2>1, <2>2, <3>2 DEF Home
  <2>3. CASE ~(Len(input) > 0 /\ input[1] = "bom")
    <3>1. Char(1) # "bom"
      BY <1>3, <2>3 DEF Char
    <3> QED
      BY <1>1, <2>1, <2>3, <3>1 DEF Home
  <2> QED
    BY <2>2, <2>3
<1>7. BlanksTo(pos)
  <2>1. BlanksIn(pos, pos) = <<>>
    BY <1>3, InOrderTurn DEF BlanksIn
  <2>2. pos .. pos - 1 = {}
    BY <1>3
  <2> QED
    BY <1>1, <1>6, <2>1, <2>2 DEF BlanksTo
<1> QED
  BY <1>1, <1>4, <1>5, <1>7 DEF HoldInv

\* each step keeps it,
LEMMA StepHolds ==
    ASSUME LexInv, HoldInv, LexStep
    PROVE  HoldInv'
<1>1. CASE SubStep
  BY <1>1, QuotedPathHolds, WordPathHolds, DotHolds, BlankPathHolds, BraceHolds, BracketHolds, StrayHolds DEF SubStep
<1>2. CASE ~SubStep
  BY <1>2, NewlineHolds, BlankHolds, WordHolds, QuotedHolds, TripleHolds, SubstHolds, UnexpectedHolds, EndHolds
     DEF LexStep
<1> QED
  BY <1>1, <1>2

\* and the steps of the parser leave it alone.
LEMMA RestHolds ==
    ASSUME LexInv, HoldInv, UNCHANGED lexer
    PROVE  HoldInv'
<1>1. UNCHANGED <<input, pos, tokens, blanks, sub, lexing>>
  BY DEF lexer
<1>2. AllRead'
  BY <1>1, StillRead DEF HoldInv
<1>3. SubFields \subseteq DOMAIN sub'
  BY <1>1 DEF HoldInv, SubFields
<1>4. lexing = "on" /\ ~sub.open => BlanksTo(pos)'
  BY <1>1, KeptBlanks DEF HoldInv
<1>5. lexing = "on" /\ sub.open => BlanksTo(sub.at)' /\ PathAt'
  <2> SUFFICES ASSUME lexing = "on", sub.open PROVE BlanksTo(sub.at)' /\ PathAt'
    OBVIOUS
  <2>1. BlanksTo(sub.at) /\ PathAt
    BY DEF HoldInv
  <2>2. BlanksTo(sub.at)'
    BY <1>1, <2>1, KeptBlanks
  <2>3. sub.optional = (Char(sub.at + 2) = "?")
        /\ PathFits(BeginsPath(sub.at), pos, sub.segments, sub.text, sub.started, sub.pending)
    BY <2>1 DEF PathAt
  <2>4. PathAt'
    BY <1>1, <2>3, NextPath
  <2> QED
    BY <2>2, <2>4
<1>6. lexing \notin {"on", "done"} => Hopeless(Place)'
  BY <1>1, SameReadings DEF HoldInv, Place
<1> QED
  BY <1>1, <1>2, <1>3, <1>4, <1>5, <1>6 DEF HoldInv, SubFields

\* The tokens read so far, the substitution being read and the error.
LEMMA HoldKeeps == Spec => []HoldInv
<1>1. Init => HoldInv
  BY HoldStart DEF Init
<1>2. LexInv /\ HoldInv /\ [Next]_vars => HoldInv'
  <2> SUFFICES ASSUME LexInv, HoldInv, [Next]_vars PROVE HoldInv'
    OBVIOUS
  <2>1. CASE LexStep
    BY <2>1, StepHolds
  <2>2. CASE ParseStep
    BY <2>2, ParserOnly, RestHolds
  <2>3. CASE UNCHANGED vars
    BY <2>3, RestHolds DEF vars
  <2> QED
    BY <2>1, <2>2, <2>3 DEF Next
<1> QED
  BY <1>1, <1>2, LexerKeeps, PTL DEF Spec

(* ------------------------------ the theorem ---------------------------- *)
\* For every text: a quoted token holds what its escapes stand for, a substitution
\* the one path that can be read between its braces (with its blanks, strings and
\* suffix), a token the blanks before it, and no text is refused where a token
\* could have been read (read_quoted_body, parse_subst_body, tokenize).
THEOREM TokensRead == Spec => []TokensDecoded
<1>1. HoldInv => TokensDecoded
  BY DEF HoldInv, AllRead, Place, TokensDecoded
<1> QED
  BY <1>1, HoldKeeps, PTL
=============================================================================
