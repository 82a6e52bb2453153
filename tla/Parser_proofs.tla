---------------------------- MODULE Parser_proofs ----------------------------
(***************************************************************************)
(* Four results for every text and every limit on nesting.  The recursion  *)
(* of the parser is bounded: CallsNest is inductive once the stack is      *)
(* known to be a sequence of records.  Reading ends: the cursor stays      *)
(* within the tokens, and Fuel falls with every step.  The counter of the  *)
(* parser is the nesting of the document at the cursor.  And the variables *)
(* have their types.  What an action does to the stack is a push, a        *)
(* replacement or a return, and each has a lemma for each of the first     *)
(* three results.                                                          *)
(***************************************************************************)
EXTENDS Lexer_proofs

Shaped(s) ==
    /\ \E S : s \in Seq(S)
    /\ \A i \in DOMAIN s : "t" \in DOMAIN s[i]
    /\ Alternates(s)

(* -------------------------- what happens to a stack -------------------- *)
\* A frame is pushed where its call may stand.
LEMMA PushShaped ==
    ASSUME NEW s, Shaped(s), s # <<>>, NEW f, "t" \in DOMAIN f,
           \/ s[Len(s)].t \in {"root", "value"} /\ f.t \in {"object", "array"}
           \/ s[Len(s)].t \in {"object", "array"} /\ f.t = "value"
           \/ s[Len(s)].t = "object" /\ f.t = "key"
    PROVE  Shaped(Append(s, f)) /\ Len(Append(s, f)) = Len(s) + 1
<1>1. PICK S : s \in Seq(S)
  BY DEF Shaped
<1> DEFINE u == Append(s, f)
<1>2. u \in Seq(S \cup {f})
  <2>1. s \in Seq(S \cup {f})
    BY <1>1
  <2> QED
    BY <2>1
<1>3. /\ Len(u) = Len(s) + 1 /\ Len(s) \in Nat \ {0}
      /\ DOMAIN u = 1 .. Len(s) + 1 /\ DOMAIN s = 1 .. Len(s)
      /\ \A i \in DOMAIN s : u[i] = s[i]
      /\ u[Len(s) + 1] = f
  BY <1>1
<1> HIDE DEF u
<1>4. ASSUME NEW i \in DOMAIN u
      PROVE  "t" \in DOMAIN u[i] /\ Stands(u, i)
  <2>1. CASE i = Len(s) + 1
    BY <1>3, <2>1 DEF Shaped, Alternates, Stands
  <2>2. CASE i \in DOMAIN s
    BY <1>3, <2>2 DEF Shaped, Alternates, Stands
  <2> QED
    BY <1>3, <2>1, <2>2
<1> QED
  BY <1>2, <1>3, <1>4 DEF Shaped, Alternates, u

\* The top frame changes and keeps its kind.
LEMMA ReplaceShaped ==
    ASSUME NEW s, Shaped(s), s # <<>>, NEW f, "t" \in DOMAIN f, f.t = s[Len(s)].t
    PROVE  /\ Shaped(Replace(s, f)) /\ Len(Replace(s, f)) = Len(s)
           /\ Replace(s, f) # <<>> /\ Replace(s, f)[Len(s)] = f
<1>1. PICK S : s \in Seq(S)
  BY DEF Shaped
<1> DEFINE u == Replace(s, f)
<1>2. u \in Seq(S \cup {f})
  BY <1>1 DEF Replace
<1>3. /\ Len(u) = Len(s) /\ Len(s) \in Nat \ {0}
      /\ DOMAIN u = 1 .. Len(s) /\ DOMAIN s = 1 .. Len(s)
      /\ \A i \in DOMAIN s : u[i] = IF i = Len(s) THEN f ELSE s[i]
  BY <1>1 DEF Replace
<1> HIDE DEF u
<1>4. ASSUME NEW i \in DOMAIN u
      PROVE  "t" \in DOMAIN u[i] /\ Stands(u, i)
  BY <1>3 DEF Shaped, Alternates, Stands
<1>5. u # <<>>
  BY <1>2, <1>3
<1> QED
  BY <1>2, <1>3, <1>4, <1>5 DEF Shaped, Alternates, u

\* A call returns to the one below it.
LEMMA PopShaped ==
    ASSUME NEW s, Shaped(s), Len(s) > 1
    PROVE  LET below == SubSeq(s, 1, Len(s) - 1) IN
           /\ Shaped(below) /\ Len(below) = Len(s) - 1 /\ below # <<>>
           /\ below[Len(below)] = s[Len(s) - 1]
<1>1. PICK S : s \in Seq(S)
  BY DEF Shaped
<1> DEFINE u == SubSeq(s, 1, Len(s) - 1)
<1>2. u \in Seq(S)
  BY <1>1
<1>3. /\ Len(u) = Len(s) - 1 /\ Len(s) \in Nat
      /\ DOMAIN u = 1 .. Len(s) - 1 /\ DOMAIN s = 1 .. Len(s)
      /\ \A i \in DOMAIN u : u[i] = s[i]
  BY <1>1
<1> HIDE DEF u
<1>4. ASSUME NEW i \in DOMAIN u
      PROVE  "t" \in DOMAIN u[i] /\ Stands(u, i)
  BY <1>3 DEF Shaped, Alternates, Stands
<1>5. u # <<>>
  BY <1>2, <1>3
<1> QED
  BY <1>2, <1>3, <1>4, <1>5 DEF Shaped, Alternates, u

\* A frame that takes in a value is the frame it was.
LEMMA ReceiveShaped ==
    ASSUME NEW s, Shaped(s), s # <<>>, NEW node
    PROVE  Shaped(Receive(s, node)) /\ Len(Receive(s, node)) = Len(s)
<1> DEFINE f == s[Len(s)]
<1> DEFINE g == CASE f.t = "value"  -> [f EXCEPT !.parts = Append(@, node)]
                  [] f.t = "object" -> [f EXCEPT !.fields = Append(@, Field(f.key, f.append, node))]
                  [] f.t = "array"  -> [f EXCEPT !.items = Append(@, node)]
                  [] OTHER          -> [f EXCEPT !.node = IF node.t = "object"
                                                          THEN Object(@.fields \o node.fields)
                                                          ELSE node]
<1>1. "t" \in DOMAIN f
  BY DEF Shaped
<1>2. "t" \in DOMAIN g /\ g.t = f.t
  <2>1. CASE f.t = "value"
    <3>1. g = [f EXCEPT !.parts = Append(@, node)]
      BY <2>1, Zenon
    <3> QED
      BY <1>1, <3>1
  <2>2. CASE f.t = "object"
    <3>1. g = [f EXCEPT !.fields = Append(@, Field(f.key, f.append, node))]
      BY <2>2, Zenon
    <3> QED
      BY <1>1, <3>1
  <2>3. CASE f.t = "array"
    <3>1. g = [f EXCEPT !.items = Append(@, node)]
      BY <2>3, Zenon
    <3> QED
      BY <1>1, <3>1
  <2>4. CASE f.t \notin {"value", "object", "array"}
    <3>1. g = [f EXCEPT !.node = IF node.t = "object" THEN Object(@.fields \o node.fields) ELSE node]
      BY <2>4, Zenon
    <3> QED
      BY <1>1, <3>1
  <2> QED
    BY <2>1, <2>2, <2>3, <2>4
<1>3. Receive(s, node) = Replace(s, g)
  BY DEF Receive
<1> HIDE DEF g
<1>4. Shaped(Replace(s, g)) /\ Len(Replace(s, g)) = Len(s)
  BY <1>2, ReplaceShaped
<1> QED
  BY <1>3, <1>4

(* -------------------------------- the steps ---------------------------- *)
\* The inductive invariant.
CallsInv ==
    /\ CallsNest
    /\ stack = <<>> \/ Shaped(stack)
    /\ parsing = "off" => stack = <<>>

\* Which calls are in progress tells how many: the counter is raised between an
\* object or an array and the values in it.
LEMMA Parity ==
    ASSUME CallsInv, stack # <<>>
    PROVE  /\ Shaped(stack) /\ Len(stack) \in Nat \ {0} /\ depth \in Nat
           /\ Top.t \in {"root", "value", "key"} => Len(stack) = 2 * depth + 1
           /\ Top.t \in {"object", "array"} => Len(stack) = 2 * depth /\ depth >= 1
           /\ Top.t = "root" => Len(stack) = 1
           /\ Top.t = "key" => stack[Len(stack) - 1].t = "object"
           /\ Top.t \in {"value", "key"} => Len(stack) > 1
<1>1. Shaped(stack)
  BY DEF CallsInv
<1>2. PICK S : stack \in Seq(S)
  BY <1>1 DEF Shaped
<1>3. Len(stack) \in Nat \ {0} /\ DOMAIN stack = 1 .. Len(stack)
  BY <1>2
<1>4. Stands(stack, Len(stack))
  BY <1>1, <1>3 DEF Shaped, Alternates
<1>5. depth \in Nat /\ Len(stack) \in {2 * depth, 2 * depth + 1}
  BY DepthAssumption DEF CallsInv, CallsNest
<1>6. Top.t \in {"root", "value", "key"} => Len(stack) % 2 = 1
  BY <1>3, <1>4 DEF Stands, Top
<1>7. Top.t \in {"object", "array"} => Len(stack) % 2 = 0
  BY <1>3, <1>4 DEF Stands, Top
<1>8. /\ Top.t = "root" => Len(stack) = 1
      /\ Top.t = "key" => stack[Len(stack) - 1].t = "object"
      /\ Top.t \in {"value", "key"} => Len(stack) > 1
  BY <1>3, <1>4 DEF Stands, Top
<1>9. /\ Len(stack) % 2 = 1 => Len(stack) = 2 * depth + 1
      /\ Len(stack) % 2 = 0 => Len(stack) = 2 * depth
  BY <1>5
<1>10. Len(stack) = 2 * depth => depth >= 1
  BY <1>3, <1>5
<1> QED
  BY <1>1, <1>3, <1>5, <1>6, <1>7, <1>8, <1>9, <1>10

LEMMA RefuseKeeps ==
    ASSUME CallsInv, NEW error, parsing = "on", Refuse(error)
    PROVE  CallsInv'
BY DEF CallsInv, CallsNest, Refuse, Shaped, Alternates, Stands

\* enter, below a value or the root.
LEMMA EnterKeeps ==
    ASSUME CallsInv, parsing = "on", stack # <<>>, Top.t \in {"root", "value"},
           NEW i, NEW s, Shaped(s), Len(s) = Len(stack), s # <<>>, s[Len(s)].t = Top.t,
           NEW frame, "t" \in DOMAIN frame, frame.t \in {"object", "array"},
           Enter(i, s, frame)
    PROVE  CallsInv'
<1>1. CASE depth + 1 > MaxDepth
  <2>1. Refuse("too deep")
    BY <1>1 DEF Enter
  <2> QED
    BY <2>1, RefuseKeeps
<1>2. CASE ~(depth + 1 > MaxDepth)
  <2>1. depth' = depth + 1 /\ stack' = Append(s, frame) /\ parsing' = parsing
    BY <1>2 DEF Enter, Go
  <2>2. Shaped(Append(s, frame)) /\ Len(Append(s, frame)) = Len(s) + 1
    BY PushShaped
  <2>3. Len(stack) = 2 * depth + 1 /\ depth \in Nat
    BY Parity
  <2> QED
    BY <1>2, <2>1, <2>2, <2>3, DepthAssumption DEF CallsInv, CallsNest, Shaped, Alternates, Stands
<1> QED
  BY <1>1, <1>2

\* leave.
LEMMA LeaveKeeps ==
    ASSUME CallsInv, parsing = "on", stack # <<>>, Top.t \in {"object", "array"},
           NEW i, NEW node, Leave(i, node)
    PROVE  CallsInv'
<1>1. depth' = depth - 1 /\ stack' = Receive(Below, node) /\ parsing' = parsing
  BY DEF Leave, Go
<1>2. Shaped(stack) /\ Len(stack) = 2 * depth /\ depth >= 1 /\ depth \in Nat
  BY Parity
<1>3. Shaped(Below) /\ Len(Below) = Len(stack) - 1 /\ Below # <<>>
  BY <1>2, PopShaped DEF Below
<1>4. Shaped(Receive(Below, node)) /\ Len(Receive(Below, node)) = Len(stack) - 1
  BY <1>3, ReceiveShaped
<1> QED
  BY <1>1, <1>2, <1>4, DepthAssumption DEF CallsInv, CallsNest, Shaped, Alternates, Stands

\* A step within the calls of an object or an array.
LEMMA StayKeeps ==
    ASSUME CallsInv, parsing = "on", stack # <<>>, NEW i, NEW s, Shaped(s),
           Len(s) \in {2 * depth, 2 * depth + 1}, Go(i, s), UNCHANGED depth
    PROVE  CallsInv'
BY DEF CallsInv, CallsNest, Shaped, Alternates, Stands, Go

\* A turn of the loop of a call.
LEMMA TurnKeeps ==
    ASSUME CallsInv, parsing = "on", stack # <<>>, NEW i, NEW f,
           "t" \in DOMAIN f, f.t = Top.t, Go(i, Replace(stack, f)), UNCHANGED depth
    PROVE  CallsInv'
<1>1. Shaped(Replace(stack, f)) /\ Len(Replace(stack, f)) = Len(stack)
  BY Parity, ReplaceShaped DEF Top
<1>2. Len(stack) \in {2 * depth, 2 * depth + 1}
  BY DEF CallsInv, CallsNest
<1> QED
  BY <1>1, <1>2, StayKeeps

\* An object or an array begins a key or a value.
LEMMA CallKeeps ==
    ASSUME CallsInv, parsing = "on", stack # <<>>, NEW i, NEW f, "t" \in DOMAIN f,
           \/ Top.t \in {"object", "array"} /\ f.t = "value"
           \/ Top.t = "object" /\ f.t = "key",
           Go(i, Append(stack, f)), UNCHANGED depth
    PROVE  CallsInv'
<1>1. Shaped(Append(stack, f)) /\ Len(Append(stack, f)) = Len(stack) + 1
  BY Parity, PushShaped DEF Top
<1>2. Len(stack) = 2 * depth
  BY Parity
<1> QED
  BY <1>1, <1>2, StayKeeps

(* ------------------------------- the theorem --------------------------- *)
LEMMA DocumentKeeps ==
    ASSUME CallsInv,
           Begin \/ BeginArray \/ BeginFields \/ BeginObject \/ BeginRest \/ Finish \/ Leftover
    PROVE  CallsInv'
<1>1. CASE Begin
  <2>1. depth = 0
    <3>1. Len(stack) = 0 /\ depth \in Nat
      <4>1. stack = <<>>
        BY <1>1 DEF Begin, CallsInv
      <4> QED
        BY <4>1, DepthAssumption DEF CallsInv, CallsNest
    <3> QED
      BY <3>1 DEF CallsInv, CallsNest
  <2> DEFINE shape == CASE Kind(Skip(1)) = "{" -> "objects"
                        [] Kind(Skip(1)) = "[" -> "array"
                        [] OTHER               -> "fields"
  <2>2. depth' = 0 /\ parsing' = "on" /\ stack' = <<Root(shape)>>
    BY <1>1, <2>1, Zenon DEF Begin
  <2> HIDE DEF shape
  <2>3. Shaped(<<Root(shape)>>)
    <3>1. <<Root(shape)>> \in Seq({Root(shape)})
      OBVIOUS
    <3>2. DOMAIN <<Root(shape)>> = {1} /\ <<Root(shape)>>[1] = Root(shape)
      OBVIOUS
    <3>3. "t" \in DOMAIN Root(shape) /\ Root(shape).t = "root"
      BY DEF Root
    <3>4. Stands(<<Root(shape)>>, 1)
      BY <3>2, <3>3 DEF Stands
    <3> QED
      BY <3>1, <3>2, <3>3, <3>4 DEF Shaped, Alternates
  <2> QED
    BY <2>2, <2>3, DepthAssumption DEF CallsInv, CallsNest, Shaped, Alternates, Stands
<1> DEFINE Expected(shape) == [Top EXCEPT !.shape = shape]
<1>2. ASSUME In("root"), NEW shape
      PROVE  /\ Shaped(Expect(shape)) /\ Len(Expect(shape)) = Len(stack) /\ Expect(shape) # <<>>
             /\ Expect(shape)[Len(Expect(shape))].t = Top.t
  <2>1. Shaped(stack) /\ stack # <<>>
    BY <1>2, Parity DEF In
  <2>2. "t" \in DOMAIN Expected(shape) /\ Expected(shape).t = Top.t
    BY <2>1, Parity DEF Shaped, Top
  <2> QED
    BY <2>1, <2>2, ReplaceShaped DEF Expect, Top
<1>3. ASSUME In("root")
      PROVE  Shaped(stack) /\ stack # <<>> /\ parsing = "on" /\ Top.t = "root" /\ stack[Len(stack)].t = Top.t
  BY <1>3, Parity DEF In, Top
<1>4. CASE BeginArray
  BY <1>2, <1>3, <1>4, EnterKeeps DEF BeginArray, ArrayFrame
<1>5. CASE BeginFields
  BY <1>2, <1>3, <1>5, EnterKeeps DEF BeginFields, ObjectFrame
<1>6. CASE BeginObject
  <2>1. Enter(Skip(at) + 1, stack, ObjectFrame(TRUE)) /\ In("root")
    BY <1>6 DEF BeginObject
  <2>2. "t" \in DOMAIN ObjectFrame(TRUE) /\ ObjectFrame(TRUE).t = "object"
    BY DEF ObjectFrame
  <2> QED
    BY <1>3, <2>1, <2>2, EnterKeeps
<1>7. CASE BeginRest
  <2>1. Enter(Skip(at), Expect("end"), ObjectFrame(FALSE)) /\ In("root")
    BY <1>7 DEF BeginRest
  <2>2. "t" \in DOMAIN ObjectFrame(FALSE) /\ ObjectFrame(FALSE).t = "object"
    BY DEF ObjectFrame
  <2> QED
    BY <1>2, <1>3, <2>1, <2>2, EnterKeeps
<1>8. CASE Finish
  <2>1. Len(stack) = 1 /\ Len(stack) = 2 * depth + 1 /\ depth \in Nat
    BY <1>3, <1>8, Parity DEF Finish
  <2> QED
    BY <1>8, <2>1 DEF Finish, CallsInv, CallsNest, Shaped, Alternates, Stands
<1>9. CASE Leftover
  BY <1>3, <1>9, RefuseKeeps DEF Leftover
<1> QED
  BY <1>1, <1>4, <1>5, <1>6, <1>7, <1>8, <1>9

LEMMA ObjectKeeps ==
    ASSUME CallsInv, ObjectKey \/ ObjectEnd \/ ObjectInclude
    PROVE  CallsInv'
<1>1. In("object") /\ parsing = "on" /\ stack # <<>> /\ Top.t = "object"
  BY DEF ObjectKey, ObjectEnd, ObjectInclude, In
<1>2. CASE ObjectKey
  <2>1. Go(Skip(at), Append(stack, KeyFrame(Skip(at)))) /\ UNCHANGED depth
    BY <1>2 DEF ObjectKey
  <2>2. "t" \in DOMAIN KeyFrame(Skip(at)) /\ KeyFrame(Skip(at)).t = "key"
    BY DEF KeyFrame
  <2> QED
    BY <1>1, <2>1, <2>2, CallKeeps
<1>3. CASE ObjectEnd
  <2>1. CASE Leave(Skip(at), Object(Top.fields)) \/ Leave(Skip(at) + 1, Object(Top.fields))
    BY <1>1, <2>1, LeaveKeeps
  <2>2. CASE Refuse("expected }")
    BY <1>1, <2>2, RefuseKeeps
  <2> QED
    BY <1>3, <2>1, <2>2 DEF ObjectEnd
<1>4. CASE ObjectInclude
  <2> DEFINE d == ReadInclude(Skip(Skip(at) + 1))
  <2> DEFINE f == [Top EXCEPT !.fields = Append(@, d.field)]
  <2>1. "t" \in DOMAIN f /\ f.t = Top.t
    BY <1>1, Parity DEF Shaped, Top
  <2>2. \/ Refuse(d.error)
        \/ Go(SkipSeparator(d.to), Replace(stack, f)) /\ UNCHANGED depth
    BY <1>4 DEF ObjectInclude
  <2> HIDE DEF d, f
  <2> QED
    BY <1>1, <2>1, <2>2, RefuseKeeps, TurnKeeps
<1> QED
  BY <1>2, <1>3, <1>4

\* A turn of the loop of parse_key.
LEMMA KeyTurnKeeps ==
    ASSUME CallsInv, In("key"), NEW segments, NEW dot, NEW i, KeyGoesOn(segments, dot, i)
    PROVE  CallsInv'
<1>1. parsing = "on" /\ stack # <<>> /\ "t" \in DOMAIN Top
  BY Parity DEF In, Shaped, Top
<1> DEFINE Turned(a, b, c, d, e) ==
             [Top EXCEPT !.segments = a, !.dot = b, !.more = c, !.concat = d, !.prefix = e]
<1>2. \A a, b, c, d, e : "t" \in DOMAIN Turned(a, b, c, d, e) /\ Turned(a, b, c, d, e).t = Top.t
  BY <1>1
<1>3. (\E a, b, c, d, e, next : Go(next, Replace(stack, Turned(a, b, c, d, e)))) /\ UNCHANGED depth
  BY Zenon DEF KeyGoesOn
<1> HIDE DEF Turned
<1> QED
  BY <1>1, <1>2, <1>3, TurnKeeps

LEMMA KeyKeeps ==
    ASSUME CallsInv, KeyQuoted \/ KeyUnquoted \/ KeyEnd
    PROVE  CallsInv'
<1>1. In("key") /\ parsing = "on" /\ stack # <<>> /\ Top.t = "key"
  BY DEF KeyQuoted, KeyUnquoted, KeyEnd, In
<1>2. CASE KeyQuoted
  BY <1>1, <1>2, KeyTurnKeeps DEF KeyQuoted
<1>3. CASE KeyUnquoted
  <2>1. \/ Refuse("empty key segment") \/ Refuse("reserved character '+'")
        \/ \E segments, dot : KeyGoesOn(segments, dot, at + 1)
    BY <1>3, Zenon DEF KeyUnquoted
  <2> QED
    BY <1>1, <2>1, RefuseKeeps, KeyTurnKeeps
<1>4. CASE KeyEnd
  <2>1. CASE Refuse(KeyError)
    BY <1>1, <2>1, RefuseKeeps
  <2>2. CASE KeyError = "none"
    <3> DEFINE sep    == Skip(at)
               object == [Below[Len(Below)] EXCEPT !.key = Top.segments, !.append = (Kind(sep) = "+=")]
               s      == Replace(Below, object)
    <3>1. /\ Go(Skip(IF Kind(sep) \in {"=", ":", "+="} THEN sep + 1 ELSE sep), Append(s, ValueFrame))
          /\ UNCHANGED depth
      BY <1>4, <2>2 DEF KeyEnd
    <3>2. /\ Shaped(stack) /\ Len(stack) > 1 /\ Len(stack) = 2 * depth + 1 /\ depth \in Nat
          /\ stack[Len(stack) - 1].t = "object"
      BY <1>1, Parity
    <3>3. /\ Shaped(Below) /\ Below # <<>> /\ Len(Below) = Len(stack) - 1
          /\ Below[Len(Below)].t = "object"
      BY <3>2, PopShaped DEF Below
    <3>4. "t" \in DOMAIN Below[Len(Below)]
      <4>1. PICK S : Below \in Seq(S)
        BY <3>3 DEF Shaped
      <4> QED
        BY <3>3, <4>1 DEF Shaped
    <3>5. "t" \in DOMAIN object /\ object.t = "object"
      BY <3>3, <3>4
    <3> HIDE DEF object
    <3>6. Shaped(s) /\ Len(s) = Len(Below) /\ s # <<>> /\ s[Len(s)].t = "object"
      BY <3>3, <3>5, ReplaceShaped
    <3> HIDE DEF s
    <3>7. Shaped(Append(s, ValueFrame)) /\ Len(Append(s, ValueFrame)) = Len(s) + 1
      BY <3>6, PushShaped DEF ValueFrame
    <3>8. Len(Append(s, ValueFrame)) = 2 * depth + 1
      BY <3>2, <3>3, <3>6, <3>7
    <3> QED
      BY <1>1, <3>1, <3>7, <3>8, StayKeeps
  <2> QED
    BY <1>4, <2>1, <2>2 DEF KeyEnd
<1> QED
  BY <1>2, <1>3, <1>4

LEMMA ValueKeeps ==
    ASSUME CallsInv, ValueNested \/ ValueScalar \/ ValueEnd
    PROVE  CallsInv'
<1>1. In("value") /\ parsing = "on" /\ stack # <<>> /\ Top.t = "value"
  BY DEF ValueNested, ValueScalar, ValueEnd, In
<1>2. ASSUME NEW parts
      PROVE  "t" \in DOMAIN [Top EXCEPT !.parts = parts] /\ [Top EXCEPT !.parts = parts].t = Top.t
  BY <1>1, Parity DEF Shaped, Top
<1>3. ASSUME NEW node, Part(node)
      PROVE  CallsInv'
  BY <1>1, <1>2, <1>3, TurnKeeps DEF Part
<1>4. CASE ValueNested
  <2> DEFINE s == Replace(stack, [Top EXCEPT !.parts = Spaced(at)])
  <2>1. Shaped(s) /\ Len(s) = Len(stack) /\ s # <<>> /\ s[Len(s)].t = Top.t
    BY <1>1, <1>2, Parity, ReplaceShaped DEF Top
  <2>2. PICK frame : /\ Enter(at + 1, s, frame)
                     /\ "t" \in DOMAIN frame /\ frame.t \in {"object", "array"}
    <3>1. "t" \in DOMAIN ObjectFrame(TRUE) /\ ObjectFrame(TRUE).t = "object"
      BY DEF ObjectFrame
    <3>2. "t" \in DOMAIN ArrayFrame /\ ArrayFrame.t = "array"
      BY DEF ArrayFrame
    <3>3. Enter(at + 1, s, ObjectFrame(TRUE)) \/ Enter(at + 1, s, ArrayFrame)
      BY <1>4 DEF ValueNested
    <3> QED
      BY <3>1, <3>2, <3>3
  <2> HIDE DEF s
  <2> QED
    BY <1>1, <2>1, <2>2, EnterKeeps
<1>5. CASE ValueScalar
  <2>1. (\E node : Part(node)) \/ Refuse(ScalarError(Value(at)))
    BY <1>5 DEF ValueScalar
  <2> QED
    BY <1>1, <1>3, <2>1, RefuseKeeps
<1>6. CASE ValueEnd
  <2>1. CASE Refuse("expected value")
    BY <1>1, <2>1, RefuseKeeps
  <2>2. CASE ~Refuse("expected value")
    <3>1. PICK i, node : Go(i, Receive(Below, node)) /\ UNCHANGED depth
      BY <1>6, <2>2 DEF ValueEnd
    <3>2. Shaped(stack) /\ Len(stack) > 1 /\ Len(stack) = 2 * depth + 1 /\ depth \in Nat
      BY <1>1, Parity
    <3>3. Shaped(Below) /\ Len(Below) = Len(stack) - 1 /\ Below # <<>>
      BY <3>2, PopShaped DEF Below
    <3>4. Shaped(Receive(Below, node)) /\ Len(Receive(Below, node)) = 2 * depth
      BY <3>2, <3>3, ReceiveShaped
    <3> QED
      BY <1>1, <3>1, <3>4, StayKeeps
  <2> QED
    BY <2>1, <2>2
<1> QED
  BY <1>4, <1>5, <1>6

LEMMA ArrayKeeps ==
    ASSUME CallsInv, ArrayItem \/ ArrayEnd
    PROVE  CallsInv'
<1>1. In("array") /\ parsing = "on" /\ stack # <<>> /\ Top.t = "array"
  BY DEF ArrayItem, ArrayEnd, In
<1>2. CASE ArrayItem
  BY <1>1, <1>2, CallKeeps DEF ArrayItem, ValueFrame
<1>3. CASE ArrayEnd
  <2>1. Leave(Skip(at) + 1, Array(Top.items)) \/ Refuse("expected ]")
    BY <1>3 DEF ArrayEnd
  <2> QED
    BY <1>1, <2>1, LeaveKeeps, RefuseKeeps
<1> QED
  BY <1>2, <1>3

\* Whatever the text and the limit, the calls of the parser nest as its
\* functions call one another, no deeper than the limit of enter: the depth
\* that leave gives back is the depth that enter has counted.
THEOREM RecursionBounded == Spec => []CallsNest
<1>1. Init => CallsInv
  BY DepthAssumption DEF Init, ParseInit, CallsInv, CallsNest, Alternates
<1>2. CallsInv /\ [Next]_vars => CallsInv'
  <2> SUFFICES ASSUME CallsInv, [Next]_vars PROVE CallsInv'
    OBVIOUS
  <2>1. CASE UNCHANGED parser
    BY <2>1 DEF parser, CallsInv, CallsNest, Shaped, Alternates, Stands
  <2>2. CASE ParseStep
    BY <2>2, DocumentKeeps, ObjectKeeps, KeyKeeps, ValueKeeps, ArrayKeeps DEF ParseStep
  <2> QED
    BY <2>1, <2>2 DEF Next, vars
<1>3. CallsInv => CallsNest
  BY DEF CallsInv
<1> QED
  BY <1>1, <1>2, <1>3, PTL DEF Spec

(* ------------------------------- the tokens ---------------------------- *)
LEMMA Tokens ==
    ASSUME Lexed
    PROVE  /\ Len(tokens) \in Nat /\ DOMAIN tokens = 1 .. Len(tokens)
           /\ \A i : i \notin 1 .. Len(tokens) => Kind(i) = "eof" /\ Word(i) = <<>>
BY DEF Lexed, Kind, Word

\* Past the tokens that are not wanted, which the last position is not one of.
LEMMA SkipIs ==
    ASSUME Lexed, NEW i \in 1 .. Len(tokens) + 1
    PROVE  /\ Skip(i) \in i .. Len(tokens) + 1 /\ Kind(Skip(i)) # "newline"
           /\ \A k \in i .. Skip(i) - 1 : Kind(k) = "newline"
<1> DEFINE S == {j \in i .. Len(tokens) + 1 : Kind(j) # "newline"}
<1>1. Len(tokens) + 1 \in S /\ S \in SUBSET Nat
  BY Tokens
<1>2. PICK j \in S : \A k \in S : j <= k
  BY <1>1, Least
<1>3. \A k \in i .. j - 1 : Kind(k) = "newline"
  BY <1>2, Tokens
<1> QED
  BY <1>2, <1>3 DEF Skip

LEMMA SkipStays ==
    ASSUME Lexed, NEW i \in 1 .. Len(tokens) + 1
    PROVE  Skip(i) \in i .. Len(tokens) + 1 /\ Kind(Skip(i)) # "newline"
BY SkipIs

LEMMA FirstQuotedIs ==
    ASSUME Lexed, NEW i \in 1 .. Len(tokens) + 1
    PROVE  /\ FirstQuoted(i) \in i .. Len(tokens) + 1 /\ Kind(FirstQuoted(i)) \in {"quoted", "eof"}
           /\ \A k \in i .. FirstQuoted(i) - 1 : Kind(k) \notin {"quoted", "eof"}
<1> DEFINE S == {j \in i .. Len(tokens) + 1 : Kind(j) \in {"quoted", "eof"}}
<1>1. Len(tokens) + 1 \in S /\ S \in SUBSET Nat
  BY Tokens
<1>2. PICK j \in S : \A k \in S : j <= k
  BY <1>1, Least
<1>3. \A k \in i .. j - 1 : Kind(k) \notin {"quoted", "eof"}
  BY <1>2, Tokens
<1> QED
  BY <1>2, <1>3 DEF FirstQuoted

LEMMA FirstQuotedStays ==
    ASSUME Lexed, NEW i \in 1 .. Len(tokens) + 1
    PROVE  FirstQuoted(i) \in i .. Len(tokens) + 1
BY FirstQuotedIs

LEMMA PastClosingIs ==
    ASSUME Lexed, NEW i \in 1 .. Len(tokens) + 1
    PROVE  /\ PastClosing(i) \in i .. Len(tokens) + 1
           /\ \A k \in i .. PastClosing(i) - 1 : Closes(k)
<1> DEFINE S == {j \in i .. Len(tokens) + 1 : ~Closes(j)}
<1>1. Len(tokens) + 1 \in S /\ S \in SUBSET Nat
  BY Tokens DEF Closes
<1>2. PICK j \in S : \A k \in S : j <= k
  BY <1>1, Least
<1>3. \A k \in i .. j - 1 : Closes(k)
  BY <1>2, Tokens
<1> QED
  BY <1>2, <1>3 DEF PastClosing

LEMMA PastClosingStays ==
    ASSUME Lexed, NEW i \in 1 .. Len(tokens) + 1
    PROVE  PastClosing(i) \in i .. Len(tokens) + 1
BY PastClosingIs

\* A word that begins with something stands at a token.
LEMMA WordIsToken ==
    ASSUME Lexed, NEW i,
           \/ Word(i) # <<>> \/ Kind(i) # "eof"
           \/ \E a : Begins(Word(i), <<a>>)
           \/ \E a, b : Begins(Word(i), <<a, b>>)
    PROVE  i \in 1 .. Len(tokens)
<1>1. \A a : ~Begins(<<>>, <<a>>)
  BY DEF Begins
<1>2. \A a, b : ~Begins(<<>>, <<a, b>>)
  BY DEF Begins
<1> QED
  BY <1>1, <1>2, Tokens

LEMMA SeparatorStays ==
    ASSUME Lexed, NEW i \in 1 .. Len(tokens) + 1
    PROVE  SkipSeparator(i) \in i .. Len(tokens) + 1
<1>1. Skip(i) \in i .. Len(tokens) + 1
  BY SkipStays
<1>2. CASE Kind(Skip(i)) = ","
  <2>1. Skip(i) \in 1 .. Len(tokens)
    BY <1>2, WordIsToken
  <2>2. Skip(i) + 1 \in 1 .. Len(tokens) + 1
    BY <2>1, Tokens
  <2>3. Skip(Skip(i) + 1) \in Skip(i) + 1 .. Len(tokens) + 1
    BY <2>2, SkipStays
  <2>4. SkipSeparator(i) = Skip(Skip(i) + 1)
    BY <1>2 DEF SkipSeparator
  <2> HIDE DEF SkipSeparator
  <2> QED
    BY <1>1, <2>1, <2>3, <2>4, Tokens
<1> QED
  BY <1>1, <1>2 DEF SkipSeparator

LEMMA PackageStays ==
    ASSUME Lexed, NEW i \in 1 .. Len(tokens) + 1, NEW required,
           PackageArguments(i, required).error = "none"
    PROVE  /\ PackageArguments(i, required).to \in i .. Len(tokens) + 1
           /\ PackageArguments(i, required).to = i + 4
           /\ Kind(i) = "quoted" /\ Kind(i + 1) = "," /\ Kind(i + 2) = "quoted"
           /\ Kind(i + 3) = "unquoted"
<1>1. \A e : Malformed(e).error = e
  BY DEF Malformed
<1>3. /\ Begins(Word(i + 3), <<")">>)
      /\ Kind(i) = "quoted" /\ Kind(i + 1) = "," /\ Kind(i + 2) = "quoted"
      /\ PackageArguments(i, required) = Directive(PackageInclude(Value(i), Value(i + 2), required), i + 4)
  <2>1. CASE Kind(i) # "quoted" \/ Value(i) = <<>>
    <3>1. PackageArguments(i, required) = Malformed("expected an identifier")
      BY <2>1, Zenon DEF PackageArguments
    <3>2. Malformed("expected an identifier").error = "expected an identifier"
      BY DEF Malformed
    <3>3. PackageArguments(i, required).error # "none"
      BY <3>1, <3>2, Zenon
    <3> QED
      BY <3>3
  <2>2. CASE Kind(i) = "quoted" /\ Value(i) # <<>> /\ Kind(i + 1) # ","
    BY <1>1, <2>2 DEF PackageArguments
  <2>3. CASE Kind(i) = "quoted" /\ Value(i) # <<>> /\ Kind(i + 1) = ","
    BY <1>1, <2>3 DEF PackageArguments
  <2> QED
    BY <2>1, <2>2, <2>3
<1>4. i + 3 \in 1 .. Len(tokens)
  BY <1>3, WordIsToken
<1>5. Kind(i + 3) = "unquoted"
  <2>1. ~Begins(<<>>, <<")">>)
    BY DEF Begins
  <2> QED
    BY <1>3, <2>1 DEF Word
<1>6. PackageArguments(i, required).to = i + 4
  <2> DEFINE f == PackageInclude(Value(i), Value(i + 2), required)
             k == i + 4
  <2>1. PackageArguments(i, required) = Directive(f, k)
    BY <1>3
  <2> HIDE DEF f, k
  <2>2. PackageArguments(i, required).to = k
    BY <2>1 DEF Directive
  <2> QED
    BY <2>2 DEF k
<1>7. i + 4 \in i .. Len(tokens) + 1
  BY <1>4, Tokens
<1> QED
  BY <1>3, <1>5, <1>6, <1>7

LEMMA FileStays ==
    ASSUME Lexed, NEW i \in 1 .. Len(tokens) + 1, NEW required,
           FileArgument(i, required).error = "none"
    PROVE  /\ FileArgument(i, required).to \in i .. Len(tokens) + 1
           /\ FileArgument(i, required).to = PastClosing(FirstQuoted(i) + 1)
           /\ FirstQuoted(i) \in 1 .. Len(tokens) /\ Kind(FirstQuoted(i)) # "eof"
<1> DEFINE q == FirstQuoted(i)
<1>1. q \in i .. Len(tokens) + 1
  BY FirstQuotedStays
<1>2. Kind(q) # "eof"
  BY DEF FileArgument, Malformed
<1>3. q \in 1 .. Len(tokens)
  BY <1>2, WordIsToken
<1>4. PastClosing(q + 1) \in q + 1 .. Len(tokens) + 1
  BY <1>3, PastClosingStays, Tokens
<1>5. FileArgument(i, required) = Directive(Include(Value(q), required, TRUE), PastClosing(q + 1))
  <2>1. CASE Kind(q) = "quoted" /\ ~Closes(q + 1)
    <3>1. FileArgument(i, required) = Malformed("expected )")
      BY <2>1, Zenon DEF FileArgument
    <3>2. Malformed("expected )").error = "expected )"
      BY DEF Malformed
    <3>3. FileArgument(i, required).error # "none"
      BY <3>1, <3>2, Zenon
    <3> QED
      BY <3>3
  <2>2. CASE ~(Kind(q) = "quoted" /\ ~Closes(q + 1))
    BY <1>2, <2>2, Zenon DEF FileArgument
  <2> QED
    BY <2>1, <2>2
<1> QED
  BY <1>1, <1>2, <1>3, <1>4, <1>5, Tokens DEF Directive

LEMMA RequiredStays ==
    ASSUME Lexed, NEW i \in 1 .. Len(tokens) + 1, Required(i)
    PROVE  AfterRequired(i).to \in i .. Len(tokens) + 1
<1>1. i \in 1 .. Len(tokens)
  <2>1. Word(i) # <<>> \/ Begins(Word(i), <<"required", "(">>)
    BY DEF Required, Opens
  <2> QED
    BY <2>1, WordIsToken
<1>2. CASE Opens(Word(i), "required")
  BY <1>1, <1>2, Tokens DEF AfterRequired
<1>3. CASE ~Opens(Word(i), "required") /\ Word(i + 1) = <<"(">>
  <2>1. i + 1 \in 1 .. Len(tokens)
    <3>1. Word(i + 1) # <<>>
      BY <1>3
    <3> QED
      BY <3>1, WordIsToken
  <2>2. AfterRequired(i).to = i + 2
    BY <1>3, Zenon DEF AfterRequired
  <2> QED
    BY <1>1, <2>1, <2>2, Tokens
<1>4. CASE ~Opens(Word(i), "required") /\ Word(i + 1) # <<"(">>
  <2>1. CASE i + 1 \in 1 .. Len(tokens)
    <3>1. AfterRequired(i).to \in {i + 1, i + 2}
      BY <1>4 DEF AfterRequired
    <3> QED
      BY <1>1, <2>1, <3>1, Tokens
  <2>2. CASE i + 1 \notin 1 .. Len(tokens)
    <3>1. ~Begins(Word(i + 1), <<"(">>)
      BY <2>2, WordIsToken
    <3>2. AfterRequired(i).to = i + 1
      BY <1>4, <3>1 DEF AfterRequired
    <3> QED
      BY <1>1, <3>2, Tokens
  <2> QED
    BY <2>1, <2>2
<1> QED
  BY <1>2, <1>3, <1>4

\* Where required leaves the cursor, and which form it has begun.
Opening(i) == IF Required(i) THEN AfterRequired(i) ELSE [to |-> i, form |-> "none"]

\* The forms of a directive that is read.
LEMMA IncludeForms ==
    ASSUME NEW i, ReadInclude(i).error = "none", NEW d, d = ReadInclude(i),
           NEW j, j = Opening(i).to
    PROVE  \/ d = PackageArguments(j, Required(i))
           \/ d = PackageArguments(j + 1, Required(i)) /\ Opens(Word(j), "package")
           \/ /\ d = PackageArguments(j + 2, Required(i)) /\ Begins(Word(j + 1), <<"(">>)
              /\ Word(j) = <<"package">>
           \/ /\ d = Directive(Include(Value(j), Required(i), FALSE),
                               IF Required(i) /\ Begins(Word(j + 1), <<")">>) THEN j + 2 ELSE j + 1)
              /\ Kind(j) = "quoted"
           \/ d = FileArgument(j, Required(i)) /\ Opening(i).form = "file"
           \/ d = FileArgument(j + 1, Required(i)) /\ Form(Word(j)) = "file"
<1> DEFINE open   == Opening(i)
           spaced == open.form # "package" /\ Word(j) = <<"package">>
<1>1. \A e : d # Malformed(e) \/ e = "none"
  BY DEF Malformed
<1> HIDE DEF open
<1>2. CASE open.form = "package"
  BY <1>2 DEF ReadInclude, open, Opening
<1>3. CASE open.form # "package" /\ Opens(Word(j), "package")
  <2>1. d = PackageArguments(j + 1, Required(i))
    <3>1. ~Opens(<<"package">>, "package")
      BY DEF Opens, Begins
    <3>2. ~spaced
      BY <1>3, <3>1
    <3> QED
      BY <1>3, <3>2, Zenon DEF ReadInclude, open, Opening
  <2> QED
    BY <1>3, <2>1
<1>4. CASE open.form # "package" /\ ~Opens(Word(j), "package") /\ spaced
  <2>1. d = IF Begins(Word(j + 1), <<"(">>) THEN PackageArguments(j + 2, Required(i))
            ELSE Malformed("expected (")
    BY <1>4, Zenon DEF ReadInclude, open, Opening
  <2> QED
    BY <1>1, <1>4, <2>1
<1>5. CASE open.form # "package" /\ ~Opens(Word(j), "package") /\ ~spaced
  <2>1. d = IF Kind(j) = "quoted"
            THEN Directive(Include(Value(j), Required(i), FALSE),
                           IF Required(i) /\ Begins(Word(j + 1), <<")">>) THEN j + 2 ELSE j + 1)
            ELSE IF open.form = "file" THEN FileArgument(j, Required(i))
            ELSE IF Form(Word(j)) = "file" THEN FileArgument(j + 1, Required(i))
            ELSE Malformed("expected include path")
    BY <1>5, Zenon DEF ReadInclude, open, Opening
  <2> QED
    BY <1>1, <2>1, Zenon DEF open
<1> QED
  BY <1>2, <1>3, <1>4, <1>5

\* A directive that is read ends where there is still a token to come.
LEMMA IncludeStays ==
    ASSUME Lexed, NEW i \in 1 .. Len(tokens) + 1, ReadInclude(i).error = "none"
    PROVE  ReadInclude(i).to \in i .. Len(tokens) + 1
<1> DEFINE j == Opening(i).to
           d == ReadInclude(i)
<1>1. j \in i .. Len(tokens) + 1
  BY RequiredStays, Tokens DEF Opening
<1>2. \/ d = PackageArguments(j, Required(i))
      \/ d = PackageArguments(j + 1, Required(i)) /\ Opens(Word(j), "package")
      \/ d = PackageArguments(j + 2, Required(i)) /\ Begins(Word(j + 1), <<"(">>)
      \/ /\ d = Directive(Include(Value(j), Required(i), FALSE),
                          IF Required(i) /\ Begins(Word(j + 1), <<")">>) THEN j + 2 ELSE j + 1)
         /\ Kind(j) = "quoted"
      \/ d = FileArgument(j, Required(i)) /\ Opening(i).form = "file"
      \/ d = FileArgument(j + 1, Required(i)) /\ Form(Word(j)) = "file"
  BY IncludeForms
<1> HIDE DEF d, j
<1>3. d.error = "none"
  BY DEF d
<1>10. ASSUME NEW k \in 1 .. Len(tokens) + 1, d = PackageArguments(k, Required(i))
       PROVE  d.to \in k .. Len(tokens) + 1
  BY <1>3, <1>10, PackageStays
<1>4. CASE d = PackageArguments(j, Required(i))
  BY <1>1, <1>4, <1>10, Tokens DEF d
<1>5. CASE d = PackageArguments(j + 1, Required(i)) /\ Opens(Word(j), "package")
  <2>1. j \in 1 .. Len(tokens)
    BY <1>5, WordIsToken DEF Opens
  <2> QED
    BY <1>1, <1>5, <1>10, <2>1, Tokens DEF d
<1>6. CASE d = PackageArguments(j + 2, Required(i)) /\ Begins(Word(j + 1), <<"(">>)
  <2>1. j + 1 \in 1 .. Len(tokens)
    BY <1>6, WordIsToken
  <2> QED
    BY <1>1, <1>6, <1>10, <2>1, Tokens DEF d
<1>7. CASE /\ d = Directive(Include(Value(j), Required(i), FALSE),
                            IF Required(i) /\ Begins(Word(j + 1), <<")">>) THEN j + 2 ELSE j + 1)
           /\ Kind(j) = "quoted"
  <2>1. j \in 1 .. Len(tokens)
    BY <1>7, WordIsToken
  <2>2. CASE Begins(Word(j + 1), <<")">>)
    <3>1. j + 1 \in 1 .. Len(tokens)
      BY <2>2, WordIsToken
    <3> QED
      BY <1>1, <1>7, <2>1, <3>1, Tokens DEF d, Directive
  <2>3. CASE ~Begins(Word(j + 1), <<")">>)
    BY <1>1, <1>7, <2>1, <2>3, Tokens DEF d, Directive
  <2> QED
    BY <2>2, <2>3
<1>8. CASE d = FileArgument(j, Required(i)) /\ Opening(i).form = "file"
  BY <1>1, <1>3, <1>8, FileStays, Tokens DEF d
<1>9. CASE d = FileArgument(j + 1, Required(i)) /\ Form(Word(j)) = "file"
  <2>1. Word(j) # <<>>
    <3>1. ~Opens(<<>>, "file") /\ ~Opens(<<>>, "package") /\ <<>> # <<"file">>
      BY DEF Opens, Begins
    <3> QED
      BY <1>9, <3>1 DEF Form
  <2>2. j \in 1 .. Len(tokens)
    BY <2>1, WordIsToken
  <2> QED
    BY <1>1, <1>3, <1>9, <2>2, FileStays, Tokens DEF d
<1> QED
  BY <1>2, <1>4, <1>5, <1>6, <1>7, <1>8, <1>9

(* ------------------------------ the measure ---------------------------- *)
\* Fields without braces are read for the root, which expects nothing to be read
\* for it afterwards; an array at the root is read first.
Rooted(s) ==
    /\ "shape" \in DOMAIN s[1]
    /\ Len(s) > 1 => s[1].shape \in {"objects", "end", "nothing"}
    /\ \A i \in 2 .. Len(s) :
          s[i].t = "object" => /\ "braced" \in DOMAIN s[i]
                               /\ s[i].braced \/ (i = 2 /\ s[1].shape \in {"end", "nothing"})

LEMMA PushRooted ==
    ASSUME NEW s, Shaped(s), s # <<>>, Rooted(s), NEW f,
           Len(s) = 1 => s[1].shape \in {"objects", "end", "nothing"},
           f.t = "object" => /\ "braced" \in DOMAIN f
                             /\ f.braced \/ (Len(s) = 1 /\ s[1].shape \in {"end", "nothing"})
    PROVE  Rooted(Append(s, f)) /\ Append(s, f)[Len(Append(s, f))] = f
<1>1. PICK S : s \in Seq(S)
  BY DEF Shaped
<1> DEFINE u == Append(s, f)
<1>2. /\ Len(u) = Len(s) + 1 /\ Len(s) \in Nat \ {0}
      /\ \A i \in 1 .. Len(s) : u[i] = s[i]
      /\ u[Len(s) + 1] = f
  BY <1>1
<1> HIDE DEF u
<1>3. ASSUME NEW i \in 2 .. Len(u), u[i].t = "object"
      PROVE  /\ "braced" \in DOMAIN u[i]
             /\ u[i].braced \/ (i = 2 /\ u[1].shape \in {"end", "nothing"})
  <2>1. CASE i = Len(s) + 1
    BY <1>2, <1>3, <2>1
  <2>2. CASE i \in 2 .. Len(s)
    BY <1>2, <1>3, <2>2 DEF Rooted
  <2> QED
    BY <1>2, <2>1, <2>2
<1>4. "shape" \in DOMAIN u[1] /\ u[1].shape \in {"objects", "end", "nothing"}
  BY <1>2 DEF Rooted
<1>5. Rooted(u)
  BY <1>3, <1>4 DEF Rooted
<1> QED
  BY <1>2, <1>5 DEF u

LEMMA ReplaceRooted ==
    ASSUME NEW s, Shaped(s), s # <<>>, Rooted(s), NEW f,
           Len(s) = 1 => "shape" \in DOMAIN f,
           f.t = "object" => /\ s[Len(s)].t = "object" /\ "braced" \in DOMAIN f
                             /\ f.braced = s[Len(s)].braced
    PROVE  Rooted(Replace(s, f))
<1>1. PICK S : s \in Seq(S)
  BY DEF Shaped
<1> DEFINE u == Replace(s, f)
<1>2. /\ Len(u) = Len(s) /\ Len(s) \in Nat \ {0}
      /\ \A i \in 1 .. Len(s) : u[i] = IF i = Len(s) THEN f ELSE s[i]
  BY <1>1 DEF Replace
<1> HIDE DEF u
<1>3. ASSUME NEW i \in 2 .. Len(u), u[i].t = "object"
      PROVE  /\ "braced" \in DOMAIN u[i]
             /\ u[i].braced \/ (i = 2 /\ u[1].shape \in {"end", "nothing"})
  BY <1>2, <1>3 DEF Rooted
<1> QED
  BY <1>2, <1>3 DEF Rooted, u

LEMMA PopRooted ==
    ASSUME NEW s, Shaped(s), Len(s) > 1, Rooted(s)
    PROVE  Rooted(SubSeq(s, 1, Len(s) - 1))
<1>1. PICK S : s \in Seq(S)
  BY DEF Shaped
<1> DEFINE u == SubSeq(s, 1, Len(s) - 1)
<1>2. /\ Len(u) = Len(s) - 1 /\ Len(s) \in Nat
      /\ \A i \in 1 .. Len(u) : u[i] = s[i]
  BY <1>1
<1> HIDE DEF u
<1>3. ASSUME NEW i \in 2 .. Len(u), u[i].t = "object"
      PROVE  /\ "braced" \in DOMAIN u[i]
             /\ u[i].braced \/ (i = 2 /\ u[1].shape \in {"end", "nothing"})
  BY <1>2, <1>3 DEF Rooted
<1> QED
  BY <1>2, <1>3 DEF Rooted, u

LEMMA ReceiveIs ==
    ASSUME NEW s, Shaped(s), s # <<>>, Rooted(s), NEW node
    PROVE  \E g : /\ Receive(s, node) = Replace(s, g)
                  /\ DOMAIN g = DOMAIN s[Len(s)] /\ g.t = s[Len(s)].t
                  /\ Len(s) = 1 => g.shape = s[Len(s)].shape
                  /\ s[Len(s)].t = "object" => g.braced = s[Len(s)].braced
<1> DEFINE f == s[Len(s)]
<1> DEFINE g == CASE f.t = "value"  -> [f EXCEPT !.parts = Append(@, node)]
                  [] f.t = "object" -> [f EXCEPT !.fields = Append(@, Field(f.key, f.append, node))]
                  [] f.t = "array"  -> [f EXCEPT !.items = Append(@, node)]
                  [] OTHER          -> [f EXCEPT !.node = IF node.t = "object"
                                                          THEN Object(@.fields \o node.fields)
                                                          ELSE node]
<1>1. PICK S : s \in Seq(S)
  BY DEF Shaped
<1>2. /\ Len(s) \in Nat \ {0} /\ "t" \in DOMAIN f
      /\ Len(s) = 1 => "shape" \in DOMAIN f /\ f.t = "root"
      /\ f.t = "object" => "braced" \in DOMAIN f
  BY <1>1 DEF Shaped, Alternates, Stands, Rooted
<1>3. /\ DOMAIN g = DOMAIN f /\ g.t = f.t
      /\ Len(s) = 1 => g.shape = f.shape
      /\ f.t = "object" => g.braced = f.braced
  <2>1. CASE f.t = "value"
    <3>1. g = [f EXCEPT !.parts = Append(@, node)]
      BY <2>1, Zenon
    <3> QED
      BY <1>2, <2>1, <3>1
  <2>2. CASE f.t = "object"
    <3>1. g = [f EXCEPT !.fields = Append(@, Field(f.key, f.append, node))]
      BY <2>2, Zenon
    <3> QED
      BY <1>2, <2>2, <3>1
  <2>3. CASE f.t = "array"
    <3>1. g = [f EXCEPT !.items = Append(@, node)]
      BY <2>3, Zenon
    <3> QED
      BY <1>2, <2>3, <3>1
  <2>4. CASE f.t \notin {"value", "object", "array"}
    <3>1. g = [f EXCEPT !.node = IF node.t = "object" THEN Object(@.fields \o node.fields) ELSE node]
      BY <2>4, Zenon
    <3> QED
      BY <1>2, <2>4, <3>1
  <2> QED
    BY <2>1, <2>2, <2>3, <2>4
<1>4. Receive(s, node) = Replace(s, g)
  BY DEF Receive
<1> HIDE DEF g
<1> QED
  BY <1>3, <1>4

LEMMA ReceiveRooted ==
    ASSUME NEW s, Shaped(s), s # <<>>, Rooted(s), NEW node
    PROVE  /\ Rooted(Receive(s, node))
           /\ Receive(s, node)[Len(s)].t = s[Len(s)].t
           /\ Len(s) = 1 => Receive(s, node)[1].shape = s[1].shape
<1> DEFINE f == s[Len(s)]
<1>1. PICK S : s \in Seq(S)
  BY DEF Shaped
<1>2. /\ Len(s) \in Nat \ {0} /\ "t" \in DOMAIN f
      /\ Len(s) = 1 => "shape" \in DOMAIN f /\ f.t = "root"
      /\ f.t = "object" => "braced" \in DOMAIN f
  BY <1>1 DEF Shaped, Alternates, Stands, Rooted
<1>3. PICK g : /\ Receive(s, node) = Replace(s, g)
               /\ DOMAIN g = DOMAIN f /\ g.t = f.t
               /\ Len(s) = 1 => g.shape = f.shape
               /\ f.t = "object" => g.braced = f.braced
  BY ReceiveIs
<1>5. Replace(s, g)[Len(s)] = g
  BY <1>2, <1>3, ReplaceShaped
<1>6. Rooted(Replace(s, g))
  BY <1>2, <1>3, ReplaceRooted
<1> QED
  BY <1>3, <1>5, <1>6

\* The cursor stays in the tokens, and what is on the stack fits the document.
CursorOK ==
    /\ Lexed /\ at \in 1 .. Len(tokens) + 1
    /\ parsing \in {"off", "on", "done", "failed"}
    /\ parsing = "off" => at = 1
    /\ parsing # "off" => lexing = "done"
    /\ parsing = "on" => /\ stack # <<>> /\ Rooted(stack)
                         /\ Len(stack) = 1 /\ stack[1].shape = "array" => Kind(at) = "["
CursorInv == CallsInv /\ CursorOK

Burns == Fuel' \in Nat /\ Fuel' < Fuel

LEMMA RankRange ==
    ASSUME NEW f, f.t \in {"root", "object", "array", "key", "value"}
    PROVE  /\ RankOf(f) \in 1 .. 6
           /\ f.t \in {"object", "array"} => RankOf(f) = 4
           /\ f.t = "key" => RankOf(f) = 3
           /\ f.t = "value" /\ f.parts = <<>> => RankOf(f) = 2
           /\ f.t = "value" /\ f.parts # <<>> => RankOf(f) = 5
           /\ f.t = "root" /\ f.shape \in {"end", "nothing"} => RankOf(f) = 1
           /\ f.t = "root" /\ f.shape \notin {"end", "nothing"} => RankOf(f) = 6
<1>1. CASE f.t = "root" /\ f.shape \in {"end", "nothing"}
  BY <1>1 DEF RankOf
<1>2. CASE f.t = "root" /\ f.shape \notin {"end", "nothing"}
  BY <1>2 DEF RankOf
<1>3. CASE f.t = "value" /\ f.parts = <<>>
  BY <1>3 DEF RankOf
<1>4. CASE f.t = "value" /\ f.parts # <<>>
  BY <1>4 DEF RankOf
<1>5. CASE f.t = "key"
  BY <1>5 DEF RankOf
<1>6. CASE f.t \in {"object", "array"}
  BY <1>6 DEF RankOf
<1> QED
  BY <1>1, <1>2, <1>3, <1>4, <1>5, <1>6

LEMMA ShapedTop ==
    ASSUME NEW s, Shaped(s), s # <<>>
    PROVE  /\ Len(s) \in Nat \ {0}
           /\ "t" \in DOMAIN s[Len(s)]
           /\ s[Len(s)].t \in {"root", "object", "array", "key", "value"}
           /\ s[Len(s)].t = "root" <=> Len(s) = 1
           /\ s[Len(s)].t = "value" => Len(s) > 1 /\ s[Len(s) - 1].t \in {"object", "array"}
<1>1. PICK S : s \in Seq(S)
  BY DEF Shaped
<1>2. Len(s) \in Nat \ {0} /\ DOMAIN s = 1 .. Len(s)
  BY <1>1
<1>3. Stands(s, Len(s)) /\ "t" \in DOMAIN s[Len(s)]
  BY <1>2 DEF Shaped, Alternates
<1>4. /\ s[Len(s)].t \in {"root", "object", "array", "key", "value"}
      /\ s[Len(s)].t = "root" <=> Len(s) = 1
  BY <1>2, <1>3 DEF Stands
<1>5. ASSUME s[Len(s)].t = "value" PROVE Len(s) > 1 /\ s[Len(s) - 1].t \in {"object", "array"}
  <2>1. Len(s) > 1 /\ Len(s) % 2 = 1
    BY <1>2, <1>3, <1>5 DEF Stands
  <2>2. Len(s) - 1 \in DOMAIN s /\ Len(s) - 1 # 1 /\ (Len(s) - 1) % 2 = 0
    BY <1>2, <2>1
  <2>3. Stands(s, Len(s) - 1)
    BY <2>2 DEF Shaped, Alternates
  <2> QED
    BY <2>1, <2>2, <2>3 DEF Stands
<1> QED
  BY <1>2, <1>3, <1>4, <1>5

LEMMA RankNow ==
    ASSUME CursorInv, parsing = "on"
    PROVE  /\ Rank = RankOf(Top) /\ Rank \in 1 .. 6
           /\ Len(tokens) \in Nat /\ at \in 1 .. Len(tokens) + 1
           /\ Fuel = 8 * (Len(tokens) + 1 - at) + Rank
           /\ Shaped(stack) /\ stack # <<>> /\ Rooted(stack)
<1>1. Shaped(stack) /\ stack # <<>> /\ Rooted(stack)
  BY DEF CursorInv, CursorOK, CallsInv
<1>2. Top.t \in {"root", "object", "array", "key", "value"}
  BY <1>1, ShapedTop DEF Top
<1>3. Rank = RankOf(Top)
  BY DEF Rank
<1> QED
  BY <1>1, <1>2, <1>3, RankRange, Tokens DEF CursorInv, CursorOK, Fuel

LEMMA RefuseAdvances ==
    ASSUME CursorInv, parsing = "on", NEW error, Refuse(error)
    PROVE  CursorOK' /\ Burns
<1>1. /\ parsing' = "failed" /\ tokens' = tokens /\ at' = at /\ lexing' = lexing
  BY DEF Refuse, lexer
<1>2. CursorOK'
  BY <1>1 DEF CursorInv, CursorOK, Lexed
<1>3. Rank' = 0
  BY <1>1 DEF Rank
<1>4. Fuel' = 8 * (Len(tokens) + 1 - at)
  BY <1>1, <1>3, RankNow DEF Fuel
<1> QED
  BY <1>2, <1>4, RankNow DEF Burns

LEMMA GoAdvances ==
    ASSUME CursorInv, parsing = "on",
           NEW i, NEW s, Shaped(s), s # <<>>, Rooted(s), Go(i, s),
           i \in at .. Len(tokens) + 1,
           i > at \/ RankOf(s[Len(s)]) < RankOf(Top),
           Len(s) = 1 => s[1].shape # "array"
    PROVE  CursorOK' /\ Burns
<1>1. at' = i /\ stack' = s /\ tokens' = tokens /\ lexing' = lexing /\ parsing' = parsing
  BY DEF Go, lexer
<1>2. i \in 1 .. Len(tokens) + 1
  BY RankNow
<1>3. CursorOK'
  BY <1>1, <1>2 DEF CursorInv, CursorOK, Lexed, Rooted
<1>4. Rank' = RankOf(s[Len(s)])
  BY <1>1, Zenon DEF Rank, RankOf, Top
<1>5. RankOf(s[Len(s)]) \in 1 .. 6
  BY ShapedTop, RankRange
<1>6. Fuel' = 8 * (Len(tokens) + 1 - i) + RankOf(s[Len(s)])
  BY <1>1, <1>4 DEF Fuel
<1> DEFINE l == Len(tokens) + 1
           r == RankOf(s[Len(s)])
           q == RankOf(Top)
<1>7. /\ l \in Nat /\ at \in 1 .. l /\ q \in 1 .. 6
      /\ Fuel = 8 * (l - at) + q /\ Fuel' = 8 * (l - i) + r
      /\ i > at \/ r < q
  <2>1. /\ Len(tokens) \in Nat /\ at \in 1 .. Len(tokens) + 1
        /\ RankOf(Top) \in 1 .. 6
        /\ Fuel = 8 * (Len(tokens) + 1 - at) + RankOf(Top)
    BY RankNow
  <2> QED
    BY <1>6, <2>1
<1> HIDE DEF l, r, q
<1>8. i \in at .. l /\ r \in 1 .. 6
  BY <1>5 DEF l, r
<1>9. Fuel' \in Nat /\ Fuel' < Fuel
  BY <1>7, <1>8
<1> QED
  BY <1>3, <1>9 DEF Burns

\* A call takes a turn: it reads a token.
LEMMA TurnAdvances ==
    ASSUME CursorInv, parsing = "on", NEW i, NEW f,
           "t" \in DOMAIN f, f.t = Top.t,
           f.t = "root" => "shape" \in DOMAIN f /\ f.shape # "array",
           f.t = "object" => "braced" \in DOMAIN f /\ f.braced = Top.braced,
           Go(i, Replace(stack, f)), i \in at + 1 .. Len(tokens) + 1
    PROVE  CursorOK' /\ Burns
<1> DEFINE s == Replace(stack, f)
<1>1. Shaped(stack) /\ stack # <<>> /\ Rooted(stack) /\ at \in Nat
  BY RankNow
<1>2. Len(stack) \in Nat \ {0} /\ (Len(stack) = 1 => Top.t = "root")
  BY <1>1, ShapedTop DEF Top
<1>3. Shaped(s) /\ Len(s) = Len(stack) /\ s # <<>> /\ s[Len(stack)] = f
  BY <1>1, ReplaceShaped DEF Top
<1>4. Rooted(s)
  BY <1>1, <1>2, ReplaceRooted DEF Top
<1>5. Len(s) = 1 => s[1].shape # "array"
  BY <1>2, <1>3
<1>6. i \in at .. Len(tokens) + 1 /\ i > at
  BY <1>1
<1> HIDE DEF s
<1>7. Go(i, s)
  BY DEF s
<1> QED
  BY <1>3, <1>4, <1>5, <1>6, <1>7, GoAdvances

\* A call begins another one: it reads a token or has less to do.
LEMMA CallAdvances ==
    ASSUME CursorInv, parsing = "on", NEW i, NEW s, NEW f,
           Shaped(s), s # <<>>, Rooted(s),
           Len(s) = 1 => s[1].shape \in {"objects", "end", "nothing"},
           "t" \in DOMAIN f,
           \/ s[Len(s)].t \in {"root", "value"} /\ f.t \in {"object", "array"}
           \/ s[Len(s)].t \in {"object", "array"} /\ f.t = "value"
           \/ s[Len(s)].t = "object" /\ f.t = "key",
           f.t = "object" => /\ "braced" \in DOMAIN f
                             /\ f.braced \/ (Len(s) = 1 /\ s[1].shape \in {"end", "nothing"}),
           Go(i, Append(s, f)), i \in at .. Len(tokens) + 1,
           i > at \/ RankOf(f) < RankOf(Top)
    PROVE  CursorOK' /\ Burns
<1> DEFINE u == Append(s, f)
<1>1. Shaped(u) /\ Len(u) = Len(s) + 1
  BY PushShaped
<1>2. Rooted(u) /\ u[Len(u)] = f
  BY PushRooted
<1>3. Len(s) \in Nat \ {0}
  BY ShapedTop
<1> HIDE DEF u
<1>4. u # <<>> /\ Len(u) # 1
  BY <1>1, <1>3
<1>5. Go(i, u)
  BY DEF u
<1> QED
  BY <1>1, <1>2, <1>4, <1>5, GoAdvances

\* A call returns.
LEMMA ReturnAdvances ==
    ASSUME CursorInv, parsing = "on", Len(stack) > 1, NEW i, NEW node,
           Go(i, Receive(Below, node)), i \in at .. Len(tokens) + 1,
           \/ i > at
           \/ Top.t = "value" /\ Top.parts # <<>>
           \/ Top.t = "object" /\ ~Top.braced
    PROVE  CursorOK' /\ Burns
<1> DEFINE s == Receive(Below, node)
<1>1. Shaped(stack) /\ stack # <<>> /\ Rooted(stack)
  BY RankNow
<1>2. Len(stack) \in Nat \ {0}
  BY <1>1, ShapedTop
<1>3. /\ Shaped(Below) /\ Len(Below) = Len(stack) - 1 /\ Below # <<>>
      /\ Below[Len(Below)] = stack[Len(stack) - 1]
  BY <1>1, PopShaped DEF Below
<1>4. Rooted(Below)
  BY <1>1, PopRooted DEF Below
<1>5. Shaped(s) /\ Len(s) = Len(stack) - 1
  BY <1>3, ReceiveShaped
<1>6. /\ Rooted(s) /\ s[Len(s)].t = stack[Len(stack) - 1].t
      /\ Len(s) = 1 => s[1].shape = stack[1].shape
  BY <1>3, <1>4, <1>5, ReceiveRooted
<1>7. Go(i, s)
  OBVIOUS
<1> HIDE DEF s
<1>8. s # <<>>
  BY <1>2, <1>5
<1>9. Len(s) = 1 => s[1].shape # "array"
  BY <1>1, <1>6 DEF Rooted
<1>10. CASE i > at
  BY <1>5, <1>6, <1>7, <1>8, <1>9, <1>10, GoAdvances
<1>11. CASE Top.t = "value" /\ Top.parts # <<>>
  <2>1. stack[Len(stack) - 1].t \in {"object", "array"}
    BY <1>1, <1>11, ShapedTop DEF Top
  <2>2. RankOf(s[Len(s)]) = 4 /\ RankOf(Top) = 5
    BY <1>6, <1>11, <2>1, RankRange
  <2> QED
    BY <1>5, <1>6, <1>7, <1>8, <1>9, <2>2, GoAdvances
<1>12. CASE Top.t = "object" /\ ~Top.braced
  <2>1. Len(stack) = 2 /\ stack[1].shape \in {"end", "nothing"}
    <3>1. Len(stack) \in 2 .. Len(stack)
      BY <1>2
    <3> QED
      BY <1>1, <1>12, <3>1, Zenon DEF Rooted, Top
  <2>2. s[Len(s)].t = "root" /\ s[Len(s)].shape \in {"end", "nothing"}
    BY <1>5, <1>6, <1>8, <2>1, ShapedTop
  <2>3. RankOf(s[Len(s)]) = 1 /\ RankOf(Top) = 4
    BY <1>12, <2>2, RankRange
  <2> QED
    BY <1>5, <1>6, <1>7, <1>8, <1>9, <2>3, GoAdvances
<1> QED
  BY <1>10, <1>11, <1>12

LEMMA DocumentAdvances ==
    ASSUME CursorInv,
           Begin \/ BeginArray \/ BeginFields \/ BeginObject \/ BeginRest \/ Finish \/ Leftover
    PROVE  CursorOK' /\ Burns
<1>1. Lexed /\ Len(tokens) \in Nat /\ at \in 1 .. Len(tokens) + 1
  BY Tokens DEF CursorInv, CursorOK
<1>2. CASE Begin
  <2> DEFINE shape == CASE Kind(Skip(1)) = "{" -> "objects"
                        [] Kind(Skip(1)) = "[" -> "array"
                        [] OTHER               -> "fields"
             root  == Root(shape)
  <2>1. /\ parsing' = "on" /\ at' = Skip(1) /\ stack' = <<root>>
        /\ tokens' = tokens /\ lexing' = "done" /\ parsing = "off" /\ at = 1
    BY <1>2, Zenon DEF Begin, lexer, CursorInv, CursorOK
  <2>2. Skip(1) \in 1 .. Len(tokens) + 1
    BY <1>1, SkipStays
  <2>3. /\ shape \in {"objects", "array", "fields"}
        /\ shape = "array" => Kind(Skip(1)) = "["
    OBVIOUS
  <2> HIDE DEF shape
  <2>4. "t" \in DOMAIN root /\ root.t = "root" /\ "shape" \in DOMAIN root /\ root.shape = shape
    BY DEF Root
  <2> HIDE DEF root
  <2>5. Len(stack') = 1 /\ stack'[1] = root /\ stack' # <<>>
    BY <2>1
  <2>6. Kind(Skip(1))' = Kind(Skip(1))'
    OBVIOUS
  <2>7. Rooted(stack')
    BY <2>4, <2>5 DEF Rooted
  <2>8. Kind(at)' = Kind(Skip(1))
    BY <2>1 DEF Kind
  <2>9. CursorOK'
    BY <1>1, <2>1, <2>2, <2>3, <2>4, <2>5, <2>7, <2>8 DEF CursorOK, Lexed
  <2>10. Rank' = 6 /\ Rank = 7
    <3>1. Rank' = RankOf(root)
      BY <2>1, <2>5, Zenon DEF Rank, RankOf, Top
    <3>2. RankOf(root) = 6
      BY <2>3, <2>4, RankRange
    <3> QED
      BY <2>1, <3>1, <3>2 DEF Rank
  <2>11. Fuel' = 8 * (Len(tokens) + 1 - Skip(1)) + 6 /\ Fuel = 8 * (Len(tokens) + 1 - 1) + 7
    BY <2>1, <2>10 DEF Fuel
  <2> QED
    BY <1>1, <2>2, <2>9, <2>11 DEF Burns
<1>3. ASSUME In("root")
      PROVE  /\ parsing = "on" /\ Shaped(stack) /\ stack # <<>> /\ Rooted(stack)
             /\ Len(stack) = 1 /\ Top = stack[1] /\ Top.t = "root"
             /\ "t" \in DOMAIN Top /\ "shape" \in DOMAIN Top
  <2>1. parsing = "on" /\ Shaped(stack) /\ stack # <<>> /\ Rooted(stack) /\ Top.t = "root"
    BY <1>3, RankNow DEF In
  <2>2. Len(stack) = 1 /\ "t" \in DOMAIN Top
    BY <2>1, ShapedTop DEF Top
  <2> QED
    BY <2>1, <2>2 DEF Rooted, Top
<1>4. ASSUME In("root"), NEW shape
      PROVE  /\ Shaped(Expect(shape)) /\ Len(Expect(shape)) = 1 /\ Expect(shape) # <<>>
             /\ Rooted(Expect(shape))
             /\ Expect(shape)[1].t = "root" /\ Expect(shape)[1].shape = shape
  <2> DEFINE f == [Top EXCEPT !.shape = shape]
  <2>1. "t" \in DOMAIN f /\ f.t = "root" /\ "shape" \in DOMAIN f /\ f.shape = shape
    BY <1>3, <1>4
  <2> HIDE DEF f
  <2>2. /\ Shaped(Replace(stack, f)) /\ Len(Replace(stack, f)) = 1
        /\ Replace(stack, f) # <<>> /\ Replace(stack, f)[1] = f
    BY <1>3, <1>4, <2>1, ReplaceShaped
  <2>3. Rooted(Replace(stack, f))
    BY <1>3, <1>4, <2>1, ReplaceRooted
  <2> QED
    BY <2>1, <2>2, <2>3 DEF Expect, f
<1> DEFINE bare == ObjectFrame(FALSE)
<1>5. /\ "t" \in DOMAIN bare /\ bare.t = "object"
      /\ "braced" \in DOMAIN bare /\ RankOf(bare) = 4
  BY RankRange DEF ObjectFrame, bare
<1> HIDE DEF bare
<1>6. /\ "t" \in DOMAIN ObjectFrame(TRUE) /\ ObjectFrame(TRUE).t = "object"
       /\ "braced" \in DOMAIN ObjectFrame(TRUE) /\ ObjectFrame(TRUE).braced
  BY DEF ObjectFrame
<1>7. "t" \in DOMAIN ArrayFrame /\ ArrayFrame.t = "array"
  BY DEF ArrayFrame
<1>8. ASSUME NEW i, NEW s, NEW f, Enter(i, s, f)
      PROVE  Refuse("too deep") \/ Go(i, Append(s, f))
  BY <1>8 DEF Enter
<1>9. CASE BeginArray
  <2>1. In("root") /\ Top.shape = "array" /\ Enter(at + 1, Expect("end"), ArrayFrame)
    BY <1>9 DEF BeginArray
  <2>2. Kind(at) = "["
    BY <1>3, <2>1 DEF CursorInv, CursorOK
  <2>3. at \in 1 .. Len(tokens)
    BY <1>1, <2>2, WordIsToken
  <2>4. at + 1 \in at .. Len(tokens) + 1 /\ at + 1 > at
    BY <1>1, <2>3
  <2>5. CASE Go(at + 1, Append(Expect("end"), ArrayFrame))
    BY <1>3, <1>4, <1>7, <2>1, <2>4, <2>5, CallAdvances
  <2> QED
    BY <1>3, <1>8, <2>1, <2>5, RefuseAdvances
<1>10. CASE BeginFields
  <2>1. In("root") /\ Top.shape = "fields" /\ Enter(at, Expect("nothing"), bare)
    BY <1>10 DEF BeginFields, bare
  <2>2. RankOf(Top) = 6
    BY <1>3, <2>1, RankRange
  <2>3. at \in at .. Len(tokens) + 1 /\ RankOf(bare) < RankOf(Top)
    BY <1>1, <1>5, <2>2
  <2>4. CASE Go(at, Append(Expect("nothing"), bare))
    BY <1>3, <1>4, <1>5, <2>1, <2>3, <2>4, CallAdvances
  <2> QED
    BY <1>3, <1>8, <2>1, <2>4, RefuseAdvances
<1>11. CASE BeginObject
  <2>1. /\ In("root") /\ Top.shape = "objects" /\ Kind(Skip(at)) = "{"
        /\ Enter(Skip(at) + 1, stack, ObjectFrame(TRUE))
    BY <1>11 DEF BeginObject
  <2>2. Skip(at) \in at .. Len(tokens) + 1 /\ Skip(at) \in 1 .. Len(tokens)
    BY <1>1, <2>1, SkipStays, WordIsToken
  <2>3. Skip(at) + 1 \in at .. Len(tokens) + 1 /\ Skip(at) + 1 > at
    BY <1>1, <2>2
  <2>4. CASE Go(Skip(at) + 1, Append(stack, ObjectFrame(TRUE)))
    BY <1>3, <1>6, <2>1, <2>3, <2>4, CallAdvances DEF Top
  <2> QED
    BY <1>3, <1>8, <2>1, <2>4, RefuseAdvances
<1>12. CASE BeginRest
  <2>1. /\ In("root") /\ Top.shape = "objects"
        /\ Enter(Skip(at), Expect("end"), bare)
    BY <1>12 DEF BeginRest, bare
  <2>2. RankOf(Top) = 6
    BY <1>3, <2>1, RankRange
  <2>3. Skip(at) \in at .. Len(tokens) + 1 /\ RankOf(bare) < RankOf(Top)
    BY <1>1, <1>5, <2>2, SkipStays
  <2>4. CASE Go(Skip(at), Append(Expect("end"), bare))
    BY <1>3, <1>4, <1>5, <2>1, <2>3, <2>4, CallAdvances
  <2> QED
    BY <1>3, <1>8, <2>1, <2>4, RefuseAdvances
<1>13. CASE Finish
  <2>1. /\ parsing' = "done" /\ tokens' = tokens /\ at' = at /\ lexing' = lexing /\ parsing = "on"
    BY <1>13 DEF Finish, In, lexer
  <2>2. CursorOK'
    BY <2>1 DEF CursorInv, CursorOK, Lexed
  <2>3. Rank' = 0
    BY <2>1 DEF Rank
  <2>4. Fuel' = 8 * (Len(tokens) + 1 - at)
    BY <1>1, <2>1, <2>3 DEF Fuel
  <2> QED
    BY <2>1, <2>2, <2>4, RankNow DEF Burns
<1>14. CASE Leftover
  BY <1>3, <1>14, RefuseAdvances DEF Leftover
<1> QED
  BY <1>2, <1>9, <1>10, <1>11, <1>12, <1>13, <1>14
LEMMA AboveOne == \A n \in Nat \ {0} : n # 1 => n \in Nat /\ n > 1 /\ n \in 2 .. n
  OBVIOUS

LEMMA ObjectAdvances ==
    ASSUME CursorInv, ObjectKey \/ ObjectEnd \/ ObjectInclude
    PROVE  CursorOK' /\ Burns
<1>1. In("object") /\ parsing = "on" /\ Top.t = "object"
  BY DEF ObjectKey, ObjectEnd, ObjectInclude, In
<1>2. /\ Shaped(stack) /\ stack # <<>> /\ Rooted(stack)
      /\ Lexed /\ Len(tokens) \in Nat /\ at \in 1 .. Len(tokens) + 1
  BY <1>1, RankNow DEF CursorInv, CursorOK
<1>3. Len(stack) \in Nat /\ Len(stack) > 1 /\ "t" \in DOMAIN Top /\ "braced" \in DOMAIN Top
  <2>1. Len(stack) \in Nat \ {0} /\ Len(stack) # 1 /\ "t" \in DOMAIN Top
    BY <1>1, <1>2, ShapedTop DEF Top
  <2>2. Len(stack) > 1 /\ Len(stack) \in 2 .. Len(stack)
    BY <2>1, AboveOne
  <2>3. stack[Len(stack)].t = "object"
    BY <1>1 DEF Top
  <2>4. "braced" \in DOMAIN stack[Len(stack)]
    BY <1>2, <2>2, <2>3, Zenon DEF Rooted
  <2> QED
    BY <2>1, <2>2, <2>4 DEF Top
<1>4. Skip(at) \in at .. Len(tokens) + 1
  BY <1>2, SkipStays
<1>5. CASE ObjectKey
  <2> DEFINE f == KeyFrame(Skip(at))
  <2>1. "t" \in DOMAIN f /\ f.t = "key"
    BY DEF KeyFrame
  <2>2. Go(Skip(at), Append(stack, f))
    BY <1>5 DEF ObjectKey
  <2> HIDE DEF f
  <2>3. RankOf(f) = 3 /\ RankOf(Top) = 4
    BY <1>1, <2>1, RankRange
  <2> QED
    BY <1>1, <1>2, <1>3, <1>4, <2>1, <2>2, <2>3, CallAdvances DEF Top
<1>6. CASE ObjectEnd
  <2>1. CASE ~Top.braced /\ Leave(Skip(at), Object(Top.fields))
    BY <1>1, <1>3, <1>4, <2>1, ReturnAdvances DEF Leave
  <2>2. CASE Kind(Skip(at)) = "}" /\ Leave(Skip(at) + 1, Object(Top.fields))
    <3>1. Skip(at) \in 1 .. Len(tokens)
      BY <1>2, <2>2, WordIsToken
    <3>2. Skip(at) + 1 \in at .. Len(tokens) + 1 /\ Skip(at) + 1 > at
      BY <1>2, <1>4, <3>1
    <3> QED
      BY <1>1, <1>3, <2>2, <3>2, ReturnAdvances DEF Leave
  <2>3. CASE Refuse("expected }")
    BY <1>1, <2>3, RefuseAdvances
  <2> QED
    BY <1>6, <2>1, <2>2, <2>3, Zenon DEF ObjectEnd
<1>7. CASE ObjectInclude
  <2> DEFINE d == ReadInclude(Skip(Skip(at) + 1))
             f == [Top EXCEPT !.fields = Append(@, d.field)]
  <2>1. Word(Skip(at)) = <<"include">>
    BY <1>7 DEF ObjectInclude, AtInclude
  <2>2. Skip(at) \in 1 .. Len(tokens)
    <3>1. Word(Skip(at)) # <<>>
      BY <2>1
    <3> QED
      BY <1>2, <3>1, WordIsToken
  <2>3. Skip(Skip(at) + 1) \in Skip(at) + 1 .. Len(tokens) + 1
    BY <1>2, <2>2, SkipStays
  <2>4. CASE d.error = "none"
    <3>1. d.to \in Skip(Skip(at) + 1) .. Len(tokens) + 1
      <4>1. Skip(Skip(at) + 1) \in 1 .. Len(tokens) + 1
        BY <1>2, <1>4, <2>2, <2>3
      <4> QED
        BY <1>2, <2>4, <4>1, IncludeStays
    <3>2. d.to \in 1 .. Len(tokens) + 1
      BY <1>2, <1>4, <2>2, <2>3, <3>1
    <3>3. SkipSeparator(d.to) \in d.to .. Len(tokens) + 1
      BY <1>2, <3>2, SeparatorStays
    <3>4. SkipSeparator(d.to) \in at + 1 .. Len(tokens) + 1
      BY <1>2, <1>4, <2>2, <2>3, <3>1, <3>2, <3>3
    <3>5. Go(SkipSeparator(d.to), Replace(stack, f))
      BY <1>7, <2>4 DEF ObjectInclude
    <3>6. "t" \in DOMAIN f /\ f.t = Top.t /\ "braced" \in DOMAIN f /\ f.braced = Top.braced
      BY <1>3
    <3> HIDE DEF d, f
    <3> QED
      BY <1>1, <3>4, <3>5, <3>6, TurnAdvances
  <2>5. CASE d.error # "none"
    <3>1. Refuse(d.error)
      BY <1>7, <2>5 DEF ObjectInclude
    <3> QED
      BY <1>1, <3>1, RefuseAdvances
  <2> QED
    BY <2>4, <2>5
<1> QED
  BY <1>5, <1>6, <1>7

LEMMA KeyAdvances ==
    ASSUME CursorInv, KeyQuoted \/ KeyUnquoted \/ KeyEnd
    PROVE  CursorOK' /\ Burns
<1>1. In("key") /\ parsing = "on" /\ Top.t = "key"
  BY DEF KeyQuoted, KeyUnquoted, KeyEnd, In
<1>2. /\ Shaped(stack) /\ stack # <<>> /\ Rooted(stack)
      /\ Lexed /\ Len(tokens) \in Nat /\ at \in 1 .. Len(tokens) + 1
  BY <1>1, RankNow DEF CursorInv, CursorOK
<1>3. "t" \in DOMAIN Top
  BY <1>2, ShapedTop DEF Top
<1>4. ASSUME NEW segments, NEW dot, KeyGoesOn(segments, dot, at + 1), Kind(at) # "eof"
      PROVE  CursorOK' /\ Burns
  <2> DEFINE Turned(a, b, c, d, e) ==
               [Top EXCEPT !.segments = a, !.dot = b, !.more = c, !.concat = d, !.prefix = e]
  <2>1. \A a, b, c, d, e : "t" \in DOMAIN Turned(a, b, c, d, e) /\ Turned(a, b, c, d, e).t = Top.t
    BY <1>3
  <2>2. PICK a, b, c, d, e, next :
           /\ Go(next, Replace(stack, Turned(a, b, c, d, e)))
           /\ next = at + 1 \/ (Word(at + 1) = <<".">> /\ next = at + 1 + 1)
    BY <1>4, Zenon DEF KeyGoesOn
  <2>3. at \in 1 .. Len(tokens)
    BY <1>2, <1>4, WordIsToken
  <2>4. next \in at + 1 .. Len(tokens) + 1
    <3>1. CASE next = at + 1
      BY <1>2, <2>3, <3>1
    <3>2. CASE Word(at + 1) = <<".">> /\ next = at + 1 + 1
      <4>1. Word(at + 1) # <<>>
        BY <3>2
      <4>2. at + 1 \in 1 .. Len(tokens)
        BY <1>2, <4>1, WordIsToken
      <4> QED
        BY <1>2, <3>2, <4>2
    <3> QED
      BY <2>2, <3>1, <3>2
  <2> HIDE DEF Turned
  <2> QED
    BY <1>1, <2>1, <2>2, <2>4, TurnAdvances
<1>5. CASE KeyQuoted
  BY <1>4, <1>5 DEF KeyQuoted
<1>6. CASE KeyUnquoted
  <2>1. /\ Kind(at) = "unquoted"
        /\ \/ Refuse("empty key segment") \/ Refuse("reserved character '+'")
           \/ \E segments, dot : KeyGoesOn(segments, dot, at + 1)
    BY <1>6, Zenon DEF KeyUnquoted
  <2> QED
    BY <1>1, <1>4, <2>1, RefuseAdvances
<1>7. CASE KeyEnd
  <2>1. CASE Refuse(KeyError)
    BY <1>1, <2>1, RefuseAdvances
  <2>2. CASE KeyError = "none"
    <3> DEFINE sep    == Skip(at)
               next   == Skip(IF Kind(sep) \in {"=", ":", "+="} THEN sep + 1 ELSE sep)
               object == [Below[Len(Below)] EXCEPT !.key = Top.segments, !.append = (Kind(sep) = "+=")]
               s      == Replace(Below, object)
    <3>1. Go(next, Append(s, ValueFrame))
      BY <1>7, <2>2 DEF KeyEnd
    <3>2. next \in at .. Len(tokens) + 1
      <4>1. sep \in at .. Len(tokens) + 1
        BY <1>2, SkipStays
      <4>2. CASE Kind(sep) \in {"=", ":", "+="}
        <5>1. sep \in 1 .. Len(tokens)
          BY <1>2, <4>2, WordIsToken
        <5>2. Skip(sep + 1) \in sep + 1 .. Len(tokens) + 1
          BY <1>2, <5>1, SkipStays
        <5> QED
          BY <1>2, <4>1, <4>2, <5>1, <5>2
      <4>3. CASE Kind(sep) \notin {"=", ":", "+="}
        <5>1. Skip(sep) \in sep .. Len(tokens) + 1
          BY <1>2, <4>1, SkipStays
        <5> QED
          BY <1>2, <4>1, <4>3, <5>1
      <4> QED
        BY <4>2, <4>3
    <3> HIDE DEF next
    <3>3. /\ Len(stack) \in Nat /\ Len(stack) > 1 /\ stack[Len(stack) - 1].t = "object"
      BY <1>1, Parity DEF CursorInv, In
    <3>4. /\ Shaped(Below) /\ Below # <<>> /\ Len(Below) = Len(stack) - 1
          /\ Below[Len(Below)] = stack[Len(stack) - 1] /\ Rooted(Below)
      BY <1>2, <3>3, PopShaped, PopRooted DEF Below
    <3>5. /\ Len(Below) > 1 /\ "t" \in DOMAIN Below[Len(Below)]
          /\ "braced" \in DOMAIN Below[Len(Below)] /\ Below[Len(Below)].t = "object"
      <4>1. /\ Len(Below) \in Nat \ {0} /\ "t" \in DOMAIN Below[Len(Below)] /\ Len(Below) # 1
            /\ Below[Len(Below)].t = "object"
        BY <3>3, <3>4, ShapedTop
      <4> QED
        BY <3>4, <4>1 DEF Rooted
    <3>6. /\ "t" \in DOMAIN object /\ object.t = "object" /\ "braced" \in DOMAIN object
          /\ object.braced = Below[Len(Below)].braced
      BY <3>5
    <3> HIDE DEF object
    <3>7. /\ Shaped(s) /\ Len(s) = Len(Below) /\ s # <<>> /\ s[Len(s)].t = "object" /\ Rooted(s)
      BY <3>4, <3>5, <3>6, ReplaceShaped, ReplaceRooted
    <3> HIDE DEF s
    <3>8. "t" \in DOMAIN ValueFrame /\ ValueFrame.t = "value" /\ RankOf(ValueFrame) = 2
      BY RankRange DEF ValueFrame
    <3>9. RankOf(Top) = 3
      BY <1>1, RankRange
    <3> QED
      BY <1>1, <3>1, <3>2, <3>5, <3>7, <3>8, <3>9, CallAdvances
  <2> QED
    BY <1>7, <2>1, <2>2 DEF KeyEnd
<1> QED
  BY <1>5, <1>6, <1>7

LEMMA ValueAdvances ==
    ASSUME CursorInv, ValueNested \/ ValueScalar \/ ValueEnd
    PROVE  CursorOK' /\ Burns
<1>1. In("value") /\ parsing = "on" /\ Top.t = "value"
  BY DEF ValueNested, ValueScalar, ValueEnd, In
<1>2. /\ Shaped(stack) /\ stack # <<>> /\ Rooted(stack)
      /\ Lexed /\ Len(tokens) \in Nat /\ at \in 1 .. Len(tokens) + 1
  BY <1>1, RankNow DEF CursorInv, CursorOK
<1>3. "t" \in DOMAIN Top /\ Len(stack) \in Nat /\ Len(stack) > 1
  BY <1>1, <1>2, ShapedTop DEF Top
<1>4. ASSUME NEW parts
      PROVE  "t" \in DOMAIN [Top EXCEPT !.parts = parts] /\ [Top EXCEPT !.parts = parts].t = "value"
  BY <1>1, <1>3
<1>5. ASSUME Kind(at) # "eof"
      PROVE  at + 1 \in at .. Len(tokens) + 1 /\ at + 1 > at /\ at + 1 \in at + 1 .. Len(tokens) + 1
  <2>1. at \in 1 .. Len(tokens)
    BY <1>2, <1>5, WordIsToken
  <2> QED
    BY <1>2, <2>1
<1>6. CASE ValueNested
  <2> DEFINE f == [Top EXCEPT !.parts = Spaced(at)]
             s == Replace(stack, f)
  <2>1. "t" \in DOMAIN f /\ f.t = "value"
    BY <1>4
  <2> HIDE DEF f
  <2>2. Shaped(s) /\ Len(s) = Len(stack) /\ s # <<>> /\ s[Len(s)].t = "value" /\ Rooted(s)
    BY <1>1, <1>2, <1>3, <2>1, ReplaceShaped, ReplaceRooted DEF Top
  <2>3. PICK frame : /\ Enter(at + 1, s, frame)
                     /\ "t" \in DOMAIN frame /\ frame.t \in {"object", "array"}
                     /\ frame.t = "object" => "braced" \in DOMAIN frame /\ frame.braced
    <3>1. /\ "t" \in DOMAIN ObjectFrame(TRUE) /\ ObjectFrame(TRUE).t = "object"
          /\ "braced" \in DOMAIN ObjectFrame(TRUE) /\ ObjectFrame(TRUE).braced
      BY DEF ObjectFrame
    <3>2. "t" \in DOMAIN ArrayFrame /\ ArrayFrame.t = "array"
      BY DEF ArrayFrame
    <3>3. Enter(at + 1, s, ObjectFrame(TRUE)) \/ Enter(at + 1, s, ArrayFrame)
      BY <1>6 DEF ValueNested, f
    <3> QED
      BY <3>1, <3>2, <3>3
  <2>4. Kind(at) # "eof"
    BY <1>6 DEF ValueNested
  <2> HIDE DEF s
  <2>5. CASE Go(at + 1, Append(s, frame))
    BY <1>1, <1>3, <1>5, <2>2, <2>3, <2>4, <2>5, CallAdvances
  <2>6. CASE Refuse("too deep")
    BY <1>1, <2>6, RefuseAdvances
  <2> QED
    BY <2>3, <2>5, <2>6 DEF Enter
<1>7. CASE ValueScalar
  <2>1. /\ Kind(at) # "eof"
        /\ (\E node : Part(node)) \/ Refuse(ScalarError(Value(at)))
    BY <1>7 DEF ValueScalar
  <2>2. ASSUME NEW node, Part(node) PROVE CursorOK' /\ Burns
    <3> DEFINE f == [Top EXCEPT !.parts = Append(Spaced(at), node)]
    <3>1. "t" \in DOMAIN f /\ f.t = "value" /\ Go(at + 1, Replace(stack, f))
      BY <1>4, <2>2 DEF Part
    <3> HIDE DEF f
    <3> QED
      BY <1>1, <1>5, <2>1, <3>1, TurnAdvances
  <2> QED
    BY <1>1, <2>1, <2>2, RefuseAdvances
<1>8. CASE ValueEnd
  <2>1. CASE Top.parts = <<>>
    <3>1. Refuse("expected value")
      BY <1>8, <2>1 DEF ValueEnd
    <3> QED
      BY <1>1, <3>1, RefuseAdvances
  <2>2. CASE Top.parts # <<>>
    <3>1. PICK node : Go(SkipSeparator(at), Receive(Below, node))
      BY <1>8, <2>2 DEF ValueEnd
    <3>2. SkipSeparator(at) \in at .. Len(tokens) + 1
      BY <1>2, SeparatorStays
    <3> QED
      BY <1>1, <1>3, <2>2, <3>1, <3>2, ReturnAdvances
  <2> QED
    BY <2>1, <2>2
<1> QED
  BY <1>6, <1>7, <1>8

LEMMA ArrayAdvances ==
    ASSUME CursorInv, ArrayItem \/ ArrayEnd
    PROVE  CursorOK' /\ Burns
<1>1. In("array") /\ parsing = "on" /\ Top.t = "array"
  BY DEF ArrayItem, ArrayEnd, In
<1>2. /\ Shaped(stack) /\ stack # <<>> /\ Rooted(stack)
      /\ Lexed /\ Len(tokens) \in Nat /\ at \in 1 .. Len(tokens) + 1
  BY <1>1, RankNow DEF CursorInv, CursorOK
<1>3. Len(stack) \in Nat /\ Len(stack) > 1
  <2>1. Len(stack) \in Nat \ {0} /\ Len(stack) # 1
    BY <1>1, <1>2, ShapedTop DEF Top
  <2> QED
    BY <2>1, AboveOne
<1>4. Skip(at) \in at .. Len(tokens) + 1
  BY <1>2, SkipStays
<1>5. CASE ArrayItem
  <2>1. Go(Skip(at), Append(stack, ValueFrame))
    BY <1>5 DEF ArrayItem
  <2>2. "t" \in DOMAIN ValueFrame /\ ValueFrame.t = "value" /\ RankOf(ValueFrame) = 2
    BY RankRange DEF ValueFrame
  <2>3. RankOf(Top) = 4
    BY <1>1, RankRange
  <2> QED
    BY <1>1, <1>2, <1>3, <1>4, <2>1, <2>2, <2>3, CallAdvances DEF Top
<1>6. CASE ArrayEnd
  <2>1. CASE Kind(Skip(at)) = "]"
    <3>1. Leave(Skip(at) + 1, Array(Top.items))
      BY <1>6, <2>1 DEF ArrayEnd
    <3>2. Skip(at) \in 1 .. Len(tokens)
      BY <1>2, <2>1, WordIsToken
    <3>3. Skip(at) + 1 \in at .. Len(tokens) + 1 /\ Skip(at) + 1 > at
      BY <1>2, <1>4, <3>2
    <3> QED
      BY <1>1, <1>3, <3>1, <3>3, ReturnAdvances DEF Leave
  <2>2. CASE Kind(Skip(at)) # "]"
    <3>1. Refuse("expected ]")
      BY <1>6, <2>2 DEF ArrayEnd
    <3> QED
      BY <1>1, <3>1, RefuseAdvances
  <2> QED
    BY <2>1, <2>2
<1> QED
  BY <1>5, <1>6

\* The lexer only adds tokens, and only before the parser begins.
Adds == tokens' = tokens \/ \E t : tokens' = Append(tokens, t)

LEMMA PushAdds ==
    ASSUME NEW t, Push(t)
    PROVE  Adds
  BY DEF Push, Adds

LEMMA LexOnly ==
    ASSUME LexStep
    PROVE  lexing = "on" /\ Adds
<1>1. lexing = "on"
  BY DEF LexStep, SubStep, LexNewline, LexBlank, LexComment, LexPunctuation, LexUnquoted,
         LexQuoted, LexTriple, LexSubst, LexUnexpected, LexEnd, SubQuoted, SubWord, SubDot,
         SubBlank, SubEnd, SubList, SubUnexpected, Reading, InPath
<1> SUFFICES Adds
  BY <1>1
<1>2. ASSUME NEW kind, NEW value, NEW j, Emit(kind, value, j) PROVE Adds
  BY <1>2, PushAdds DEF Emit
<1>3. ASSUME NEW e, Wrong(e) PROVE Adds
  BY <1>3 DEF Wrong, Adds
<1>4. ASSUME NEW text, NEW j, SubAppend(text, j) PROVE Adds
  BY <1>4 DEF SubAppend, Adds
<1>5. ASSUME NEW segments, NEW list, NEW j, EndSubst(segments, list, j) PROVE Adds
  BY <1>5, PushAdds DEF EndSubst
<1>6. CASE LexNewline
  <2>1. CASE tokens # <<>> /\ tokens[Len(tokens)].kind = "newline"
    BY <1>6, <2>1, Zenon DEF LexNewline, Adds
  <2>2. CASE ~(tokens # <<>> /\ tokens[Len(tokens)].kind = "newline")
    <3>1. Push(Token("newline", <<Newline>>, NoPayload, pos, pos + 1, col))
      BY <1>6, <2>2, Zenon DEF LexNewline
    <3> QED
      BY <3>1, PushAdds
  <2> QED
    BY <2>1, <2>2
<1>7. CASE LexBlank
  BY <1>7 DEF LexBlank, Adds
<1>8. CASE LexComment
  BY <1>8 DEF LexComment, Adds
<1>9. CASE LexPunctuation
  BY <1>2, <1>9, Zenon DEF LexPunctuation
<1>10. CASE LexUnquoted
  BY <1>2, <1>10, Zenon DEF LexUnquoted
<1>11. CASE LexQuoted
  BY <1>2, <1>3, <1>11, Zenon DEF LexQuoted
<1>12. CASE LexTriple
  <2>1. CASE TripleStops = {}
    BY <1>3, <1>12, <2>1, Zenon DEF LexTriple
  <2>2. CASE TripleStops # {}
    <3>1. PICK j : Push(Token("triple", Text(pos + 3, j - 3), NoPayload, pos, j, col))
      BY <1>12, <2>2, Zenon DEF LexTriple
    <3> QED
      BY <3>1, PushAdds
  <2> QED
    BY <2>1, <2>2
<1>13. CASE LexSubst
  BY <1>13, Zenon DEF LexSubst, Adds
<1>14. CASE LexUnexpected
  BY <1>3, <1>14, Zenon DEF LexUnexpected
<1>15. CASE LexEnd
  BY <1>15, Zenon DEF LexEnd, Adds
<1>16. CASE SubQuoted
  BY <1>3, <1>4, <1>16, Zenon DEF SubQuoted
<1>17. CASE SubWord
  BY <1>3, <1>4, <1>17, Zenon DEF SubWord
<1>18. CASE SubDot
  BY <1>3, <1>18, Zenon DEF SubDot, Adds
<1>19. CASE SubBlank
  BY <1>19 DEF SubBlank, Adds
<1>20. CASE SubEnd
  BY <1>3, <1>5, <1>20, Zenon DEF SubEnd
<1>21. CASE SubList
  <2> DEFINE Wide == sub.started /\ \E i \in DOMAIN sub.pending : sub.pending[i] \notin {" ", "\t"}
  <2>1. CASE ~sub.started
    <3>1. Wrong("empty segment before []")
      BY <1>21, <2>1, Zenon DEF SubList
    <3> QED
      BY <1>3, <3>1
  <2>2. CASE sub.started /\ Wide
    <3>1. Wrong("blank before []")
      BY <1>21, <2>2, Zenon DEF SubList
    <3> QED
      BY <1>3, <3>1
  <2>3. CASE sub.started /\ ~Wide
    <3>1. IF Is(pos, <<"[", "]", "}">>)
          THEN EndSubst(Append(sub.segments, sub.text), TRUE, pos + 3)
          ELSE Wrong("malformed []")
      BY <1>21, <2>3, Zenon DEF SubList
    <3> QED
      BY <1>3, <1>5, <3>1, Zenon
  <2> QED
    BY <2>1, <2>2, <2>3
<1>22. CASE SubUnexpected
  BY <1>3, <1>22, Zenon DEF SubUnexpected
<1> QED
  BY <1>6, <1>7, <1>8, <1>9, <1>10, <1>11, <1>12, <1>13, <1>14, <1>15, <1>16, <1>17,
     <1>18, <1>19, <1>20, <1>21, <1>22, Zenon DEF LexStep, SubStep

LEMMA LexKeepsCursor ==
    ASSUME CursorInv, LexStep, UNCHANGED parser
    PROVE  CursorOK'
<1>1. parsing = "off" /\ at = 1 /\ Lexed /\ parsing' = "off" /\ at' = 1
  BY LexOnly DEF CursorInv, CursorOK, parser
<1>2. PICK S : tokens \in Seq(S)
  BY <1>1 DEF Lexed
<1>3. \E T : tokens' \in Seq(T)
  <2>1. CASE tokens' = tokens
    BY <1>2, <2>1
  <2>2. ASSUME NEW t, tokens' = Append(tokens, t) PROVE tokens' \in Seq(S \cup {t})
    <3>1. tokens \in Seq(S \cup {t})
      BY <1>2
    <3> QED
      BY <2>2, <3>1
  <2> QED
    BY <2>1, <2>2, LexOnly DEF Adds
<1>4. Len(tokens') \in Nat
  BY <1>3
<1> QED
  BY <1>1, <1>3, <1>4 DEF CursorOK, Lexed

LEMMA StepAdvances ==
    ASSUME CursorInv, ParseStep
    PROVE  CursorOK' /\ Burns
BY DocumentAdvances, ObjectAdvances, KeyAdvances, ValueAdvances, ArrayAdvances DEF ParseStep

LEMMA CursorKeeps == Spec => []CursorInv
<1>1. Init => CursorInv
  <2> SUFFICES ASSUME Init PROVE CursorInv
    OBVIOUS
  <2>1. tokens = <<>> /\ at = 1 /\ parsing = "off" /\ stack = <<>> /\ depth = 0
    BY DEF Init, LexInit, ParseInit
  <2>2. tokens \in Seq({}) /\ Len(tokens) = 0
    BY <2>1
  <2>3. CursorOK
    BY <2>1, <2>2 DEF CursorOK, Lexed
  <2>4. CallsInv
    BY <2>1, DepthAssumption DEF CallsInv, CallsNest, Alternates
  <2> QED
    BY <2>3, <2>4 DEF CursorInv
<1>2. CursorInv /\ [Next]_vars => CursorInv'
  <2> SUFFICES ASSUME CursorInv, [Next]_vars PROVE CursorInv'
    OBVIOUS
  <2>1. CASE UNCHANGED vars
    BY <2>1 DEF vars, parser, lexer, CursorInv, CursorOK, Lexed, CallsInv, CallsNest, Shaped,
                Alternates, Stands, Rooted, Kind
  <2>2. CASE LexStep /\ UNCHANGED parser
    BY <2>2, LexKeepsCursor DEF parser, CursorInv, CallsInv, CallsNest, Shaped, Alternates, Stands
  <2>3. CASE ParseStep
    BY <2>3, StepAdvances, DocumentKeeps, ObjectKeeps, KeyKeeps, ValueKeeps, ArrayKeeps
       DEF ParseStep, CursorInv
  <2> QED
    BY <2>1, <2>2, <2>3 DEF Next
<1> QED
  BY <1>1, <1>2, PTL DEF Spec

\* For every text, however it is made of tokens and wherever it breaks off, the
\* cursor of the parser stays within the tokens and every step of the parser
\* (each turn of parse_tokens, parse_object, parse_key, parse_value, parse_array)
\* brings its end closer: reading ends, in a number of steps that is linear in
\* the tokens.
THEOREM ParsingEnds == Spec => [](parsing = "on" => Fuel \in 0 .. 8 * (Len(tokens) + 1)) /\ Advances
<1>1. CursorInv => (parsing = "on" => Fuel \in 0 .. 8 * (Len(tokens) + 1))
  BY RankNow
<1>2. CursorInv /\ [Next]_vars => [ParseStep => Fuel' \in Nat /\ Fuel' < Fuel]_vars
  BY StepAdvances DEF Burns
<1> QED
  BY <1>1, <1>2, CursorKeeps, PTL DEF Spec, Advances

(* -------------------------------- the nesting -------------------------- *)
Plain(i, j) == \A k \in i .. j - 1 : Kind(k) \notin Brackets

LEMMA PlainOn ==
    ASSUME NEW i \in Nat, NEW j \in Nat, NEW k \in Nat, i <= j, j <= k, Plain(i, j), Plain(j, k)
    PROVE  Plain(i, k)
BY DEF Plain

LEMMA SkipPlain ==
    ASSUME Lexed, NEW i \in 1 .. Len(tokens) + 1
    PROVE  Plain(i, Skip(i))
BY SkipIs DEF Plain, Brackets

LEMMA SeparatorPlain ==
    ASSUME Lexed, NEW i \in 1 .. Len(tokens) + 1
    PROVE  Plain(i, SkipSeparator(i))
<1>1. Len(tokens) \in Nat
  BY Tokens
<1>2. Skip(i) \in i .. Len(tokens) + 1 /\ Plain(i, Skip(i))
  BY SkipStays, SkipPlain
<1>3. CASE Kind(Skip(i)) = ","
  <2> DEFINE m == Skip(i)
  <2>1. m \in 1 .. Len(tokens)
    BY <1>3, WordIsToken
  <2>2. m + 1 \in 1 .. Len(tokens) + 1
    BY <1>1, <2>1
  <2>3. Skip(m + 1) \in m + 1 .. Len(tokens) + 1 /\ Plain(m + 1, Skip(m + 1))
    BY <2>2, SkipStays, SkipPlain
  <2>4. SkipSeparator(i) = Skip(m + 1)
    BY <1>3 DEF SkipSeparator
  <2>5. m \in i .. Len(tokens) + 1 /\ Plain(i, m)
    BY <1>2
  <2>6. Kind(m) \notin Brackets
    BY <1>3 DEF Brackets
  <2> HIDE DEF m
  <2> DEFINE e == Skip(m + 1)
  <2>7. e \in m + 1 .. Len(tokens) + 1 /\ Plain(m + 1, e)
    BY <2>3
  <2> HIDE DEF e
  <2>8. ASSUME NEW k \in i .. e - 1
        PROVE  k \in i .. m - 1 \/ k = m \/ k \in m + 1 .. e - 1
    BY <1>1, <2>1, <2>5, <2>7
  <2>9. Plain(i, e)
    BY <2>5, <2>6, <2>7, <2>8, Zenon DEF Plain
  <2> QED
    BY <2>4, <2>9 DEF e
<1>4. CASE Kind(Skip(i)) # ","
  BY <1>2, <1>4 DEF SkipSeparator
<1> QED
  BY <1>3, <1>4

LEMMA AmongFinite ==
    ASSUME NEW S, NEW n \in Nat
    PROVE  IsFiniteSet(Among(S, n)) /\ Cardinality(Among(S, n)) \in Nat
<1>1. IsFiniteSet(1 .. n - 1)
  BY FS_Interval
<1>2. Among(S, n) \subseteq 1 .. n - 1
  BY DEF Among
<1> QED
  BY <1>1, <1>2, FS_Subset, FS_CardinalityType

LEMMA AmongOne ==
    ASSUME NEW S, NEW n \in Nat \ {0}
    PROVE  Cardinality(Among(S, n + 1)) =
             IF Kind(n) \in S THEN Cardinality(Among(S, n)) + 1 ELSE Cardinality(Among(S, n))
<1>1. CASE Kind(n) \in S
  <2>1. Among(S, n + 1) = Among(S, n) \cup {n} /\ n \notin Among(S, n)
    BY <1>1 DEF Among
  <2>2. IsFiniteSet(Among(S, n))
    BY AmongFinite
  <2> QED
    BY <1>1, <2>1, <2>2, FS_AddElement
<1>2. CASE Kind(n) \notin S
  <2>1. Among(S, n + 1) = Among(S, n)
    BY <1>2 DEF Among
  <2> QED
    BY <1>2, <2>1
<1> QED
  BY <1>1, <1>2

LEMMA LevelIs ==
    ASSUME NEW n \in Nat \ {0}
    PROVE  /\ Level(n) \in Int
           /\ Kind(n) \in {"{", "["} => Level(n + 1) = Level(n) + 1
           /\ Kind(n) \in {"}", "]"} => Level(n + 1) = Level(n) - 1
<1> DEFINE O == {"{", "["}
           C == {"}", "]"}
<1>1. /\ Cardinality(Among(O, n)) \in Nat /\ Cardinality(Among(C, n)) \in Nat
  BY AmongFinite
<1>2. /\ Cardinality(Among(O, n + 1)) =
           IF Kind(n) \in O THEN Cardinality(Among(O, n)) + 1 ELSE Cardinality(Among(O, n))
      /\ Cardinality(Among(C, n + 1)) =
           IF Kind(n) \in C THEN Cardinality(Among(C, n)) + 1 ELSE Cardinality(Among(C, n))
  BY AmongOne
<1>3. Kind(n) \in O => Kind(n) \notin C
  OBVIOUS
<1>4. /\ Level(n) = Cardinality(Among(O, n)) - Cardinality(Among(C, n))
      /\ Level(n + 1) = Cardinality(Among(O, n + 1)) - Cardinality(Among(C, n + 1))
  BY DEF Level
<1> HIDE DEF O, C
<1>5. /\ Level(n) \in Int
      /\ Kind(n) \in O => Level(n + 1) = Level(n) + 1
      /\ Kind(n) \in C => Level(n + 1) = Level(n) - 1
  BY <1>1, <1>2, <1>3, <1>4
<1> QED
  BY <1>5 DEF O, C

LEMMA LevelPlain ==
    ASSUME NEW i \in Nat \ {0}, NEW j \in Nat, i <= j, Plain(i, j)
    PROVE  Level(j) = Level(i)
<1>1. ASSUME NEW S \in SUBSET Brackets PROVE Among(S, j) = Among(S, i)
  BY <1>1 DEF Among, Plain
<1>2. {"{", "["} \in SUBSET Brackets /\ {"}", "]"} \in SUBSET Brackets
  BY DEF Brackets
<1> QED
  BY <1>1, <1>2 DEF Level

\* What is read of required( and which words it is.
LEMMA RequiredReads ==
    ASSUME Lexed, NEW i \in 1 .. Len(tokens) + 1, Required(i)
    PROVE  /\ \A n \in i .. AfterRequired(i).to - 1 : Kind(n) = "unquoted"
           /\ AfterRequired(i).form = "file" => \E n \in i .. AfterRequired(i).to - 1 : NamesFile(n)
<1>1. \A a, b : ~Begins(<<>>, <<a, b>>)
  BY DEF Begins
<1>2. \A a : ~Begins(<<>>, <<a>>)
  BY DEF Begins
<1>3. Word(i) # <<>> /\ Kind(i) = "unquoted"
  <2>1. Word(i) # <<>>
    BY <1>1 DEF Required, Opens
  <2> QED
    BY <2>1 DEF Word
<1>4. CASE Opens(Word(i), "required")
  <2>1. AfterRequired(i) = [to |-> i + 1, form |-> Form(SubSeq(Word(i), 3, Len(Word(i))))]
    BY <1>4, Zenon DEF AfterRequired
  <2>2. /\ AfterRequired(i).to = i + 1
        /\ AfterRequired(i).form = Form(SubSeq(Word(i), 3, Len(Word(i))))
    BY <2>1
  <2>3. AfterRequired(i).form = "file" => NamesFile(i)
    BY <1>3, <2>2, Zenon DEF NamesFile
  <2>4. \A n \in i .. AfterRequired(i).to - 1 : n = i
    BY <2>2
  <2>5. i \in i .. AfterRequired(i).to - 1
    BY <2>2
  <2> QED
    BY <1>3, <2>3, <2>4, <2>5, Zenon
<1>5. CASE ~Opens(Word(i), "required") /\ Word(i + 1) = <<"(">>
  <2>1. AfterRequired(i) = [to |-> i + 2, form |-> "none"]
    <3>1. ~(Len(Word(i + 1)) > 1)
      <4> DEFINE w == Word(i + 1)
      <4>1. w = <<"(">>
        BY <1>5
      <4> HIDE DEF w
      <4>2. Len(w) = 1 /\ ~(1 > 1)
        BY <4>1
      <4> QED
        BY <4>2, Zenon DEF w
    <3> QED
      BY <1>5, <3>1, Zenon DEF AfterRequired
  <2>2. AfterRequired(i).to = i + 2 /\ AfterRequired(i).form = "none"
    BY <2>1
  <2>3. Kind(i + 1) = "unquoted"
    BY <1>5 DEF Word
  <2>4. \A n \in i .. AfterRequired(i).to - 1 : n = i \/ n = i + 1
    BY <2>2
  <2> QED
    BY <1>3, <2>2, <2>3, <2>4
<1>6. CASE /\ ~Opens(Word(i), "required") /\ Word(i + 1) # <<"(">>
           /\ Len(Word(i + 1)) > 1 /\ Begins(Word(i + 1), <<"(">>) /\ Form(Tail(Word(i + 1))) # "none"
  <2>1. AfterRequired(i) = [to |-> i + 2, form |-> Form(Tail(Word(i + 1)))]
    BY <1>6, Zenon DEF AfterRequired
  <2>2. AfterRequired(i).to = i + 2 /\ AfterRequired(i).form = Form(Tail(Word(i + 1)))
    BY <2>1
  <2>3. Word(i + 1) # <<>>
    BY <1>2, <1>6
  <2>4. Kind(i + 1) = "unquoted"
    BY <2>3 DEF Word
  <2>5. AfterRequired(i).form = "file" => NamesFile(i + 1)
    BY <2>2, <2>3, Zenon DEF NamesFile
  <2>6. \A n \in i .. AfterRequired(i).to - 1 : n = i \/ n = i + 1
    BY <2>2
  <2>7. i + 1 \in i .. AfterRequired(i).to - 1
    BY <2>2
  <2> QED
    BY <1>3, <2>4, <2>5, <2>6, <2>7, Zenon
<1>7. CASE /\ ~Opens(Word(i), "required") /\ Word(i + 1) # <<"(">>
           /\ ~(Len(Word(i + 1)) > 1 /\ Begins(Word(i + 1), <<"(">>) /\ Form(Tail(Word(i + 1))) # "none")
  <2>1. AfterRequired(i) = [to |-> i + 1, form |-> "none"]
    BY <1>7, Zenon DEF AfterRequired
  <2>2. AfterRequired(i).to = i + 1 /\ AfterRequired(i).form = "none"
    BY <2>1
  <2>3. \A n \in i .. AfterRequired(i).to - 1 : n = i
    BY <2>2
  <2> QED
    BY <1>3, <2>2, <2>3
<1> QED
  BY <1>4, <1>5, <1>6, <1>7

\* A file directive passes over no bracket, unless its include hides one.
LEMMA FilePlain ==
    ASSUME Lexed, NEW h \in 1 .. Len(tokens), AtInclude(h), ~Hides(h),
           NEW i \in h + 1 .. Len(tokens) + 1, NEW required,
           FileArgument(i, required).error = "none",
           \A n \in h .. i - 1 : Kind(n) # "quoted",
           NEW m \in h .. i - 1, NamesFile(m)
    PROVE  Plain(i, FileArgument(i, required).to)
<1> DEFINE q == FirstQuoted(i)
           e == PastClosing(q + 1)
<1>1. i \in 1 .. Len(tokens) + 1 /\ Len(tokens) \in Nat
  BY Tokens
<1>2. q \in i .. Len(tokens) + 1 /\ \A k \in i .. q - 1 : Kind(k) \notin {"quoted", "eof"}
  BY <1>1, FirstQuotedIs
<1>3. q \in 1 .. Len(tokens) /\ Kind(q) # "eof" /\ FileArgument(i, required).to = e
  BY <1>1, FileStays
<1>4. Kind(q) \notin Brackets
  <2>1. Kind(q) \in {"quoted", "eof"}
    BY <1>1, FirstQuotedIs
  <2> QED
    BY <2>1 DEF Brackets
<1>5. q + 1 \in 1 .. Len(tokens) + 1
  BY <1>1, <1>3
<1>6. e \in q + 1 .. Len(tokens) + 1 /\ \A k \in q + 1 .. e - 1 : Closes(k)
  BY <1>5, PastClosingIs
<1> HIDE DEF q, e
<1>7. ASSUME NEW k \in i .. q - 1 PROVE Kind(k) \notin Brackets
  <2>1. k \in h .. Len(tokens) /\ m \in h .. k
    BY <1>1, <1>2
  <2>2. ASSUME NEW n \in h .. k PROVE Kind(n) # "quoted"
    <3>1. n \in h .. i - 1 \/ n \in i .. q - 1
      BY <1>1, <1>2
    <3> QED
      BY <1>2, <3>1
  <2> QED
    BY <2>1, <2>2, Zenon DEF Hides
<1>8. ASSUME NEW k \in q + 1 .. e - 1 PROVE Kind(k) \notin Brackets
  <2>1. Kind(k) = "unquoted"
    BY <1>6, <1>8 DEF Closes, Word
  <2> QED
    BY <2>1 DEF Brackets
<1>9. ASSUME NEW k \in i .. e - 1 PROVE k \in i .. q - 1 \/ k = q \/ k \in q + 1 .. e - 1
  BY <1>1, <1>2, <1>6
<1> QED
  BY <1>3, <1>4, <1>7, <1>8, <1>9, Zenon DEF Plain

LEMMA IncludePlain ==
    ASSUME Lexed, NEW h \in 1 .. Len(tokens), AtInclude(h), ~Hides(h),
           NEW i \in h + 1 .. Len(tokens) + 1, \A k \in h + 1 .. i - 1 : Kind(k) = "newline",
           ReadInclude(i).error = "none"
    PROVE  Plain(h, ReadInclude(i).to)
<1> DEFINE j == Opening(i).to
           d == ReadInclude(i)
<1>1. Len(tokens) \in Nat /\ h + 1 \in 1 .. Len(tokens) + 1
  BY Tokens
<1>2. /\ i \in h + 1 .. Len(tokens) + 1
      /\ \A k \in h + 1 .. i - 1 : Kind(k) = "newline"
  OBVIOUS
<1>3. i \in 1 .. Len(tokens) + 1
  BY <1>1, <1>2
<1>4. Kind(h) = "unquoted"
  <2>1. Word(h) # <<>>
    BY DEF AtInclude
  <2> QED
    BY <2>1 DEF Word
<1>5. /\ j \in i .. Len(tokens) + 1
      /\ \A n \in i .. j - 1 : Kind(n) = "unquoted"
      /\ Opening(i).form = "file" => \E n \in i .. j - 1 : NamesFile(n)
  <2>1. CASE Required(i)
    BY <1>3, <2>1, RequiredStays, RequiredReads DEF Opening
  <2>2. CASE ~Required(i)
    <3>1. Opening(i).to = i /\ Opening(i).form = "none"
      BY <2>2 DEF Opening
    <3> QED
      BY <1>3, <3>1
  <2> QED
    BY <2>1, <2>2
<1>6. \/ d = PackageArguments(j, Required(i))
      \/ d = PackageArguments(j + 1, Required(i)) /\ Opens(Word(j), "package")
      \/ /\ d = PackageArguments(j + 2, Required(i)) /\ Begins(Word(j + 1), <<"(">>)
         /\ Word(j) = <<"package">>
      \/ /\ d = Directive(Include(Value(j), Required(i), FALSE),
                          IF Required(i) /\ Begins(Word(j + 1), <<")">>) THEN j + 2 ELSE j + 1)
         /\ Kind(j) = "quoted"
      \/ d = FileArgument(j, Required(i)) /\ Opening(i).form = "file"
      \/ d = FileArgument(j + 1, Required(i)) /\ Form(Word(j)) = "file"
  BY IncludeForms
<1> HIDE DEF d, j
<1>7. d.error = "none"
  BY DEF d
<1>8. /\ j \in Nat /\ i \in Nat /\ h \in Nat /\ h <= i /\ i <= j /\ h <= j
      /\ j \in h + 1 .. Len(tokens) + 1 /\ j \in 1 .. Len(tokens) + 1
  BY <1>1, <1>2, <1>5
<1>9. \A n \in h .. j - 1 : Kind(n) \in {"unquoted", "newline"}
  <2>1. ASSUME NEW n \in h .. j - 1 PROVE n = h \/ n \in h + 1 .. i - 1 \/ n \in i .. j - 1
    BY <1>2, <1>8
  <2> QED
    BY <1>2, <1>4, <1>5, <2>1
<1>10. Plain(h, j) /\ \A n \in h .. j - 1 : Kind(n) # "quoted"
  BY <1>9 DEF Plain, Brackets
<1>11. SUFFICES d.to \in Nat /\ j <= d.to /\ Plain(j, d.to)
  BY <1>8, <1>10, PlainOn DEF d
<1>12. ASSUME NEW k \in Nat, Kind(k) \in {"newline", "unquoted", "quoted", ","} PROVE Plain(k, k + 1)
  <2>1. ASSUME NEW n \in k .. k + 1 - 1 PROVE Kind(n) \notin Brackets
    <3>1. n = k
      OBVIOUS
    <3> QED
      BY <1>12, <3>1 DEF Brackets
  <2> QED
    BY <2>1 DEF Plain
<1>13. \A a, b : ~Begins(<<>>, <<a, b>>) /\ ~Begins(<<>>, <<a>>)
  BY DEF Begins
\* The arguments of package, from k on.
<1>14. ASSUME NEW k \in 1 .. Len(tokens) + 1, d = PackageArguments(k, Required(i))
       PROVE  d.to = k + 4 /\ Plain(k, d.to)
  <2>1. /\ d.to = k + 4
        /\ Kind(k) = "quoted" /\ Kind(k + 1) = "," /\ Kind(k + 2) = "quoted"
        /\ Kind(k + 3) = "unquoted"
    BY <1>7, <1>14, PackageStays
  <2>2. ASSUME NEW n \in k .. k + 4 - 1 PROVE n = k \/ n = k + 1 \/ n = k + 2 \/ n = k + 3
    OBVIOUS
  <2>3. ASSUME NEW n \in k .. k + 4 - 1 PROVE Kind(n) \notin Brackets
    BY <2>1, <2>2 DEF Brackets
  <2>5. Plain(k, k + 4)
    BY <2>3 DEF Plain
  <2> QED
    BY <2>1, <2>5, Zenon
<1>15. CASE d = PackageArguments(j, Required(i))
  BY <1>8, <1>14, <1>15
<1>16. CASE d = PackageArguments(j + 1, Required(i)) /\ Opens(Word(j), "package")
  <2>1. Word(j) # <<>>
    BY <1>13, <1>16 DEF Opens
  <2>2. Kind(j) = "unquoted" /\ j \in 1 .. Len(tokens)
    BY <2>1, WordIsToken DEF Word
  <2>3. j + 1 \in 1 .. Len(tokens) + 1 /\ j + 1 \in Nat
    BY <1>1, <2>2
  <2>4. d.to = j + 1 + 4 /\ Plain(j + 1, d.to)
    BY <1>14, <1>16, <2>3
  <2>5. Plain(j, j + 1)
    BY <1>8, <1>12, <2>2
  <2> QED
    BY <1>8, <2>3, <2>4, <2>5, PlainOn
<1>17. CASE /\ d = PackageArguments(j + 2, Required(i)) /\ Begins(Word(j + 1), <<"(">>)
            /\ Word(j) = <<"package">>
  <2>1. Word(j + 1) # <<>> /\ Word(j) # <<>>
    <3>1. Word(j + 1) # <<>>
      BY <1>13, <1>17, Zenon
    <3> QED
      BY <1>17, <3>1
  <2>2. Kind(j) = "unquoted" /\ Kind(j + 1) = "unquoted" /\ j + 1 \in 1 .. Len(tokens)
    BY <2>1, WordIsToken DEF Word
  <2>3. j + 2 \in 1 .. Len(tokens) + 1 /\ j + 2 \in Nat
    BY <1>1, <1>8, <2>2
  <2>4. d.to = j + 2 + 4 /\ Plain(j + 2, d.to)
    BY <1>14, <1>17, <2>3
  <2>5. Plain(j, j + 2)
    <3>1. ASSUME NEW n \in j .. j + 2 - 1 PROVE n = j \/ n = j + 1
      BY <1>8
    <3>2. ASSUME NEW n \in j .. j + 2 - 1 PROVE Kind(n) \notin Brackets
      BY <2>2, <3>1 DEF Brackets
    <3> QED
      BY <1>8, <3>2 DEF Plain
  <2>6. d.to \in Nat /\ j <= d.to /\ j <= j + 2 /\ j + 2 <= d.to
    BY <1>8, <2>4
  <2> QED
    BY <1>8, <2>3, <2>4, <2>5, <2>6, PlainOn
\* The path alone.
<1>18. CASE /\ d = Directive(Include(Value(j), Required(i), FALSE),
                             IF Required(i) /\ Begins(Word(j + 1), <<")">>) THEN j + 2 ELSE j + 1)
            /\ Kind(j) = "quoted"
  <2>1. \/ d.to = j + 1
        \/ d.to = j + 2 /\ Begins(Word(j + 1), <<")">>)
    BY <1>18 DEF Directive
  <2>2. Plain(j, j + 1)
    BY <1>8, <1>12, <1>18
  <2>3. CASE d.to = j + 1
    BY <1>8, <2>2, <2>3
  <2>4. CASE d.to = j + 2 /\ Begins(Word(j + 1), <<")">>)
    <3>1. Word(j + 1) # <<>>
      BY <1>13, <2>4
    <3>2. Kind(j + 1) = "unquoted"
      BY <3>1 DEF Word
    <3>3. ASSUME NEW n \in j .. j + 2 - 1 PROVE n = j \/ n = j + 1
      BY <1>8
    <3>4. ASSUME NEW n \in j .. j + 2 - 1 PROVE Kind(n) \notin Brackets
      BY <1>18, <3>2, <3>3 DEF Brackets
    <3>5. Plain(j, j + 2)
      BY <1>8, <3>4 DEF Plain
    <3> QED
      BY <1>8, <2>4, <3>5
  <2> QED
    BY <2>1, <2>3, <2>4
<1>19. CASE d = FileArgument(j, Required(i)) /\ Opening(i).form = "file"
  <2>1. PICK m \in i .. j - 1 : NamesFile(m)
    BY <1>5, <1>19
  <2>2. m \in h .. j - 1
    BY <1>8
  <2>3. Plain(j, d.to) /\ d.to \in j .. Len(tokens) + 1
    BY <1>7, <1>8, <1>10, <1>19, <2>1, <2>2, FilePlain, FileStays
  <2> QED
    BY <1>1, <1>8, <2>3
<1>20. CASE d = FileArgument(j + 1, Required(i)) /\ Form(Word(j)) = "file"
  <2>1. Word(j) # <<>>
    <3>1. ~Opens(<<>>, "file") /\ ~Opens(<<>>, "package") /\ <<>> # <<"file">>
      BY <1>13 DEF Opens
    <3> QED
      BY <1>20, <3>1 DEF Form
  <2>2. Kind(j) = "unquoted" /\ j \in 1 .. Len(tokens) /\ NamesFile(j)
    BY <1>20, <2>1, WordIsToken DEF Word, NamesFile
  <2>3. j + 1 \in h + 1 .. Len(tokens) + 1 /\ j \in h .. j + 1 - 1 /\ j + 1 \in 1 .. Len(tokens) + 1
    BY <1>1, <1>8, <2>2
  <2>4. \A n \in h .. j + 1 - 1 : Kind(n) # "quoted"
    <3>1. \A n \in h .. j + 1 - 1 : n \in h .. j - 1 \/ n = j
      BY <1>8
    <3> QED
      BY <1>10, <2>2, <3>1
  <2>5. Plain(j + 1, d.to) /\ d.to \in j + 1 .. Len(tokens) + 1
    BY <1>7, <1>20, <2>2, <2>3, <2>4, FilePlain, FileStays
  <2>6. Plain(j, j + 1)
    BY <1>8, <1>12, <2>2
  <2>7. j + 1 \in Nat /\ d.to \in Nat /\ j <= j + 1 /\ j + 1 <= d.to /\ j <= d.to
    BY <1>1, <1>8, <2>5
  <2> QED
    BY <1>8, <2>5, <2>6, <2>7, PlainOn
<1> QED
  BY <1>6, <1>15, <1>16, <1>17, <1>18, <1>19, <1>20

\* How many objects without braces are being read: the second call may be one.
BareTop(s) == Len(s) > 1 /\ s[2].t = "object" /\ ~s[2].braced
Bare(s)    == IF BareTop(s) THEN 1 ELSE 0

LEMMA UnbracedIs ==
    ASSUME CallsInv, stack # <<>>, Rooted(stack)
    PROVE  Cardinality(Unbraced) = Bare(stack)
<1>1. Shaped(stack)
  BY DEF CallsInv
<1>2. PICK S : stack \in Seq(S)
  BY <1>1 DEF Shaped
<1>3. Len(stack) \in Nat \ {0} /\ DOMAIN stack = 1 .. Len(stack)
  BY <1>2
<1>4. ASSUME NEW i \in Unbraced PROVE i = 2 /\ BareTop(stack)
  <2>1. i \in DOMAIN stack /\ stack[i].t = "object" /\ ~stack[i].braced
    BY <1>4 DEF Unbraced
  <2>2. i # 1
    <3>1. i = 1 => stack[i].t = "root"
      BY <1>1, <2>1 DEF Shaped, Alternates, Stands
    <3> QED
      BY <2>1, <3>1
  <2>3. i \in 2 .. Len(stack)
    BY <1>3, <2>1, <2>2
  <2>4. i = 2
    BY <2>1, <2>3, Zenon DEF Rooted
  <2> QED
    BY <1>3, <2>1, <2>3, <2>4 DEF BareTop
<1>5. CASE BareTop(stack)
  <2>1. 2 \in DOMAIN stack /\ stack[2].t = "object" /\ ~stack[2].braced
    BY <1>3, <1>5 DEF BareTop
  <2>2. 2 \in Unbraced
    BY <2>1, Zenon DEF Unbraced
  <2>3. Unbraced = {2}
    BY <1>4, <2>2
  <2> QED
    BY <1>5, <2>3, FS_Singleton DEF Bare
<1>6. CASE ~BareTop(stack)
  <2>1. Unbraced = {}
    BY <1>4, <1>6
  <2> QED
    BY <1>6, <2>1, FS_EmptySet DEF Bare
<1> QED
  BY <1>5, <1>6

LEMMA SameBare ==
    ASSUME NEW s, NEW u, Len(s) > 1 <=> Len(u) > 1,
           Len(s) > 1 => u[2].t = s[2].t /\ (s[2].t = "object" => u[2].braced = s[2].braced)
    PROVE  Bare(u) = Bare(s)
<1>1. BareTop(u) <=> BareTop(s)
  BY Zenon DEF BareTop
<1> QED
  BY <1>1, Zenon DEF Bare

LEMMA AppendBare ==
    ASSUME NEW s, Shaped(s), s # <<>>, NEW f
    PROVE  /\ Len(s) > 1 => Bare(Append(s, f)) = Bare(s)
           /\ Len(s) = 1 => /\ Bare(s) = 0
                            /\ f.t # "object" \/ f.braced => Bare(Append(s, f)) = 0
                            /\ f.t = "object" /\ ~f.braced => Bare(Append(s, f)) = 1
<1>1. PICK S : s \in Seq(S)
  BY DEF Shaped
<1> DEFINE u == Append(s, f)
<1>2. /\ Len(u) = Len(s) + 1 /\ Len(s) \in Nat \ {0}
      /\ \A i \in 1 .. Len(s) : u[i] = s[i]
      /\ u[Len(s) + 1] = f
  BY <1>1
<1> HIDE DEF u
<1>3. CASE Len(s) > 1
  <2>1. Len(u) > 1 /\ u[2] = s[2] /\ Len(s) # 1
    BY <1>2, <1>3
  <2>2. Bare(u) = Bare(s)
    BY <1>3, <2>1, SameBare
  <2> QED
    BY <2>1, <2>2 DEF u
<1>4. CASE Len(s) = 1
  <2>1. Len(u) > 1 /\ u[2] = f /\ ~(Len(s) > 1)
    BY <1>2, <1>4
  <2>2. Bare(s) = 0
    BY <2>1, Zenon DEF Bare, BareTop
  <2>3. f.t # "object" \/ f.braced => Bare(u) = 0
    BY <2>1, Zenon DEF Bare, BareTop
  <2>4. f.t = "object" /\ ~f.braced => Bare(u) = 1
    BY <2>1, Zenon DEF Bare, BareTop
  <2> QED
    BY <2>1, <2>2, <2>3, <2>4 DEF u
<1> QED
  BY <1>2, <1>3, <1>4

LEMMA ReplaceBare ==
    ASSUME NEW s, Shaped(s), s # <<>>, NEW f, f.t = s[Len(s)].t,
           f.t = "object" => f.braced = s[Len(s)].braced
    PROVE  Bare(Replace(s, f)) = Bare(s)
<1>1. PICK S : s \in Seq(S)
  BY DEF Shaped
<1> DEFINE u == Replace(s, f)
<1>2. /\ Len(u) = Len(s) /\ Len(s) \in Nat \ {0}
      /\ \A i \in 1 .. Len(s) : u[i] = IF i = Len(s) THEN f ELSE s[i]
  BY <1>1 DEF Replace
<1> HIDE DEF u
<1>3. ASSUME Len(s) > 1 PROVE u[2].t = s[2].t /\ (s[2].t = "object" => u[2].braced = s[2].braced)
  <2>1. CASE Len(s) = 2
    <3>1. u[2] = f
      BY <1>2, <2>1
    <3> QED
      BY <2>1, <3>1
  <2>2. CASE Len(s) # 2
    <3>1. u[2] = s[2]
      BY <1>2, <1>3, <2>2
    <3> QED
      BY <3>1
  <2> QED
    BY <2>1, <2>2
<1> QED
  BY <1>2, <1>3, SameBare DEF u

LEMMA PopBare ==
    ASSUME NEW s, Shaped(s), Len(s) > 1
    PROVE  /\ s[Len(s)].t # "object" \/ s[Len(s)].braced => Bare(SubSeq(s, 1, Len(s) - 1)) = Bare(s)
           /\ Len(s) = 2 /\ s[2].t = "object" /\ ~s[2].braced =>
                Bare(s) = 1 /\ Bare(SubSeq(s, 1, Len(s) - 1)) = 0
<1>1. PICK S : s \in Seq(S)
  BY DEF Shaped
<1> DEFINE u == SubSeq(s, 1, Len(s) - 1)
<1>2. /\ Len(u) = Len(s) - 1 /\ Len(s) \in Nat
      /\ \A i \in 1 .. Len(u) : u[i] = s[i]
  BY <1>1
<1> HIDE DEF u
<1>3. CASE Len(s) = 2
  <2>1. ~(Len(u) > 1)
    BY <1>2, <1>3
  <2>2. Bare(u) = 0
    BY <2>1, Zenon DEF Bare, BareTop
  <2>3. s[Len(s)].t # "object" \/ s[Len(s)].braced => Bare(s) = 0
    BY <1>3, Zenon DEF Bare, BareTop
  <2>4. s[2].t = "object" /\ ~s[2].braced => Bare(s) = 1
    BY Zenon DEF Bare, BareTop
  <2> QED
    BY <1>3, <2>2, <2>3, <2>4, Zenon DEF u
<1>4. CASE Len(s) # 2
  <2>1. Len(u) > 1 /\ u[2] = s[2]
    BY <1>2, <1>4
  <2>2. Bare(u) = Bare(s)
    BY <2>1, SameBare
  <2> QED
    BY <1>4, <2>2 DEF u
<1> QED
  BY <1>3, <1>4

LEMMA ReceiveBare ==
    ASSUME NEW s, Shaped(s), s # <<>>, Rooted(s), NEW node
    PROVE  Bare(Receive(s, node)) = Bare(s)
<1>1. PICK g : /\ Receive(s, node) = Replace(s, g) /\ g.t = s[Len(s)].t
               /\ s[Len(s)].t = "object" => g.braced = s[Len(s)].braced
  BY ReceiveIs
<1> QED
  BY <1>1, ReplaceBare

\* The inductive invariant: the counter, without what an include has hidden.
NestInv ==
    /\ parsing \in {"on", "done"} /\ (\A k \in 1 .. at - 1 : ~Hides(k)) => depth = Level(at) + Bare(stack)
    /\ parsing = "done" => Len(stack) = 1

LEMMA RefuseNests ==
    ASSUME NEW error, Refuse(error)
    PROVE  NestInv'
BY DEF Refuse, NestInv

\* What the tokens passed over and the calls begun or left come to.
LEMMA GoNests ==
    ASSUME CursorInv, NestInv, parsing = "on", NEW i \in at .. Len(tokens) + 1, NEW s, Go(i, s),
           (\A k \in 1 .. i - 1 : ~Hides(k)) =>
               depth' - depth = (Level(i) - Level(at)) + (Bare(s) - Bare(stack)),
           depth' \in Int
    PROVE  NestInv'
<1>1. /\ at' = i /\ stack' = s /\ tokens' = tokens /\ parsing' = parsing
  BY DEF Go, lexer
<1>2. /\ \A k : Hides(k)' = Hides(k)
      /\ \A k : Level(k)' = Level(k)
  BY <1>1 DEF Hides, NamesFile, AtInclude, Word, Value, Kind, Level, Among
<1>3. Level(at)' = Level(i)
  BY <1>1, <1>2
<1>4. Len(tokens) \in Nat /\ at \in 1 .. Len(tokens) + 1 /\ depth \in Nat
  <2>1. depth \in Nat
    BY DepthAssumption DEF CursorInv, CallsInv, CallsNest
  <2> QED
    BY <2>1, RankNow
<1>5. at \in Nat \ {0} /\ i \in Nat \ {0} /\ at <= i
  BY <1>4
<1>6. Level(at) \in Int /\ Level(i) \in Int
  BY <1>5, LevelIs
<1>7. Bare(s) \in Int /\ Bare(stack) \in Int
  BY DEF Bare
<1>8. ASSUME (\A k \in 1 .. at - 1 : ~Hides(k))' PROVE depth' = Level(i) + Bare(s)
  <2>1. \A k \in 1 .. i - 1 : ~Hides(k)
    BY <1>1, <1>2, <1>8
  <2>2. \A k \in 1 .. at - 1 : ~Hides(k)
    BY <1>5, <2>1
  <2>3. depth = Level(at) + Bare(stack)
    BY <2>2 DEF NestInv
  <2>4. depth' - depth = (Level(i) - Level(at)) + (Bare(s) - Bare(stack))
    BY <2>1, Zenon
  <2> DEFINE e == depth'
             l == Level(at)
             m == Level(i)
             b == Bare(stack)
             c == Bare(s)
  <2>5. e \in Int /\ l \in Int /\ m \in Int /\ b \in Int /\ c \in Int
    BY <1>6, <1>7
  <2>6. depth = l + b
    BY <2>3
  <2>7. e - depth = (m - l) + (c - b)
    BY <2>4
  <2>8. depth \in Int
    BY <1>4
  <2> HIDE DEF e, l, m, b, c
  <2>9. e = m + c
    BY <2>5, <2>6, <2>7, <2>8
  <2> QED
    BY <2>9 DEF e, m, c
<1>9. Bare(stack)' = Bare(s)
  BY <1>1 DEF Bare, BareTop
<1>10. parsing' = "on" /\ ((\A k \in 1 .. at - 1 : ~Hides(k))' => depth' = Level(at)' + Bare(stack)')
  BY <1>1, <1>3, <1>8, <1>9
<1> QED
  BY <1>10 DEF NestInv

LEMMA DepthIsNat == CursorInv => depth \in Nat
BY DepthAssumption DEF CursorInv, CallsInv, CallsNest

\* Nothing but the calls changes, by d of them without braces.
LEMMA PlainNests ==
    ASSUME CursorInv, NestInv, parsing = "on", NEW i \in at .. Len(tokens) + 1, NEW s, Go(i, s),
           (\A k \in 1 .. i - 1 : ~Hides(k)) => Plain(at, i),
           NEW d \in Int, depth' = depth + d, Bare(s) = Bare(stack) + d
    PROVE  NestInv'
<1>1. Len(tokens) \in Nat /\ at \in 1 .. Len(tokens) + 1 /\ depth \in Nat
  BY RankNow, DepthIsNat
<1>2. at \in Nat \ {0} /\ i \in Nat \ {0} /\ at <= i
  BY <1>1
<1>3. Level(at) \in Int /\ Level(i) \in Int /\ Bare(s) \in Int /\ Bare(stack) \in Int
  <2>1. Level(at) \in Int /\ Level(i) \in Int
    BY <1>2, LevelIs
  <2>2. \A u : Bare(u) \in Int
    BY DEF Bare
  <2> QED
    BY <2>1, <2>2
<1>4. depth' \in Int
  BY <1>1
<1>5. ASSUME \A k \in 1 .. i - 1 : ~Hides(k)
      PROVE  depth' - depth = (Level(i) - Level(at)) + (Bare(s) - Bare(stack))
  <2>1. Level(i) = Level(at)
    BY <1>2, <1>5, LevelPlain
  <2>2. depth' - depth = d
    BY <1>1
  <2>3. Bare(s) - Bare(stack) = d
    BY <1>3
  <2>4. Level(i) - Level(at) = 0
    BY <1>3, <2>1
  <2> QED
    BY <2>2, <2>3, <2>4
<1> QED
  BY <1>4, <1>5, GoNests

LEMMA StillNests ==
    ASSUME CursorInv, NestInv, parsing = "on", NEW i \in at .. Len(tokens) + 1, NEW s, Go(i, s),
           Plain(at, i), UNCHANGED depth, Bare(s) = Bare(stack)
    PROVE  NestInv'
<1>1. depth \in Nat /\ Bare(stack) \in Int
  BY DepthIsNat DEF Bare
<1>2. depth' = depth + 0 /\ Bare(s) = Bare(stack) + 0 /\ 0 \in Int
  BY <1>1
<1> QED
  BY <1>2, PlainNests

\* A bracket is read, and nothing else that counts.
LEMMA BracketNests ==
    ASSUME CursorInv, NestInv, parsing = "on", NEW j \in at .. Len(tokens), NEW s, Go(j + 1, s),
           Plain(at, j), Bare(s) = Bare(stack),
           NEW d \in Int, depth' = depth + d, Level(j + 1) = Level(j) + d
    PROVE  NestInv'
<1>1. Len(tokens) \in Nat /\ at \in 1 .. Len(tokens) + 1 /\ depth \in Nat
  BY RankNow, DepthIsNat
<1>2. at \in Nat \ {0} /\ j \in Nat \ {0} /\ at <= j /\ j + 1 \in at .. Len(tokens) + 1
  BY <1>1
<1>3. Level(at) \in Int /\ Level(j) \in Int /\ Bare(s) \in Int /\ Bare(stack) \in Int
  <2>1. Level(at) \in Int /\ Level(j) \in Int
    BY <1>2, LevelIs
  <2>2. \A u : Bare(u) \in Int
    BY DEF Bare
  <2> QED
    BY <2>1, <2>2
<1>4. Level(j) = Level(at)
  BY <1>2, LevelPlain
<1>5. depth' \in Int
  BY <1>1
<1>6. Bare(s) - Bare(stack) = 0
  BY <1>3
<1>7. depth' - depth = d
  BY <1>1
<1>8. Level(j + 1) - Level(at) = d
  BY <1>3, <1>4
<1>9. depth' - depth = (Level(j + 1) - Level(at)) + (Bare(s) - Bare(stack))
  BY <1>6, <1>7, <1>8
<1> QED
  BY <1>2, <1>5, <1>9, GoNests

\* An object or an array is left.
LeftBare(i)   == Top.t = "object" /\ ~Top.braced /\ i = Skip(at)
LeftBraced(i) ==
    /\ i = Skip(at) + 1
    /\ \/ Top.t = "object" /\ Top.braced /\ Kind(Skip(at)) = "}"
       \/ Top.t = "array" /\ Kind(Skip(at)) = "]"
LEMMA LeaveNests ==
    ASSUME CursorInv, NestInv, parsing = "on", NEW node, NEW i, Leave(i, node),
           LeftBare(i) \/ LeftBraced(i)
    PROVE  NestInv'
<1> DEFINE s == Receive(Below, node)
<1>1. /\ Shaped(stack) /\ stack # <<>> /\ Rooted(stack)
      /\ Lexed /\ Len(tokens) \in Nat /\ at \in 1 .. Len(tokens) + 1
      /\ Top.t \in {"object", "array"}
  BY RankNow DEF CursorInv, CursorOK, LeftBare, LeftBraced
<1>0. depth \in Nat
  BY DepthIsNat
<1>2. Skip(at) \in at .. Len(tokens) + 1 /\ Plain(at, Skip(at))
  BY <1>1, SkipStays, SkipPlain
<1>3. Go(i, s) /\ depth' = depth - 1
  BY DEF Leave
<1>4. Len(stack) \in Nat /\ Len(stack) > 1
  <2>1. Len(stack) \in Nat \ {0} /\ Len(stack) # 1
    BY <1>1, ShapedTop DEF Top
  <2> QED
    BY <2>1, AboveOne
<1>5. Shaped(Below) /\ Below # <<>> /\ Rooted(Below)
  BY <1>1, <1>4, PopShaped, PopRooted DEF Below
<1>6. Bare(s) = Bare(Below)
  BY <1>5, ReceiveBare
<1>7. /\ Top.t # "object" \/ Top.braced => Bare(Below) = Bare(stack)
      /\ Len(stack) = 2 /\ stack[2].t = "object" /\ ~stack[2].braced => Bare(stack) = 1 /\ Bare(Below) = 0
  BY <1>1, <1>4, PopBare DEF Top, Below
<1> HIDE DEF s
<1>8. CASE LeftBare(i)
  <2>0. Top.t = "object" /\ ~Top.braced /\ i = Skip(at)
    BY <1>8 DEF LeftBare
  <2>1. Len(stack) = 2
    <3>1. Len(stack) \in 2 .. Len(stack)
      BY <1>4
    <3> QED
      BY <1>1, <2>0, <3>1, Zenon DEF Rooted, Top
  <2>2. Bare(stack) = 1 /\ Bare(s) = 0
    BY <1>6, <1>7, <2>0, <2>1 DEF Top
  <2>3. depth' = depth + (-1) /\ Bare(s) = Bare(stack) + (-1) /\ -1 \in Int
    BY <1>0, <1>3, <2>2
  <2> QED
    BY <1>2, <1>3, <2>0, <2>3, PlainNests
<1>9. CASE LeftBraced(i)
  <2>0. i = Skip(at) + 1 /\ Kind(Skip(at)) \in {"}", "]"} /\ (Top.t # "object" \/ Top.braced)
    BY <1>9 DEF LeftBraced
  <2>1. Skip(at) \in 1 .. Len(tokens)
    BY <1>1, <2>0, WordIsToken
  <2>2. Skip(at) \in at .. Len(tokens) /\ Skip(at) \in Nat \ {0}
    BY <1>1, <1>2, <2>1
  <2>3. Bare(s) = Bare(stack)
    BY <1>6, <1>7, <2>0
  <2>4. Level(Skip(at) + 1) = Level(Skip(at)) - 1 /\ Level(Skip(at)) \in Int
    BY <2>0, <2>2, LevelIs
  <2>5. Level(Skip(at) + 1) = Level(Skip(at)) + (-1) /\ depth' = depth + (-1) /\ -1 \in Int
    BY <1>0, <1>3, <2>4
  <2> QED
    BY <1>2, <1>3, <2>0, <2>2, <2>3, <2>5, BracketNests
<1> QED
  BY <1>8, <1>9

LEMMA ArrayNests ==
    ASSUME CursorInv, NestInv, ArrayItem \/ ArrayEnd
    PROVE  NestInv'
<1>1. In("array") /\ parsing = "on" /\ Top.t = "array"
  BY DEF ArrayItem, ArrayEnd, In
<1>2. /\ Shaped(stack) /\ stack # <<>> /\ Rooted(stack)
      /\ Lexed /\ Len(tokens) \in Nat /\ at \in 1 .. Len(tokens) + 1
  BY <1>1, RankNow DEF CursorInv, CursorOK
<1>3. Len(stack) > 1
  <2>1. Len(stack) \in Nat \ {0} /\ Len(stack) # 1
    BY <1>1, <1>2, ShapedTop DEF Top
  <2> QED
    BY <2>1, AboveOne
<1>4. Skip(at) \in at .. Len(tokens) + 1 /\ Plain(at, Skip(at))
  BY <1>2, SkipStays, SkipPlain
<1>5. CASE ArrayItem
  <2>1. Go(Skip(at), Append(stack, ValueFrame)) /\ UNCHANGED depth
    BY <1>5 DEF ArrayItem
  <2>2. Bare(Append(stack, ValueFrame)) = Bare(stack)
    BY <1>2, <1>3, AppendBare
  <2> QED
    BY <1>1, <1>4, <2>1, <2>2, StillNests
<1>6. CASE ArrayEnd
  <2>1. CASE Kind(Skip(at)) = "]"
    <3>1. Leave(Skip(at) + 1, Array(Top.items)) /\ LeftBraced(Skip(at) + 1)
      BY <1>1, <1>6, <2>1 DEF ArrayEnd, LeftBraced
    <3> QED
      BY <1>1, <3>1, LeaveNests
  <2>2. CASE Kind(Skip(at)) # "]"
    <3>1. Refuse("expected ]")
      BY <1>6, <2>2 DEF ArrayEnd
    <3> QED
      BY <3>1, RefuseNests
  <2> QED
    BY <2>1, <2>2
<1> QED
  BY <1>5, <1>6

LEMMA ValueNests ==
    ASSUME CursorInv, NestInv, ValueNested \/ ValueScalar \/ ValueEnd
    PROVE  NestInv'
<1>1. In("value") /\ parsing = "on" /\ Top.t = "value"
  BY DEF ValueNested, ValueScalar, ValueEnd, In
<1>2. /\ Shaped(stack) /\ stack # <<>> /\ Rooted(stack)
      /\ Lexed /\ Len(tokens) \in Nat /\ at \in 1 .. Len(tokens) + 1
  BY <1>1, RankNow DEF CursorInv, CursorOK
<1>3. "t" \in DOMAIN Top /\ Len(stack) \in Nat /\ Len(stack) > 1
  BY <1>1, <1>2, ShapedTop DEF Top
<1>4. ASSUME NEW parts
      PROVE  LET f == [Top EXCEPT !.parts = parts]
             IN  /\ "t" \in DOMAIN f /\ f.t = "value"
                 /\ Shaped(Replace(stack, f)) /\ Len(Replace(stack, f)) = Len(stack)
                 /\ Replace(stack, f) # <<>>
                 /\ Bare(Replace(stack, f)) = Bare(stack)
  <2> DEFINE f == [Top EXCEPT !.parts = parts]
  <2>1. "t" \in DOMAIN f /\ f.t = "value"
    BY <1>1, <1>3
  <2> HIDE DEF f
  <2>2. Shaped(Replace(stack, f)) /\ Len(Replace(stack, f)) = Len(stack) /\ Replace(stack, f) # <<>>
    BY <1>1, <1>2, <2>1, ReplaceShaped DEF Top
  <2>3. Bare(Replace(stack, f)) = Bare(stack)
    BY <1>1, <1>2, <2>1, ReplaceBare DEF Top
  <2> QED
    BY <2>1, <2>2, <2>3 DEF f
<1>5. CASE ValueNested
  <2> DEFINE f == [Top EXCEPT !.parts = Spaced(at)]
             s == Replace(stack, f)
  <2>1. Shaped(s) /\ Len(s) = Len(stack) /\ s # <<>> /\ Bare(s) = Bare(stack)
    BY <1>4
  <2>2. PICK frame : Enter(at + 1, s, frame)
    BY <1>5 DEF ValueNested
  <2>3. Kind(at) \in {"{", "["}
    BY <1>5 DEF ValueNested
  <2> HIDE DEF s
  <2>4. CASE Refuse("too deep")
    BY <2>4, RefuseNests
  <2>5. CASE depth' = depth + 1 /\ Go(at + 1, Append(s, frame))
    <3>1. Bare(Append(s, frame)) = Bare(stack)
      BY <1>3, <2>1, AppendBare
    <3>2. at \in 1 .. Len(tokens)
      BY <1>2, <2>3, WordIsToken
    <3>3. at \in at .. Len(tokens) /\ at \in Nat \ {0} /\ Plain(at, at)
      BY <1>2, <3>2 DEF Plain
    <3>4. Level(at + 1) = Level(at) + 1
      BY <2>3, <3>3, LevelIs
    <3>5. 1 \in Int
      OBVIOUS
    <3> QED
      BY <1>1, <2>5, <3>1, <3>3, <3>4, <3>5, BracketNests
  <2> QED
    BY <2>2, <2>4, <2>5 DEF Enter
<1>6. CASE ValueScalar
  <2>1. /\ Kind(at) # "eof" /\ Kind(at) \notin Brackets
        /\ (\E node : Part(node)) \/ Refuse(ScalarError(Value(at)))
    BY <1>6 DEF ValueScalar, Brackets
  <2>2. at \in 1 .. Len(tokens)
    BY <1>2, <2>1, WordIsToken
  <2>3. at + 1 \in at .. Len(tokens) + 1
    BY <1>2, <2>2
  <2>4. Plain(at, at + 1)
    <3>1. ASSUME NEW k \in at .. at + 1 - 1 PROVE k = at
      BY <1>2
    <3> QED
      BY <1>2, <2>1, <3>1 DEF Plain
  <2>5. ASSUME NEW node, Part(node) PROVE NestInv'
    <3> DEFINE s == Replace(stack, [Top EXCEPT !.parts = Append(Spaced(at), node)])
    <3>1. Go(at + 1, s) /\ UNCHANGED depth
      BY <2>5 DEF Part
    <3>2. Bare(s) = Bare(stack)
      BY <1>4
    <3> HIDE DEF s
    <3> QED
      BY <1>1, <2>3, <2>4, <3>1, <3>2, StillNests
  <2> QED
    BY <2>1, <2>5, RefuseNests
<1>7. CASE ValueEnd
  <2>1. CASE Top.parts = <<>>
    <3>1. Refuse("expected value")
      BY <1>7, <2>1 DEF ValueEnd
    <3> QED
      BY <3>1, RefuseNests
  <2>2. CASE Top.parts # <<>>
    <3>1. PICK node : Go(SkipSeparator(at), Receive(Below, node)) /\ UNCHANGED depth
      BY <1>7, <2>2 DEF ValueEnd
    <3>2. SkipSeparator(at) \in at .. Len(tokens) + 1 /\ Plain(at, SkipSeparator(at))
      BY <1>2, SeparatorStays, SeparatorPlain
    <3>3. Shaped(Below) /\ Below # <<>> /\ Rooted(Below)
      BY <1>2, <1>3, PopShaped, PopRooted DEF Below
    <3>4. Bare(Below) = Bare(stack)
      BY <1>1, <1>2, <1>3, PopBare DEF Below, Top
    <3>5. Bare(Receive(Below, node)) = Bare(stack)
      BY <3>3, <3>4, ReceiveBare
    <3> QED
      BY <1>1, <3>1, <3>2, <3>5, StillNests
  <2> QED
    BY <2>1, <2>2
<1> QED
  BY <1>5, <1>6, <1>7

LEMMA KeyNests ==
    ASSUME CursorInv, NestInv, KeyQuoted \/ KeyUnquoted \/ KeyEnd
    PROVE  NestInv'
<1>1. In("key") /\ parsing = "on" /\ Top.t = "key"
  BY DEF KeyQuoted, KeyUnquoted, KeyEnd, In
<1>2. /\ Shaped(stack) /\ stack # <<>> /\ Rooted(stack)
      /\ Lexed /\ Len(tokens) \in Nat /\ at \in 1 .. Len(tokens) + 1
  BY <1>1, RankNow DEF CursorInv, CursorOK
<1>3. "t" \in DOMAIN Top
  BY <1>2, ShapedTop DEF Top
<1>4. ASSUME NEW segments, NEW dot, KeyGoesOn(segments, dot, at + 1), Kind(at) \in {"quoted", "unquoted"}
      PROVE  NestInv'
  <2> DEFINE Turned(a, b, c, d, e) ==
               [Top EXCEPT !.segments = a, !.dot = b, !.more = c, !.concat = d, !.prefix = e]
  <2>1. \A a, b, c, d, e : Turned(a, b, c, d, e).t = "key"
    BY <1>1, <1>3
  <2>2. PICK a, b, c, d, e, next :
           /\ Go(next, Replace(stack, Turned(a, b, c, d, e))) /\ UNCHANGED depth
           /\ next = at + 1 \/ (Word(at + 1) = <<".">> /\ next = at + 1 + 1)
    BY <1>4, Zenon DEF KeyGoesOn
  <2> DEFINE s == Replace(stack, Turned(a, b, c, d, e))
  <2> HIDE DEF Turned
  <2>3. Bare(s) = Bare(stack)
    BY <1>1, <1>2, <2>1, ReplaceBare DEF Top
  <2> HIDE DEF s
  <2>4. at \in 1 .. Len(tokens)
    BY <1>2, <1>4, WordIsToken
  <2>5. next \in at .. Len(tokens) + 1 /\ Plain(at, next)
    <3>1. CASE next = at + 1
      <4>1. ASSUME NEW k \in at .. at + 1 - 1 PROVE k = at
        BY <1>2
      <4>2. ASSUME NEW k \in at .. at + 1 - 1 PROVE Kind(k) \notin Brackets
        BY <1>4, <4>1 DEF Brackets
      <4>3. Plain(at, at + 1)
        BY <1>2, <4>2 DEF Plain
      <4> QED
        BY <1>2, <2>4, <3>1, <4>3
    <3>2. CASE Word(at + 1) = <<".">> /\ next = at + 1 + 1
      <4>1. Word(at + 1) # <<>>
        BY <3>2
      <4>2. at + 1 \in 1 .. Len(tokens) /\ Kind(at + 1) = "unquoted"
        BY <1>2, <4>1, WordIsToken DEF Word
      <4>3. ASSUME NEW k \in at .. at + 1 + 1 - 1 PROVE k = at \/ k = at + 1
        BY <1>2
      <4>4. ASSUME NEW k \in at .. at + 1 + 1 - 1 PROVE Kind(k) \notin Brackets
        BY <1>4, <4>2, <4>3 DEF Brackets
      <4>5. Plain(at, at + 1 + 1)
        BY <1>2, <4>4 DEF Plain
      <4> QED
        BY <1>2, <3>2, <4>2, <4>5
    <3> QED
      BY <2>2, <3>1, <3>2
  <2> QED
    BY <1>1, <2>2, <2>3, <2>5, StillNests DEF s
<1>5. CASE KeyQuoted
  BY <1>4, <1>5 DEF KeyQuoted
<1>6. CASE KeyUnquoted
  <2>1. /\ Kind(at) = "unquoted"
        /\ \/ Refuse("empty key segment") \/ Refuse("reserved character '+'")
           \/ \E segments, dot : KeyGoesOn(segments, dot, at + 1)
    BY <1>6, Zenon DEF KeyUnquoted
  <2> QED
    BY <1>4, <2>1, RefuseNests
<1>7. CASE KeyEnd
  <2>1. CASE Refuse(KeyError)
    BY <2>1, RefuseNests
  <2>2. CASE KeyError = "none"
    <3> DEFINE sep    == Skip(at)
               read   == IF Kind(sep) \in {"=", ":", "+="} THEN sep + 1 ELSE sep
               next   == Skip(read)
               object == [Below[Len(Below)] EXCEPT !.key = Top.segments, !.append = (Kind(sep) = "+=")]
               s      == Append(Replace(Below, object), ValueFrame)
    <3>1. Go(next, s) /\ UNCHANGED depth
      BY <1>7, <2>2 DEF KeyEnd
    <3>2. next \in at .. Len(tokens) + 1 /\ Plain(at, next)
      <4>1. sep \in at .. Len(tokens) + 1 /\ Plain(at, sep)
        BY <1>2, SkipStays, SkipPlain
      <4>2. read \in sep .. Len(tokens) + 1 /\ Plain(sep, read)
        <5>1. CASE Kind(sep) \in {"=", ":", "+="}
          <6>1. sep \in 1 .. Len(tokens)
            BY <1>2, <5>1, WordIsToken
          <6>2. Kind(sep) \notin Brackets
            BY <5>1 DEF Brackets
          <6> HIDE DEF sep
          <6>3. \A k \in sep .. sep + 1 - 1 : k = sep
            BY <6>1
          <6>4. Plain(sep, sep + 1)
            BY <6>1, <6>2, <6>3 DEF Plain
          <6>5. sep + 1 \in sep .. Len(tokens) + 1
            BY <1>2, <6>1
          <6> QED
            BY <5>1, <6>4, <6>5
        <5>2. CASE Kind(sep) \notin {"=", ":", "+="}
          <6>1. sep \in sep .. Len(tokens) + 1
            BY <1>2, <4>1
          <6>2. sep \in Nat
            BY <1>2, <4>1
          <6> HIDE DEF sep
          <6>3. Plain(sep, sep)
            BY <6>2 DEF Plain
          <6> QED
            BY <5>2, <6>1, <6>3
        <5> QED
          BY <5>1, <5>2
      <4> HIDE DEF sep, read
      <4>3. read \in 1 .. Len(tokens) + 1 /\ sep \in Nat /\ read \in Nat /\ at \in Nat
            /\ at <= sep /\ sep <= read /\ at <= read
        BY <1>2, <4>1, <4>2
      <4>4. next \in read .. Len(tokens) + 1 /\ Plain(read, next)
        BY <1>2, <4>3, SkipStays, SkipPlain
      <4> HIDE DEF next
      <4>5. next \in Nat /\ read <= next /\ next \in at .. Len(tokens) + 1
        BY <1>2, <4>3, <4>4
      <4>6. Plain(at, read)
        BY <4>1, <4>2, <4>3, PlainOn
      <4> QED
        BY <4>3, <4>4, <4>5, <4>6, PlainOn
    <3> HIDE DEF next
    <3>3. /\ Len(stack) \in Nat /\ Len(stack) > 1 /\ stack[Len(stack) - 1].t = "object"
      BY <1>1, Parity DEF CursorInv, In
    <3>4. /\ Shaped(Below) /\ Below # <<>> /\ Len(Below) = Len(stack) - 1
          /\ Below[Len(Below)] = stack[Len(stack) - 1] /\ Rooted(Below)
      BY <1>2, <3>3, PopShaped, PopRooted DEF Below
    <3>5. /\ Len(Below) \in Nat \ {0} /\ "t" \in DOMAIN Below[Len(Below)] /\ Len(Below) # 1
          /\ Below[Len(Below)].t = "object"
      BY <3>3, <3>4, ShapedTop
    <3>6. Len(Below) > 1 /\ "braced" \in DOMAIN Below[Len(Below)]
      BY <3>4, <3>5 DEF Rooted
    <3>7. "t" \in DOMAIN object /\ object.t = "object" /\ object.braced = Below[Len(Below)].braced
      BY <3>5, <3>6
    <3> HIDE DEF object
    <3>8. /\ Shaped(Replace(Below, object)) /\ Len(Replace(Below, object)) = Len(Below)
          /\ Replace(Below, object) # <<>>
          /\ Bare(Replace(Below, object)) = Bare(Below)
      BY <3>4, <3>5, <3>7, ReplaceShaped, ReplaceBare
    <3>9. Bare(Below) = Bare(stack)
      BY <1>1, <1>2, <3>3, PopBare DEF Below, Top
    <3>10. Bare(s) = Bare(stack)
      BY <3>6, <3>8, <3>9, AppendBare
    <3> HIDE DEF s
    <3> QED
      BY <1>1, <3>1, <3>2, <3>10, StillNests
  <2> QED
    BY <1>7, <2>1, <2>2 DEF KeyEnd
<1> QED
  BY <1>5, <1>6, <1>7

LEMMA ObjectNests ==
    ASSUME CursorInv, NestInv, ObjectKey \/ ObjectEnd \/ ObjectInclude
    PROVE  NestInv'
<1>1. In("object") /\ parsing = "on" /\ Top.t = "object"
  BY DEF ObjectKey, ObjectEnd, ObjectInclude, In
<1>2. /\ Shaped(stack) /\ stack # <<>> /\ Rooted(stack)
      /\ Lexed /\ Len(tokens) \in Nat /\ at \in 1 .. Len(tokens) + 1
  BY <1>1, RankNow DEF CursorInv, CursorOK
<1>3. Len(stack) > 1 /\ "t" \in DOMAIN Top
  <2>1. Len(stack) \in Nat \ {0} /\ Len(stack) # 1 /\ "t" \in DOMAIN Top
    BY <1>1, <1>2, ShapedTop DEF Top
  <2> QED
    BY <2>1, AboveOne
<1>4. Skip(at) \in at .. Len(tokens) + 1 /\ Plain(at, Skip(at))
  BY <1>2, SkipStays, SkipPlain
<1>5. CASE ObjectKey
  <2>1. Go(Skip(at), Append(stack, KeyFrame(Skip(at)))) /\ UNCHANGED depth
    BY <1>5 DEF ObjectKey
  <2>2. Bare(Append(stack, KeyFrame(Skip(at)))) = Bare(stack)
    BY <1>2, <1>3, AppendBare
  <2> QED
    BY <1>1, <1>4, <2>1, <2>2, StillNests
<1>6. CASE ObjectEnd
  <2>1. CASE ~Top.braced /\ Leave(Skip(at), Object(Top.fields))
    BY <1>1, <2>1, LeaveNests DEF LeftBare
  <2>2. CASE Top.braced /\ Kind(Skip(at)) = "}" /\ Leave(Skip(at) + 1, Object(Top.fields))
    BY <1>1, <2>2, LeaveNests DEF LeftBraced
  <2>3. CASE Refuse("expected }")
    BY <2>3, RefuseNests
  <2> QED
    BY <1>6, <2>1, <2>2, <2>3, Zenon DEF ObjectEnd
<1>7. CASE ObjectInclude
  <2> DEFINE h == Skip(at)
             i == Skip(h + 1)
             d == ReadInclude(i)
             f == [Top EXCEPT !.fields = Append(@, d.field)]
             next == SkipSeparator(d.to)
             s == Replace(stack, f)
  <2>1. AtInclude(h)
    BY <1>7 DEF ObjectInclude
  <2>2. h \in 1 .. Len(tokens)
    <3>1. Word(h) # <<>>
      BY <2>1 DEF AtInclude
    <3> QED
      BY <1>2, <3>1, WordIsToken
  <2>3. h + 1 \in 1 .. Len(tokens) + 1
    BY <1>2, <2>2
  <2>4. i \in h + 1 .. Len(tokens) + 1 /\ \A k \in h + 1 .. i - 1 : Kind(k) = "newline"
    BY <1>2, <2>3, SkipIs
  <2>5. CASE d.error # "none"
    <3>1. Refuse(d.error)
      BY <1>7, <2>5 DEF ObjectInclude
    <3> QED
      BY <3>1, RefuseNests
  <2>6. CASE d.error = "none"
    <3>1. Go(next, s) /\ UNCHANGED depth
      BY <1>7, <2>6 DEF ObjectInclude
    <3>2. f.t = "object" /\ f.braced = Top.braced
      BY <1>1, <1>3
    <3> HIDE DEF f
    <3>3. Bare(s) = Bare(stack)
      BY <1>1, <1>2, <3>2, ReplaceBare DEF Top
    <3> HIDE DEF s
    <3>4. h \in at .. Len(tokens) + 1 /\ Plain(at, h)
      BY <1>4
    <3> HIDE DEF h
    <3>5. i \in 1 .. Len(tokens) + 1 /\ h \in Nat /\ i \in Nat
      BY <1>2, <2>2, <2>4
    <3>6. ~Hides(h) => Plain(h, d.to)
      BY <1>2, <2>1, <2>2, <2>4, <2>6, IncludePlain
    <3>7. d.to \in i .. Len(tokens) + 1
      BY <1>2, <2>6, <3>5, IncludeStays
    <3> HIDE DEF i, d
    <3>8. d.to \in 1 .. Len(tokens) + 1
      BY <1>2, <3>5, <3>7
    <3>9. next \in d.to .. Len(tokens) + 1 /\ Plain(d.to, next)
      BY <1>2, <3>8, SeparatorStays, SeparatorPlain
    <3> HIDE DEF next
    <3>10. /\ at \in Nat /\ d.to \in Nat /\ next \in Nat
           /\ at <= h /\ h <= d.to /\ d.to <= next /\ at <= d.to
           /\ next \in at .. Len(tokens) + 1 /\ h \in 1 .. next - 1
      BY <1>2, <2>2, <2>4, <3>4, <3>7, <3>8, <3>9
    <3>11. ASSUME \A k \in 1 .. next - 1 : ~Hides(k) PROVE Plain(at, next)
      <4>1. Plain(h, d.to)
        BY <3>6, <3>10, <3>11
      <4>2. Plain(at, d.to)
        BY <3>4, <3>5, <3>10, <4>1, PlainOn
      <4> QED
        BY <3>9, <3>10, <4>2, PlainOn
    <3>12. depth' = depth + 0 /\ Bare(s) = Bare(stack) + 0 /\ 0 \in Int
      <4>1. depth \in Nat /\ Bare(stack) \in Int
        BY DepthIsNat DEF Bare
      <4> QED
        BY <3>1, <3>3, <4>1
    <3> QED
      BY <1>1, <3>1, <3>10, <3>11, <3>12, PlainNests
  <2> QED
    BY <2>5, <2>6
<1> QED
  BY <1>5, <1>6, <1>7

LEMMA DocumentNests ==
    ASSUME CursorInv, NestInv,
           Begin \/ BeginArray \/ BeginFields \/ BeginObject \/ BeginRest \/ Finish \/ Leftover
    PROVE  NestInv'
<1>1. Lexed /\ Len(tokens) \in Nat /\ at \in 1 .. Len(tokens) + 1
  BY Tokens DEF CursorInv, CursorOK
<1>2. CASE Begin
  <2>1. /\ parsing' = "on" /\ at' = Skip(1) /\ tokens' = tokens /\ depth' = depth
        /\ parsing = "off" /\ at = 1
    BY <1>2, Zenon DEF Begin, lexer, CursorInv, CursorOK
  <2>2. \E f : stack' = <<f>>
    BY <1>2, Zenon DEF Begin
  <2>3. Bare(stack') = 0
    <3>1. ~(Len(stack') > 1)
      BY <2>2
    <3> QED
      BY <3>1, Zenon DEF Bare, BareTop
  <2>4. depth = 0
    <3>1. stack = <<>> /\ Len(stack) = 0 /\ depth \in 0 .. MaxDepth /\ Len(stack) \in {2 * depth, 2 * depth + 1}
      BY <2>1 DEF CursorInv, CallsInv, CallsNest
    <3> QED
      BY <3>1, DepthAssumption
  <2>5. Level(1) = 0
    <3>1. Among({"{", "["}, 1) = {} /\ Among({"}", "]"}, 1) = {}
      BY DEF Among
    <3>2. Cardinality({}) = 0
      BY FS_EmptySet
    <3>3. Level(1) = 0 - 0
      BY <3>1, <3>2, Zenon DEF Level
    <3> QED
      BY <3>3
  <2>6. Skip(1) \in 1 .. Len(tokens) + 1 /\ Plain(1, Skip(1))
    BY <1>1, SkipStays, SkipPlain
  <2>7. Level(Skip(1)) = 0
    <3>1. Skip(1) \in Nat /\ 1 <= Skip(1) /\ 1 \in Nat \ {0}
      BY <1>1, <2>6
    <3> QED
      BY <2>5, <2>6, <3>1, LevelPlain
  <2>8. \A k : Level(k)' = Level(k)
    BY <2>1 DEF Level, Among, Kind
  <2>9. Level(at)' = 0 /\ Bare(stack)' = 0
    BY <2>1, <2>3, <2>7, <2>8 DEF Bare, BareTop
  <2> QED
    BY <2>1, <2>4, <2>9 DEF NestInv
<1>3. ASSUME In("root")
      PROVE  /\ parsing = "on" /\ Shaped(stack) /\ stack # <<>> /\ Rooted(stack)
             /\ Len(stack) = 1 /\ Top.t = "root" /\ "t" \in DOMAIN Top /\ Bare(stack) = 0
  <2>1. parsing = "on" /\ Shaped(stack) /\ stack # <<>> /\ Rooted(stack) /\ Top.t = "root"
    BY <1>3, RankNow DEF In
  <2>2. Len(stack) = 1 /\ "t" \in DOMAIN Top
    BY <2>1, ShapedTop DEF Top
  <2>3. ~(Len(stack) > 1)
    BY <2>2
  <2>4. Bare(stack) = 0
    BY <2>3, Zenon DEF Bare, BareTop
  <2> QED
    BY <2>1, <2>2, <2>4
\* What is pushed on the root alone, whatever it expects.
<1>4. ASSUME In("root"), NEW shape
      PROVE  Shaped(Expect(shape)) /\ Len(Expect(shape)) = 1 /\ Expect(shape) # <<>>
  <2> DEFINE f == [Top EXCEPT !.shape = shape]
  <2>1. "t" \in DOMAIN f /\ f.t = "root"
    BY <1>3, <1>4
  <2> HIDE DEF f
  <2>2. /\ Shaped(Replace(stack, f)) /\ Len(Replace(stack, f)) = 1 /\ Replace(stack, f) # <<>>
    BY <1>3, <1>4, <2>1, ReplaceShaped DEF Top
  <2> QED
    BY <2>2 DEF Expect, f
<1>5. ASSUME In("root"), NEW s, Shaped(s), Len(s) = 1, s # <<>>, NEW f
      PROVE  /\ f.t # "object" \/ f.braced => Bare(Append(s, f)) = Bare(stack)
             /\ f.t = "object" /\ ~f.braced => Bare(Append(s, f)) = Bare(stack) + 1
  BY <1>3, <1>5, AppendBare
<1>6. 1 \in Int /\ 0 + 1 = 1
  OBVIOUS
<1>7. CASE BeginArray
  <2>1. In("root") /\ Top.shape = "array" /\ Enter(at + 1, Expect("end"), ArrayFrame)
    BY <1>7 DEF BeginArray
  <2>2. Kind(at) = "["
    BY <1>3, <2>1 DEF CursorInv, CursorOK, Top
  <2>3. CASE depth' = depth + 1 /\ Go(at + 1, Append(Expect("end"), ArrayFrame))
    <3>1. ArrayFrame.t # "object"
      BY DEF ArrayFrame
    <3>2. Bare(Append(Expect("end"), ArrayFrame)) = Bare(stack)
      BY <1>4, <1>5, <2>1, <3>1
    <3>3. at \in 1 .. Len(tokens)
      BY <1>1, <2>2, WordIsToken
    <3>4. at \in at .. Len(tokens) /\ at \in Nat \ {0} /\ Plain(at, at)
      BY <1>1, <3>3 DEF Plain
    <3>5. Level(at + 1) = Level(at) + 1
      BY <2>2, <3>4, LevelIs
    <3> QED
      BY <1>3, <1>6, <2>1, <2>3, <3>2, <3>4, <3>5, BracketNests
  <2> QED
    BY <2>1, <2>3, RefuseNests DEF Enter
<1> DEFINE bare == ObjectFrame(FALSE)
<1>8. bare.t = "object" /\ ~bare.braced
  BY DEF ObjectFrame
<1> HIDE DEF bare
<1>9. CASE BeginFields
  <2>1. In("root") /\ Enter(at, Expect("nothing"), bare)
    BY <1>9 DEF BeginFields, bare
  <2>2. CASE depth' = depth + 1 /\ Go(at, Append(Expect("nothing"), bare))
    <3>1. Bare(Append(Expect("nothing"), bare)) = Bare(stack) + 1
      BY <1>4, <1>5, <1>8, <2>1
    <3>2. at \in at .. Len(tokens) + 1 /\ Plain(at, at)
      BY <1>1 DEF Plain
    <3> QED
      BY <1>3, <1>6, <2>1, <2>2, <3>1, <3>2, PlainNests
  <2> QED
    BY <2>1, <2>2, RefuseNests DEF Enter
<1>10. CASE BeginRest
  <2>1. In("root") /\ Enter(Skip(at), Expect("end"), bare)
    BY <1>10 DEF BeginRest, bare
  <2>2. CASE depth' = depth + 1 /\ Go(Skip(at), Append(Expect("end"), bare))
    <3>1. Bare(Append(Expect("end"), bare)) = Bare(stack) + 1
      BY <1>4, <1>5, <1>8, <2>1
    <3>2. Skip(at) \in at .. Len(tokens) + 1 /\ Plain(at, Skip(at))
      BY <1>1, SkipStays, SkipPlain
    <3> QED
      BY <1>3, <1>6, <2>1, <2>2, <3>1, <3>2, PlainNests
  <2> QED
    BY <2>1, <2>2, RefuseNests DEF Enter
<1>11. CASE BeginObject
  <2>1. /\ In("root") /\ Kind(Skip(at)) = "{"
        /\ Enter(Skip(at) + 1, stack, ObjectFrame(TRUE))
    BY <1>11 DEF BeginObject
  <2>2. CASE depth' = depth + 1 /\ Go(Skip(at) + 1, Append(stack, ObjectFrame(TRUE)))
    <3>1. ObjectFrame(TRUE).braced
      BY DEF ObjectFrame
    <3>2. Bare(Append(stack, ObjectFrame(TRUE))) = Bare(stack)
      BY <1>3, <1>5, <2>1, <3>1
    <3>3. Skip(at) \in at .. Len(tokens) + 1 /\ Plain(at, Skip(at)) /\ Skip(at) \in 1 .. Len(tokens)
      BY <1>1, <2>1, SkipStays, SkipPlain, WordIsToken
    <3>4. Skip(at) \in at .. Len(tokens) /\ Skip(at) \in Nat \ {0}
      BY <1>1, <3>3
    <3>5. Level(Skip(at) + 1) = Level(Skip(at)) + 1
      BY <2>1, <3>4, LevelIs
    <3> QED
      BY <1>3, <1>6, <2>1, <2>2, <3>2, <3>3, <3>4, <3>5, BracketNests
  <2> QED
    BY <2>1, <2>2, RefuseNests DEF Enter
<1>12. CASE Finish
  <2>1. /\ In("root") /\ parsing' = "done" /\ tokens' = tokens /\ at' = at /\ stack' = stack /\ depth' = depth
    BY <1>12 DEF Finish, lexer
  <2>2. /\ \A k : Hides(k)' = Hides(k)
        /\ \A k : Level(k)' = Level(k)
    BY <2>1 DEF Hides, NamesFile, AtInclude, Word, Value, Kind, Level, Among
  <2>3. Level(at)' = Level(at) /\ Bare(stack)' = Bare(stack) /\ Len(stack') = 1
    BY <1>3, <2>1, <2>2 DEF Bare, BareTop
  <2>4. (\A k \in 1 .. at - 1 : ~Hides(k))' <=> \A k \in 1 .. at - 1 : ~Hides(k)
    BY <2>1, <2>2
  <2> QED
    BY <1>3, <2>1, <2>3, <2>4 DEF NestInv
<1>13. CASE Leftover
  BY <1>13, RefuseNests DEF Leftover
<1> QED
  BY <1>2, <1>7, <1>9, <1>10, <1>11, <1>12, <1>13

LEMMA NestingKeeps ==
    Spec => [](CursorInv /\ NestInv)
<1>1. Init => NestInv
  BY DEF Init, ParseInit, NestInv
<1>2. CursorInv /\ NestInv /\ [Next]_vars => NestInv'
  <2> SUFFICES ASSUME CursorInv, NestInv, [Next]_vars PROVE NestInv'
    OBVIOUS
  <2>1. CASE UNCHANGED vars
    <3>1. tokens' = tokens /\ at' = at /\ stack' = stack /\ depth' = depth /\ parsing' = parsing
      BY <2>1 DEF vars, parser, lexer
    <3>2. /\ \A k : Hides(k)' = Hides(k)
          /\ \A k : Level(k)' = Level(k)
      BY <3>1 DEF Hides, NamesFile, AtInclude, Word, Value, Kind, Level, Among
    <3>3. Level(at)' = Level(at) /\ Bare(stack)' = Bare(stack)
      BY <3>1, <3>2 DEF Bare, BareTop
    <3>4. (\A k \in 1 .. at - 1 : ~Hides(k))' <=> \A k \in 1 .. at - 1 : ~Hides(k)
      BY <3>1, <3>2
    <3> QED
      BY <3>1, <3>3, <3>4 DEF NestInv
  <2>2. CASE LexStep /\ UNCHANGED parser
    BY <2>2, LexOnly DEF parser, CursorInv, CursorOK, NestInv
  <2>3. CASE ParseStep
    BY <2>3, DocumentNests, ObjectNests, KeyNests, ValueNests, ArrayNests DEF ParseStep
  <2> QED
    BY <2>1, <2>2, <2>3 DEF Next
<1> QED
  BY <1>1, <1>2, CursorKeeps, PTL DEF Spec

\* For every text, the counter that the parser refuses by is how deep the token
\* being read stands, whatever way objects and arrays are left (enter, leave,
\* parse_object, parse_array, parse_include).
THEOREM DepthCounts == Spec => []DepthIsNesting
<1>1. CursorInv /\ NestInv => DepthIsNesting
  <2> SUFFICES ASSUME CursorInv, NestInv, parsing \in {"on", "done"}, \A k \in 1 .. at - 1 : ~Hides(k)
               PROVE  depth = Level(at) + Cardinality(Unbraced)
    BY DEF DepthIsNesting
  <2>1. depth = Level(at) + Bare(stack)
    BY DEF NestInv
  <2>2. CASE parsing = "on"
    BY <2>1, <2>2, UnbracedIs DEF CursorInv, CursorOK
  <2>3. CASE parsing = "done"
    <3>1. Len(stack) = 1
      BY <2>3 DEF NestInv
    <3>2. stack # <<>> /\ Shaped(stack)
      BY <3>1 DEF CursorInv, CallsInv
    <3>3. PICK S : stack \in Seq(S)
      BY <3>2 DEF Shaped
    <3>4. DOMAIN stack = {1}
      BY <3>1, <3>3
    <3>5. stack[1].t = "root"
      BY <3>2, <3>4 DEF Shaped, Alternates, Stands
    <3>6. Unbraced = {}
      BY <3>4, <3>5 DEF Unbraced
    <3>7. Bare(stack) = 0
      <4>1. ~(Len(stack) > 1)
        BY <3>1
      <4> QED
        BY <4>1, Zenon DEF Bare, BareTop
    <3> QED
      BY <2>1, <3>6, <3>7, FS_EmptySet
  <2> QED
    BY <2>2, <2>3
<1> QED
  BY <1>1, NestingKeeps, PTL

\* For every text, the variables of the reader have their types, and when the
\* tree is done no call is left and the counter is back at nothing.
THEOREM ReaderTyped == Spec => []TypeOK
<1>1. CursorInv /\ NestInv /\ LexInv => TypeOK
  <2> SUFFICES ASSUME CursorInv, NestInv, LexInv PROVE TypeOK
    OBVIOUS
  <2>1. at \in 1 .. Len(tokens) + 1 /\ depth \in 0 .. MaxDepth /\ (parsing = "done" => depth = 0)
    BY DEF CursorInv, CursorOK, CallsInv, CallsNest
  <2>2. parsing = "done" => Len(stack) = 1
    BY DEF NestInv
  <2>3. pos \in 1 .. Len(input) + 1 /\ line \in Nat \ {0} /\ col \in Nat \ {0}
    <3>1. Len(input) \in Nat /\ Home \in 1 .. 2 /\ pos \in Home .. Len(input) + 1
      BY Chars, HomeIs DEF LexInv, CursorAt
    <3>2. line = LineAt(pos) /\ col = ColAt(pos)
      BY DEF LexInv, CursorAt
    <3>3. LineAt(pos) \in Nat \ {0} /\ ColAt(pos) \in Nat \ {0}
      <4>1. pos \in Nat /\ Home <= pos
        BY <3>1
      <4> QED
        BY <4>1, FromOne
    <3> QED
      BY <3>1, <3>2, <3>3
  <2> QED
    BY <2>1, <2>2, <2>3 DEF TypeOK
<1> QED
  BY <1>1, NestingKeeps, LexerKeeps, PTL
=============================================================================
