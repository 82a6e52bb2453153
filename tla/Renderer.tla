------------------------------ MODULE Renderer ------------------------------
(***************************************************************************)
(* From a tree of plain data to a text: the factory that makes such a tree *)
(* of a map (src/value_factory.rs) and the emitter (src/render_hocon.rs).  *)
(* A tree is written as the parser would write it, every key one segment.  *)
(* A tree with a placeholder has no text and is not among them.            *)
(***************************************************************************)
EXTENDS SyntaxProperties

Seqs == INSTANCE SequencesExt

CONSTANT Trees    \* the trees of plain data, objects at the root

(* ------------------------------ the factory ---------------------------- *)
\* Whether coerce_map and coerce_value take an object and a value at level d.
RECURSIVE CoerceMap(_, _), CoerceValue(_, _)
CoerceMap(object, d) ==
    d <= MaxDepth /\ \A i \in DOMAIN object.fields : CoerceValue(object.fields[i].value, d)
CoerceValue(v, d) ==
    /\ d <= MaxDepth
    /\ v.t = "array"  => \A i \in DOMAIN v.items : CoerceValue(v.items[i], d + 1)
    /\ v.t = "object" => CoerceMap(v, d + 1)
FromMap(tree) == CoerceMap(tree, 1)

(* ---------------------------- keys and strings ------------------------- *)
Keywords     == {<<"true">>, <<"false">>, <<"null">>, <<"yes">>, <<"no">>, <<"on">>, <<"off">>}
Alphabetic   == {"a", "b", "e", "n", "include"} \cup {k[1] : k \in Keywords}
Identifying  == Alphabetic \cup Digit \cup {"_", "-"}
ThreeQuotes  == <<Quote, Quote, Quote>>
Escape(c)    == CASE c \in {Quote, Backslash} -> <<Backslash, c>>
                  [] c = Newline              -> <<Backslash, "n">>
                  [] c = "\r"                 -> <<Backslash, "r">>
                  [] c = "\t"                 -> <<Backslash, "t">>
                  [] OTHER                    -> <<c>>

IsSafeUnquotedKey(k) == k # <<>> /\ AllIn(k, Identifying)
\* A variant: a digit may come first, as in a key.
IsSafeBareLikeKey(s) == IsSafeUnquotedKey(s)
IsSafeBareString(s)  == s # <<>> /\ s[1] \in Alphabetic /\ AllIn(s, Identifying)

Has(s, c) == \E i \in DOMAIN s : s[i] = c
\* What triple quotes can hold, of what holds a line end.
TripleQuoted(s) ==
    /\ Has(s, Newline) /\ ~Has(s, "\r") /\ ~EndsIn(s, Quote)
    /\ ~\E i \in 1 .. Len(s) - 2 : SubSeq(s, i, i + 2) = ThreeQuotes
QuoteString(s) ==
    IF TripleQuoted(s) THEN ThreeQuotes \o s \o ThreeQuotes
    ELSE <<Quote>> \o Seqs!FlattenSeq([i \in DOMAIN s |-> Escape(s[i])]) \o <<Quote>>

RenderKey(k)    == IF k = <<"include">> \/ ~IsSafeUnquotedKey(k) THEN QuoteString(k) ELSE k
RenderString(s) == IF IsSafeBareString(s) /\ s \notin Keywords THEN s ELSE QuoteString(s)
RenderScalar(v) == IF v.type = "string" THEN RenderString(v.text) ELSE v.text

(* ------------------------------- the text ------------------------------ *)
Indent(d) == [i \in 1 .. 2 * d |-> " "]
\* The lines that a container holds between its marks, at depth d.
Framed(open, lines, close, d) ==
    <<open>> \o (IF lines = <<>> THEN <<>> ELSE <<Newline>> \o lines \o Indent(d)) \o <<close>>

RECURSIVE RenderObjectBody(_, _), RenderValue(_, _)
RenderObjectBody(fields, d) ==
    Seqs!FlattenSeq([i \in DOMAIN fields |->
        Indent(d) \o RenderKey(fields[i].key[1])
        \o (IF fields[i].value.t = "object" THEN <<" ">> ELSE <<" ", "=", " ">>)
        \o RenderValue(fields[i].value, d) \o <<Newline>>])
RenderArray(items, d) ==
    Seqs!FlattenSeq([i \in DOMAIN items |->
        Indent(d + 1) \o RenderValue(items[i], d + 1) \o <<Newline>>])
RenderValue(v, d) ==
    CASE v.t = "object" -> Framed("{", RenderObjectBody(v.fields, d + 1), "}", d)
      [] v.t = "array"  -> Framed("[", RenderArray(v.items, d), "]", d)
      [] v.t = "scalar" -> RenderScalar(v)
RenderHocon(tree) == RenderObjectBody(tree.fields, 0)

Rendered == [t \in Trees |-> RenderHocon(t)]
Emitted  == {RenderHocon(t) : t \in Trees}

(* ------------------------------- properties ---------------------------- *)
RECURSIVE Nesting(_), KeysWithin(_)
Children(v) == CASE v.t = "object" -> {v.fields[i].value : i \in DOMAIN v.fields}
                 [] v.t = "array"  -> {v.items[i] : i \in DOMAIN v.items}
                 [] OTHER          -> {}
\* How many objects and arrays stand inside one another.
Nesting(v) ==
    IF v.t = "scalar" THEN 0
    ELSE 1 + CHOOSE n \in {0} \cup {Nesting(c) : c \in Children(v)} : \A c \in Children(v) : Nesting(c) <= n
KeysWithin(v) ==
    UNION {KeysWithin(c) : c \in Children(v)}
    \cup (IF v.t = "object" THEN {v.fields[i].key[1] : i \in DOMAIN v.fields} ELSE {})

\* What the reader's limit lets in, without the keys that are written between
\* triple quotes, which no key may be.
Returning == {t \in Trees : Nesting(t) <= MaxDepth /\ \A k \in KeysWithin(t) : ~TripleQuoted(k)}

\* A tree comes back from its text, scalars with their types: every string is
\* quoted that the lexer or the parser would take for something else, no quoting
\* loses a character, no container swallows what follows it.  The factory makes
\* every tree that the reader's limit lets in.
RoundTrips ==
    /\ parsing \in {"done", "failed"} \/ lexing \notin {"on", "done"}
    /\ input \in Emitted
    => \A t \in Returning : Rendered[t] = input => FromMap(t) /\ parsing = "done" /\ result = t
=============================================================================
