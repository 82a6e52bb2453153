-------------------------- MODULE LoaderProperties --------------------------
(***************************************************************************)
(* What the include loader owes its callers.  The reference expands the    *)
(* files as they are on the disk: it knows neither spellings of a path nor *)
(* candidates that are rejected first and judged later.                    *)
(***************************************************************************)
EXTENDS IncludeLoader

(* ----------------------------- the reference --------------------------- *)
Yes(got)   == [t |-> "ok", got |-> got]
Bad(error) == [t |-> "error", error |-> error]
Circular   == Bad("circular")

Then(a, b) == IF a.t = "error" THEN a ELSE IF b.t = "error" THEN b ELSE Yes(a.got \o b.got)

\* The first n of some results one after the other.
Chained(results, n) ==
    LET upto[i \in 0 .. n] == IF i = 0 THEN Yes(<<>>) ELSE Then(upto[i - 1], results[i])
    IN  upto[n]

\* A source as it is expanded: what it holds, its name, its directory, and
\* the sources it is part of.
Calls == [items : ItemLists, name : Names, dir : Dirs, open : SUBSET Names]

Call(items, name, dir, open) == [items |-> items, name |-> name, dir |-> dir, open |-> open]

\* What a source brings in, where inner says it of the sources inside.
OfSource(inner, content, name, dir, open) ==
    IF name \in open THEN Circular
    ELSE IF content.t = "broken" THEN Bad("syntax")
    ELSE IF content.t = "array" THEN Bad("array root")
    ELSE inner[Call(content.items, name, dir, open \cup {name})]

\* What a path leads to on the disk d.
Held(d, p) == IF p \in DOMAIN Locate THEN d[Locate[p]] ELSE Missing

\* One candidate: none of it when the file is missing.
OfPath(d, inner, p, open) ==
    IF Held(d, p) = Missing THEN Yes(<<>>)
    ELSE IF p.ext # "properties" THEN OfSource(inner, Held(d, p), Locate[p], p.dir, open)
    ELSE IF Held(d, p).t = "broken" THEN Bad("syntax") ELSE Yes(<<Locate[p]>>)

OfPaths(d, inner, paths, open, n) ==
    Chained([i \in 1 .. Len(paths) |-> OfPath(d, inner, paths[i], open)], n)

OfInclude(d, inner, item, dir, open) ==
    LET paths == Candidates(item, dir)
    IN  IF item.required /\ \A i \in 1 .. Len(paths) : Held(d, paths[i]) = Missing THEN Bad("required")
        ELSE OfPaths(d, inner, paths, open, Len(paths))

OfPackage(inner, key, open) ==
    IF key \notin DOMAIN Registry THEN Bad("unregistered")
    ELSE OfSource(inner, Registry[key], key.package, Cwd, open)

OfItem(d, inner, item, call, open) ==
    CASE item.t = "own"     -> Yes(<<call.name>>)
      [] item.t = "package" -> OfPackage(inner, item.key, open)
      [] OTHER              -> OfInclude(d, inner, item, call.dir, open)

\* The first n items of a source, the later the stronger.
OfItems(d, inner, call, open, n) ==
    Chained([i \in 1 .. Len(call.items) |-> OfItem(d, inner, call.items[i], call, open)], n)

\* What every source brings in, and with sources inside one another down to a
\* depth of n.
Outer(d, inner) == [call \in Calls |-> OfItems(d, inner, call, call.open, Len(call.items))]
Expand(d, n) ==
    LET level[k \in Nat] ==
            IF k = 0 THEN [call \in Calls |-> Circular] ELSE Outer(d, level[k - 1])
    IN  level[n]

\* What the document brings in.  No source is in one of its name, so that one
\* level more than there are names is never reached.
Expected ==
    Expand(disk, Cardinality(Names) + 1)[Call(stack[1].items, "top", stack[1].dir, {})]

\* No path of a directive leads up again, and no file is a link to another: two
\* paths of one file lead to the same files.
Upward(dir)   == \E i \in 1 .. Len(dir) : dir[i] = ".."
GoesUp(items) == \E i \in 1 .. Len(items) : items[i].t = "include" /\ Upward(items[i].dir)
SameFile(p, q) ==
    /\ p \in DOMAIN Locate <=> q \in DOMAIN Locate
    /\ p \in DOMAIN Locate => Locate[p] = Locate[q]
Unlinked ==
    \A p, q \in DOMAIN Locate : Locate[p] = Locate[q] /\ ~Upward(p.dir) /\ ~Upward(q.dir) =>
        \A d \in Directives : ~Upward(d.dir) =>
            \A i \in 1 .. Len(Candidates(d, p.dir)) : SameFile(Candidates(d, p.dir)[i], Candidates(d, q.dir)[i])
Plain ==
    /\ Unlinked /\ ~Upward(Cwd)
    /\ ~Upward(stack[1].dir) /\ ~GoesUp(stack[1].items)
    /\ \A f \in File : ~GoesUp(disk[f].items)
    /\ \A k \in DOMAIN Registry : ~GoesUp(Registry[k].items)

\* While nobody else touches the files, a load gives what the sources expand to,
\* in their order of precedence, or fails as they fail: no error of a file that
\* is there is swallowed, no missing file is an error unless it is required, a
\* file that is included twice side by side is not a circle, and a circle is
\* found when no path goes up and no file is a link.
Faithful ==
    quiet /\ outcome.t # "loading" /\ (Plain \/ Expected # Circular) => outcome = Expected

\* Every load ends, also when files include one another in a circle, under
\* paths that grow with every turn, or change while they are loaded.
Ends == <>(outcome.t # "loading")
=============================================================================
