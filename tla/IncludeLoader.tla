---------------------------- MODULE IncludeLoader ----------------------------
(***************************************************************************)
(* The loading of included files and packages                              *)
(* (src/resolver/include_loader.rs), which calls itself through the        *)
(* structure builder.  The call stack is a variable: a frame is either the *)
(* build of one source ("doc") or the load of one include directive        *)
(* ("probe"), which tries its candidates in turn.  Files may be created    *)
(* and removed by somebody else between two steps of the loader.           *)
(*                                                                         *)
(* What a source contributes is abstracted to its name: the result of a    *)
(* load is the order in which sources took effect, the later over the      *)
(* earlier.                                                                *)
(***************************************************************************)
EXTENDS Integers, Sequences, FiniteSets

CONSTANTS
    Locate,      \* the file a path as written leads to; no other path can be opened
    Contents,    \* [file -> set of contents]: what a file may hold
    Disks,       \* what the files may hold at the start
    Registry,    \* [key of a package -> content]: what was registered with the parser
    Cwd,         \* the directory of the process
    Documents,   \* the documents parsed: [dir, items, touches]
    Shared       \* the files somebody else may create, change or remove

File == DOMAIN Contents
Key  == DOMAIN Locate \cup DOMAIN Registry    \* IncludeKey

ASSUME FilesAssumption ==
    /\ IsFiniteSet(File) /\ IsFiniteSet(DOMAIN Locate) /\ IsFiniteSet(DOMAIN Registry)
    /\ \A p \in DOMAIN Locate : Locate[p] \in File
    /\ \A s \in Disks : DOMAIN s = File /\ \A f \in File : s[f] \in Contents[f]
    /\ Shared \subseteq File
    /\ \A d \in Documents : d.touches \in Nat

\* The items of the sources there may be, the directories they may be in, and
\* the directives that load files.
ItemLists ==
    {d.items : d \in Documents} \cup {Registry[k].items : k \in DOMAIN Registry}
    \cup UNION {{c.items : c \in Contents[f]} : f \in File}
Dirs == {d.dir : d \in Documents} \cup {p.dir : p \in DOMAIN Locate} \cup {Cwd}
Directives ==
    UNION {{items[i] : i \in {j \in DOMAIN items : items[j].t = "include"}} : items \in ItemLists}

\* Items and directories are sequences, the key of a package is its name, and no
\* path is a key and no file a name of a package.
IsSequence(s) == s \in Seq({s[i] : i \in DOMAIN s})
ASSUME SourcesAssumption ==
    /\ \A items \in ItemLists :
           /\ IsSequence(items)
           /\ \A i \in 1 .. Len(items) :
                  /\ items[i].t \in {"own", "include", "package"}
                  /\ items[i].t = "package" => items[i].key \notin DOMAIN Locate
    /\ \A dir \in Dirs \cup {d.dir : d \in Directives} : IsSequence(dir)
    /\ \A k \in DOMAIN Registry : k = [package |-> k.package] /\ k.package \notin File
    /\ DOMAIN Locate \cap DOMAIN Registry = {}

VARIABLES
    disk,       \* [file -> content]
    touches,    \* how many more times somebody else writes a file
    quiet,      \* nobody else has written one yet
    stack,      \* the frames of the calls in progress
    outcome     \* of the whole load

files == <<disk, touches, quiet>>
vars  == <<disk, touches, quiet, stack, outcome>>

(* ------------------------------ documents ------------------------------ *)
\* The items of a source: its own fields, and the directives between them.
Own == [t |-> "own"]
Include(dir, stem, ext) ==
    [t |-> "include", dir |-> dir, stem |-> stem, ext |-> ext, cwd |-> FALSE, required |-> FALSE]
FileInclude(dir, stem, ext) == [Include(dir, stem, ext) EXCEPT !.cwd = TRUE]
Required(d) == [d EXCEPT !.required = TRUE]
Package(id) == [t |-> "package", key |-> [package |-> id]]

Doc(items) == [t |-> "doc", items |-> items]
Broken     == [t |-> "broken", items |-> <<>>]     \* does not parse
ArrayRoot  == [t |-> "array", items |-> <<>>]
Missing    == [t |-> "missing", items |-> <<>>]    \* there is no such file

(* -------------------------------- frames ------------------------------- *)
\* chain is opts.include_stack: the sources being loaded above this one.
DocFrame(name, dir, chain, items) ==
    [t |-> "doc", name |-> name, dir |-> dir, chain |-> chain,
     items |-> items, todo |-> items, got |-> <<>>]
Probe(paths, required, chain) ==
    [t |-> "probe", todo |-> paths, required |-> required, chain |-> chain,
     got |-> <<>>, found |-> FALSE, failed |-> "none"]

Top      == stack[Len(stack)]
Building == outcome.t = "loading" /\ Top.t = "doc"
Probing  == outcome.t = "loading" /\ Top.t = "probe"
Below(s) == SubSeq(s, 1, Len(s) - 1)
IsOn(chain, x) == \E i \in 1 .. Len(chain) : chain[i] = x

Change(f)   == stack' = [stack EXCEPT ![Len(stack)] = f]
Push(f)     == stack' = Append(stack, f)
Fail(error) == outcome' = [t |-> "error", error |-> error] /\ UNCHANGED stack

(* ----------------------------- the file system ------------------------- *)
Content(p) == IF p \in DOMAIN Locate THEN disk[Locate[p]] ELSE Missing
IsThere(p) == Content(p) # Missing

\* Somebody else creates, changes or removes a file.
Touch(f) ==
    /\ outcome.t = "loading" /\ touches > 0
    /\ touches' = touches - 1
    /\ quiet' = FALSE
    /\ \E c \in Contents[f] \ {disk[f]} : disk' = [disk EXCEPT ![f] = c]
    /\ UNCHANGED <<stack, outcome>>

(* ------------------------------- the loader ---------------------------- *)
\* Path::join: an absolute path replaces the base.
Join(base, dir) == IF dir # <<>> /\ dir[1] = "/" THEN dir ELSE base \o dir

\* The candidates of a directive: the path itself when it has an extension.
Candidates(d, dir) ==
    LET path(ext) == [dir |-> Join(IF d.cwd THEN Cwd ELSE dir, d.dir), stem |-> d.stem, ext |-> ext]
    IN  IF d.ext # "" THEN <<path(d.ext)>>
        ELSE <<path("properties"), path("json"), path("conf")>>

\* A variant: the sources in progress are not looked at.
UncheckedRefusal(p, chain) ==
    CASE ~IsThere(p)               -> "unreadable"
      [] Content(p).t = "broken"   -> "syntax"
      [] p.ext # "properties" /\ Content(p).t = "array" -> "array root"
      [] OTHER                     -> "none"

\* Why load_single_include fails on p, before it builds anything.
Refusal(p, chain) ==
    IF IsOn(chain, p) THEN "circular"
    ELSE IF ~IsThere(p) THEN "unreadable"
    ELSE IF Content(p).t = "broken" THEN "syntax"
    ELSE IF p.ext # "properties" /\ Content(p).t = "array" THEN "array root"
    ELSE "none"

\* Why load_package_include fails.
PackageRefusal(key, chain) ==
    IF IsOn(chain, key) THEN "circular"
    ELSE IF key \notin DOMAIN Registry THEN "unregistered"
    ELSE IF Registry[key].t = "broken" THEN "syntax"
    ELSE IF Registry[key].t = "array" THEN "array root"
    ELSE "none"

\* The builder reaches fields of the document itself.
BuildOwn ==
    /\ Building /\ Top.todo # <<>> /\ Head(Top.todo).t = "own"
    /\ Change([Top EXCEPT !.todo = Tail(@), !.got = Append(@, Top.name)])
    /\ UNCHANGED <<files, outcome>>

\* It reaches an include of a file; the directive is dropped when it returns.
BeginInclude ==
    /\ Building /\ Top.todo # <<>> /\ Head(Top.todo).t = "include"
    /\ Push(Probe(Candidates(Head(Top.todo), Top.dir), Head(Top.todo).required, Top.chain))
    /\ UNCHANGED <<files, outcome>>

\* It reaches an include of a package, whose content has no directory.
BeginPackage ==
    /\ Building /\ Top.todo # <<>> /\ Head(Top.todo).t = "package"
    /\ \E key \in {Head(Top.todo).key} : \E why \in {PackageRefusal(key, Top.chain)} :
           IF why # "none" THEN Fail(why)
           ELSE /\ Push(DocFrame(key.package, Cwd, Append(Top.chain, key), Registry[key].items))
                /\ UNCHANGED outcome
    /\ UNCHANGED files

\* The next candidate cannot be loaded; whether that matters is decided later.
Reject ==
    /\ Probing /\ Top.failed = "none" /\ Top.todo # <<>>
    /\ Refusal(Head(Top.todo), Top.chain) # "none"
    /\ Change([Top EXCEPT !.failed = Refusal(Head(Top.todo), Top.chain)])
    /\ UNCHANGED <<files, outcome>>

\* A .properties file is read at once.
LoadProperties ==
    /\ Probing /\ Top.failed = "none" /\ Top.todo # <<>>
    /\ Refusal(Head(Top.todo), Top.chain) = "none" /\ Head(Top.todo).ext = "properties"
    /\ Change([Top EXCEPT !.todo = Tail(@), !.found = TRUE,
                          !.got = Append(@, Locate[Head(Top.todo)])])
    /\ UNCHANGED <<files, outcome>>

\* A variant: the chain of the child starts at the document.
DescendFromDocument ==
    /\ Probing /\ Top.failed = "none" /\ Top.todo # <<>>
    /\ \E p \in {Head(Top.todo)} :
           /\ Refusal(p, Top.chain) = "none" /\ p.ext # "properties"
           /\ Push(DocFrame(Locate[p], p.dir, Append(stack[1].chain, p), Content(p).items))
    /\ UNCHANGED <<files, outcome>>

\* Any other candidate is parsed, and built with the candidate on the chain.
Descend ==
    /\ Probing /\ Top.failed = "none" /\ Top.todo # <<>>
    /\ \E p \in {Head(Top.todo)} :
           /\ Refusal(p, Top.chain) = "none" /\ p.ext # "properties"
           /\ Push(DocFrame(Locate[p], p.dir, Append(Top.chain, p), Content(p).items))
    /\ UNCHANGED <<files, outcome>>

\* Variants: the failed candidate is tried once more, and every failure is
\* taken for a missing file.
JudgeAgain ==
    /\ Probing /\ Top.failed # "none"
    /\ IF IsThere(Head(Top.todo)) THEN Fail(Top.failed)
       ELSE Change([Top EXCEPT !.failed = "none"]) /\ UNCHANGED outcome
    /\ UNCHANGED files

JudgeMissing ==
    /\ Probing /\ Top.failed # "none"
    /\ Change([Top EXCEPT !.todo = Tail(@), !.failed = "none"])
    /\ UNCHANGED <<files, outcome>>

\* After a failure the loader asks whether the candidate exists: if it does the
\* error is reported, if not the next candidate is tried.
Judge ==
    /\ Probing /\ Top.failed # "none"
    /\ IF IsThere(Head(Top.todo)) THEN Fail(Top.failed)
       ELSE /\ Change([Top EXCEPT !.todo = Tail(@), !.failed = "none"])
            /\ UNCHANGED outcome
    /\ UNCHANGED files

\* What a call returns is merged over what its caller has.
Return(frames, result) ==
    LET caller == frames[Len(frames)]
    IN  [frames EXCEPT ![Len(frames)] =
            IF caller.t = "doc" THEN [caller EXCEPT !.todo = Tail(@), !.got = @ \o result]
            ELSE [caller EXCEPT !.todo = Tail(@), !.got = @ \o result, !.found = TRUE]]

\* No candidate is left.
EndProbe ==
    /\ Probing /\ Top.failed = "none" /\ Top.todo = <<>>
    /\ IF Top.required /\ ~Top.found THEN Fail("required")
       ELSE stack' = Return(Below(stack), Top.got) /\ UNCHANGED outcome
    /\ UNCHANGED files

\* A source is built to its end.
EndDoc ==
    /\ Building /\ Top.todo = <<>>
    /\ IF Len(stack) = 1 THEN outcome' = [t |-> "ok", got |-> Top.got] /\ UNCHANGED stack
       ELSE stack' = Return(Below(stack), Top.got) /\ UNCHANGED outcome
    /\ UNCHANGED files

Load ==
    \/ BuildOwn \/ BeginInclude \/ BeginPackage
    \/ Reject \/ LoadProperties \/ Descend \/ Judge
    \/ EndProbe \/ EndDoc

Next == Load \/ \E f \in Shared : Touch(f)

\* A document is parsed, with its directory as base and nothing on the chain.
Init ==
    /\ \E d \in Documents : /\ stack = <<DocFrame("top", d.dir, <<>>, d.items)>>
                            /\ touches = d.touches
    /\ disk \in Disks
    /\ quiet = TRUE
    /\ outcome = [t |-> "loading"]

\* The loader is a sequential function: it keeps running until it returns.  Who
\* else writes files owes it nothing.
Spec == Init /\ [][Next]_vars /\ WF_vars(Load)
-----------------------------------------------------------------------------
Errors == {"circular", "unreadable", "syntax", "array root", "required", "unregistered"}
Names  == {"top"} \cup File \cup {key.package : key \in DOMAIN Registry}

\* The type invariant: frames of the two kinds, a probe on a document and never
\* on another probe, and a chain that grows with the documents on the stack.
Linked(s) ==
    \A i \in 2 .. Len(s) :
        /\ s[i].t = "probe" => s[i - 1].t = "doc" /\ s[i].chain = s[i - 1].chain
        /\ s[i].t = "doc" => Below(s[i].chain) = s[i - 1].chain
TypeOK ==
    /\ DOMAIN disk = File /\ \A f \in File : disk[f] \in Contents[f]
    /\ touches \in Nat /\ quiet \in BOOLEAN
    /\ stack # <<>> /\ stack[1].t = "doc"
    /\ \A i \in 1 .. Len(stack) : stack[i].got \in Seq(Names) /\ stack[i].chain \in Seq(Key)
    /\ Linked(stack)
    /\ \/ outcome = [t |-> "loading"]
       \/ outcome.t = "error" /\ outcome.error \in Errors
       \/ outcome.t = "ok" /\ outcome.got \in Seq(Names)

\* No source is loaded inside itself, under the name it was opened by, whatever
\* somebody else does to the files meanwhile.
NoRepeat ==
    \A n \in 1 .. Len(stack) : \A i, j \in 1 .. Len(stack[n].chain) :
        stack[n].chain[i] = stack[n].chain[j] => i = j

\* So the recursion of the loader is bounded by the number of names there are.
DepthBounded ==
    Len(stack) <= 2 * Cardinality(Key) + 2
=============================================================================
