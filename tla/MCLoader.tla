------------------------------ MODULE MCLoader ------------------------------
(***************************************************************************)
(* Two directories, the one of the process and d below it, with a few      *)
(* files each.  A path as written is a sequence of "d" and "..", relative  *)
(* or absolute; one with more than MaxPath components is too long to open. *)
(***************************************************************************)
EXTENDS LoaderProperties, TLC

CONSTANT MaxPath

Root == <<>>
Here == <<"/">>
Up   == <<"..">>
D    == <<"d">>

A == "a.conf"
J == "a.json"
P == "a.properties"
B == "d/b.conf"
C == "d/a.conf"

\* The directory of the process, and the directory d, under a path of n
\* components: d/../d/.. and so on.
Zigzag(n)   == [i \in 1 .. n |-> IF i % 2 = 1 THEN "d" ELSE ".."]
Path(pre, n, stem, ext) == [dir |-> pre \o Zigzag(n), stem |-> stem, ext |-> ext]
PathsTo(odd, stem, ext) ==
    {Path(pre, n, stem, ext) : pre \in {Root, Here}, n \in {m \in 0 .. MaxPath : (m % 2 = 1) = odd}}
Leads(odd, stem, ext, file) == [p \in PathsTo(odd, stem, ext) |-> file]

Opens ==
    Leads(FALSE, "a", "conf", A) @@ Leads(FALSE, "a", "json", J) @@ Leads(FALSE, "a", "properties", P)
 @@ Leads(TRUE, "b", "conf", B) @@ Leads(TRUE, "a", "conf", C)

MayHold ==
    A :> {Doc(<<Own, Include(D, "b", "conf")>>), Doc(<<Package("p"), Own>>), Broken,
          Doc(<<Own, FileInclude(D, "a", "")>>), Missing}
 @@ J :> {Doc(<<Include(D, "b", ""), Own>>), ArrayRoot, Missing}
 @@ P :> {Doc(<<Own>>), Broken, Missing}
 @@ B :> {Doc(<<Own>>), Doc(<<Include(Root, "a", ""), Own>>), Doc(<<FileInclude(Root, "a", "conf")>>),
          Doc(<<Own, Include(Up, "a", "json")>>), Missing}
 @@ C :> {Doc(<<Package("q"), Own>>), Doc(<<Own, Required(Include(Root, "b", "conf"))>>), Missing}
AllDisks ==
    {A :> a @@ J :> j @@ P :> p @@ B :> b @@ C :> c :
        a \in MayHold[A], j \in MayHold[J], p \in MayHold[P], b \in MayHold[B], c \in MayHold[C]}

Packages ==
    [package |-> "p"] :> Doc(<<Own, Package("q")>>)
 @@ [package |-> "q"] :> Doc(<<Own, FileInclude(Root, "a", "conf"), Include(D, "b", "conf")>>)
 @@ [package |-> "r"] :> ArrayRoot

Parsed(items, n) == [dir |-> Root, items |-> items, touches |-> n]
Texts ==
    {Parsed(items, 0) : items \in
        {<<Own, Include(Root, "a", ""), Own>>,
         <<Required(Include(D, "b", "")), Include(Root, "a", "conf")>>,
         <<Own, FileInclude(Root, "a", "json"), Package("p")>>,
         <<Package("r")>>, <<Package("s")>>}}
    \cup {Parsed(<<Include(Root, "a", "conf"), Include(D, "b", "")>>, 1)}
Writable == {B}
=============================================================================
