---------------------------- MODULE ValueHistory ----------------------------
(***************************************************************************)
(* What a sequence of assignments to the keys of one object promises: a    *)
(* value that refers to its own key extends what the key held, any other   *)
(* value replaces it, and an included file counts as its assignments read  *)
(* at the place of the include.  The machinery that keeps the promise is   *)
(* in PriorChain.tla.                                                      *)
(*                                                                         *)
(* Atom is the set of the literals and of the substitutions of other keys. *)
(* A value is the set of its atoms: the order and the nesting inside one   *)
(* value are the business of the concatenation, not of the look-back.      *)
(***************************************************************************)
EXTENDS Naturals

CONSTANTS Key, Atom,
    Brings      \* what a file that may be included brings: its keys, their
                \* atoms, and the keys whose value looks back out of the file
                \* (open), if need be by a required reference (dangling)

VARIABLES
    defined,    \* the keys that have been assigned
    chain,      \* key -> the atoms its value is made of
    dangling    \* the keys that rest on a required self-reference with nothing
                \* below it in this file

hvars == <<defined, chain, dangling>>

Init ==
    /\ defined = {}
    /\ chain = [k \in Key |-> {}]
    /\ dangling = {}

\* The atoms below a new layer of k.  A dangling layer is not kept: the file
\* is in error unless something is below it when it is included.
Below(k) == IF k \in dangling THEN {} ELSE chain[k]
Dangles(k) == k \notin defined \/ k \in dangling

\* A value of the given atoms; refs says how it refers to its own key.
Assign(k, atoms, refs) ==
    /\ defined'  = defined \cup {k}
    /\ chain'    = [chain EXCEPT ![k] = atoms \cup (IF refs = {} THEN {} ELSE Below(k))]
    /\ dangling' = IF "required" \in refs /\ Dangles(k)
                   THEN dangling \cup {k} ELSE dangling \ {k}

Include(b) ==
    /\ defined'  = defined \cup b.keys
    /\ chain'    = [k \in Key |->
                       IF k \notin b.keys THEN chain[k]
                       ELSE b.atoms[k] \cup (IF k \in b.open THEN Below(k) ELSE {})]
    /\ dangling' = {k \in Key : IF k \in b.keys THEN k \in b.dangling /\ Dangles(k)
                                ELSE k \in dangling}

Next ==
    \/ \E k \in Key, atoms \in SUBSET Atom, refs \in SUBSET {"optional", "required"} :
           Assign(k, atoms, refs)
    \/ \E b \in Brings : Include(b)

Spec == Init /\ [][Next]_hvars
=============================================================================
