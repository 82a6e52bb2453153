-------------------------- MODULE StructureBuilder --------------------------
(***************************************************************************)
(* Phase 1 of the resolver (src/resolver/structure_builder.rs): the AST of *)
(* a document becomes the tree of ResolverValues that phase 2 resolves.    *)
(*                                                                         *)
(* An AST node is a scalar or a record whose t is "list" (an array         *)
(* literal), "record" (an object literal, a sequence of fields), "ref" (a  *)
(* substitution) or "cat" (a concatenation; seps are the positions of the  *)
(* whitespace separators).  A field has a key (the empty key is an         *)
(* include), the flag append of `+=' and a value.                          *)
(***************************************************************************)
EXTENDS ObjectMerge

CONSTANT Files    \* file name -> what the loader finds for it, in probe order

List(items)          == [t |-> "list", items |-> items]
Record(fields)       == [t |-> "record", members |-> fields]
Ref(segs, optional)  == [t |-> "ref", segs |-> segs, optional |-> optional,
                         list |-> FALSE]
Cat(nodes, seps)     == [t |-> "cat", nodes |-> nodes, seps |-> seps]
Field(key, value)    == [key |-> key, append |-> FALSE, value |-> value]
PlusEq(key, value)   == [key |-> key, append |-> TRUE, value |-> value]
Include(file)        == [key |-> <<>>, append |-> FALSE,
                         value |-> [t |-> "include", file |-> file]]

RECURSIVE ApplyField(_, _, _), ToResolverValue(_, _)

\* StructureBuilder::build
Build(fields, prefix) ==
    FoldLeft(LAMBDA o, f : ApplyField(o, f, prefix), NewObj, fields)

\* load_include, for files that exist and do not include one another in a
\* cycle: the candidates found by extension merge in probe order, each built
\* as a document of its own.  A .properties candidate is a finished object.
LoadInclude(file) ==
    LET load(c) == IF c.t = "object" THEN AsResObj(c) ELSE Build(c.members, <<>>)
    IN  FoldLeft(LAMBDA o, c : DeepMergeInto(o, load(c), <<>>), NewObj, Files[file])

\* The include directive: mount the file's object under prefix and merge.
ApplyInclude(obj, f, prefix) ==
    DeepMergeInto(obj, Relativize(LoadInclude(f.value.file), prefix), prefix)

\* a.b = v is a { b = v }.
NestedField(f) == Field(<<Head(f.key)>>, Record(<<[f EXCEPT !.key = Tail(@)]>>))

\* k += v is k = ${?prefix.k} [v].
RelativeAppend(f, prefix) ==            \* a variant: the path of k is forgotten
    Field(f.key, Cat(<<Ref(f.key, TRUE), List(<<f.value>>)>>, {}))
DesugaredAppend(f, prefix) ==
    Field(f.key, Cat(<<Ref(prefix \o f.key, TRUE), List(<<f.value>>)>>, {}))

\* should_fold_nested: fold the children of the old object before it is saved
\* unless the new object brings a key the old one does not have.
ShouldFoldNested(old, new) ==
    IsObj(old) /\ (IsObj(new) => DOMAIN new.fields \subseteq DOMAIN old.fields)

\* The normal assignment k = value, once the value is built.
SaveOld(obj, k, prior) == IF prior = None THEN obj ELSE PutPrior(obj, k, prior)
Marked(obj, k, new, key) ==
    IF ContainsSelfRef(new, key) THEN obj ELSE [obj EXCEPT !.reset = @ \cup {k}]
AssignValue(obj, k, new, key) ==
    LET old   == Lookup(obj.fields, k)
        input == IF ShouldFoldNested(old, new) THEN FoldNested(old, key) ELSE old
    IN  IF old = None THEN PutField(Marked(obj, k, new, key), k, new)
        ELSE PutField(SaveOld(Marked(obj, k, new, key), k,
                              FoldOrSkipPrior(input, key, Lookup(obj.prior, k))),
                      k, IF IsObj(old) /\ IsObj(new) THEN DeepMergeInto(old, new, key)
                         ELSE new)

\* apply_field
ApplyField(obj, f, prefix) ==
    CASE f.key = <<>>                -> ApplyInclude(obj, f, prefix)
      [] Len(f.key) > 1              -> ApplyField(obj, NestedField(f), prefix)
      [] Len(f.key) = 1 /\ f.append  -> ApplyField(obj, DesugaredAppend(f, prefix), prefix)
      [] Len(f.key) = 1 /\ ~f.append ->
             AssignValue(obj, Head(f.key), ToResolverValue(f.value, prefix \o f.key),
                         prefix \o f.key)

\* ast_to_resolver_value.  An array whose elements are all resolved is a
\* resolved array; an object literal never is.
ToResolverValue(ast, prefix) ==
    CASE ast.t = "list" ->
             LET items == MapNodes(ast.items, LAMBDA n : ToResolverValue(n, prefix))
             IN  IF \A i \in DOMAIN items : IsResolved(items[i])
                 THEN Array(items) ELSE UnresolvedArray(items)
      [] ast.t = "record" -> Build(ast.members, prefix)
      [] ast.t = "ref"    -> Subst(ast.segs, ast.optional, ast.list)
      [] ast.t = "cat"    ->
             Concat(MapNodes(ast.nodes, LAMBDA n : ToResolverValue(n, prefix)), ast.seps)
      [] OTHER            -> ast
=============================================================================
