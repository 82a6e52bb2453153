# TLA+ models of rs.hocon

rs.hocon is a Rust implementation of the HOCON configuration language. A
document is tokenized, parsed to an AST, built into a tree of values and
unresolved substitutions (phase 1 of the resolver) and resolved (phase 2); a
`Config` wraps the result, merges with other configurations and answers getters.
The environment, `.env` and Properties files are mounted into a tree directly.
Nothing runs concurrently inside the crate and nothing is persisted. Two things
are hard. One is **order**: the value of a key depends on every earlier assignment
to it, on what the assignments look back to, on the files included between them,
and on which other keys have been resolved before. The other is **texts that are
cut by hand**: tokens, keys, directives, quantities, names and lines, each by its
own loop with its own idea of quotes, blanks, signs and limits. The models check
and prove that the machinery the code uses (one saved prior per key, folding,
reset marks, a cache, a stack of includes, a depth counter, limbs of nine digits)
gives a document the meaning it has without that machinery.

Paths below are relative to the repository root (`src/resolver/...`) unless they
are only a file name of `src/resolver/`.

## Inventory

| Component | State it keeps | Operations | Behaviour that is hard | What makes it correct |
|---|---|---|---|---|
| Structure builder (`structure_builder.rs`) | a `ResObj` per object: fields in insertion order, one prior per key, reset marks | apply a field: assignment, nested key, `+=`, include; build an array, object, concatenation | the third assignment overwrites the one prior; objects merged around children that look back | every prior free of references to its own key; no layer of a key is lost |
| Folding (`fold_self_ref.rs`) | none (pure) | detect and replace self-references in a value that becomes a prior | exact, below-the-path and known-absent references; required ones that cannot be folded | induction on the saved priors |
| Object merge (`utils.rs`) | none (in place) | merge an object into another; relativize an included tree | splicing an included chain on top of the value of the including file; resets | included keys merge as duplicate keys do |
| Substitution resolver (`substitution_resolver.rs`) | cache, keys being resolved, prefix priors being resolved, path of the field | resolve object, array, concatenation, substitution; environment | cycles broken by looking back; previews in the cache; priors merged under objects at resolve time | terminates; answers do not depend on the order of the fields; the final, merged value is what everyone sees |
| Include loader (`include_loader.rs`) | the chain of sources being included | probe extensions, load a file, a `.properties` file or a package, detect a circle | several candidates; a missing file against a broken one; a circle through different spellings; files that change meanwhile | it ends; a source is never on the chain twice; every candidate contributes, no error is swallowed |
| `Config` (`config.rs`, `options.rs`, `mod.rs`) | root, unresolved tree, resolved flag | `with_fallback`, `resolve`, `resolve_with`, getters by a path | two representations of one document; look-back across `with_fallback`; composition barrier; resolving twice; quotes and periods in a path | both describe the same document; merging is associative where HOCON says so; a path finds the value it names |
| Lexer (`lexer.rs`) | position, line, column, blanks | `tokenize`, `parse_subst_body` | adjacency, comments, four kinds of text, the path of a substitution | the tokens are the only reading of the text and are where they say |
| Parser (`parser.rs`, `depth.rs`) | token, depth, the calls in progress | objects, keys, values, arrays, include directives | optional braces and separators, fused words, a key against a substitution path | the tree is the only reading of the tokens; the recursion is bounded |
| Numeric arrays (`numeric_array.rs`) | none | object with numeric keys as a list | canonical keys only, `i32` range | sorted, compact |
| Units (`units.rs`, `units/decimal.rs`, part of `value.rs`) | limbs and carries of a product | durations, periods, sizes, integers from decimals | limb products in `u128`, guards on the exponent, asymmetric ranges, letters that are an exponent or a unit | no overflow, exact truncation, every text has one worth |
| Environment and properties (`adapters/env.rs`, `properties.rs`, `sysenv.rs`) | the pairs mapped so far | names to paths, lines to pairs, pairs to a tree | a scalar and an object claim one path; order of names; escapes and continuations | deterministic, independent of the order |
| Format adapters (`adapters/json5.rs`, `jsonc.rs`, `yaml.rs`, `toml.rs`) | cursor of JSON5, its nesting; none in the others | parse JSON5; strip JSONC; convert what a YAML, TOML or JSON parser decoded | escapes and line ends that are counted in several loops; two passes over one text; merge keys | the tree is the one the grammar gives; a value that stands in the text is in the tree |
| Renderer (`render_hocon.rs`, `value_factory.rs`) | none | emit a tree as HOCON; make a tree of a map | a list of the emitter decides what may stay bare, three other modules decide what it means | what is emitted reads back as the tree |
| Serde bridge (`serde.rs`, `serde/unit_helpers.rs`) | the accesses in progress | decode a node into a type, `get_as` | two deserializers with the same methods; errors that collect their path on the way out; helpers that ask for the text | the value is what the node stands for; an error names the place |

Components call each other downwards only: the parser reads the tokens of the
lexer; the builder folds and merges, calls the include loader, which parses and
calls a builder of its own and merges the candidates; the substitution resolver
reads the tree the builder made; a getter splits its path, finds a node and hands
its text to the units; `get_as` hands the node to the bridge, whose helpers ask the
units too. The tree is the only shared state; the cache and the sets
of phase 2 live for one call.

`PROJECT.json` lists the hazards this structure has, each at its line, with the
properties that watch it.

## Modules

| Module | Models | Role |
|---|---|---|
| `ResolverValues` | `types.rs`, `value.rs`, part of `utils.rs` | values and the pure operations on them |
| `FoldSelfRef` | `fold_self_ref.rs` | one operator per function |
| `ObjectMerge` | `deep_merge_res_obj_into` | merge of two objects |
| `StructureBuilder` | `structure_builder.rs`, probing of `include_loader.rs` | phase 1 as operators |
| `DocumentBuilder` | `StructureBuilder::build` | phase 1 as a state machine; state `doc`, `tree`; action `AddField` |
| `SubstitutionResolver` | `substitution_resolver.rs`, `numeric_object_to_array` | phase 2 as operators; cache and context threaded through |
| `Resolver` | `resolve`, loop of `resolve_res_obj` | composition: the state machine of a whole run |
| `HoconSemantics` | the HOCON reading of `docs/spec-compliance.md` | abstract specification: what a document means |
| `ResolverProperties` | | properties of `Resolver` |
| `ConfigLifecycle` | `Config` and `merge_unresolved` with the conversions in `mod.rs`; the two parses of `lib.rs` | composition: a chain of calls on a configuration |
| `ConfigProperties` | | properties of `ConfigLifecycle` |
| `ValueHistory` | | abstract specification of the history of a key |
| `PriorChain` | prior and reset bookkeeping of `apply_field` and `deep_merge_res_obj_into` | detailed specification, for the proofs; refines `ValueHistory` |
| `PriorChain_proofs` | | theorems |
| `IncludeLoader` | `include_loader.rs` | the stack of loads as a state machine over a disk of files that may change |
| `LoaderProperties` | | reference `Expand` and the properties |
| `IncludeLoader_proofs` | | theorems |
| `Lexer` | `lexer.rs` | characters to tokens, a step per turn of `tokenize` and `parse_subst_body` |
| `Parser` | `parser.rs`, `depth.rs` | tokens to the tree; EXTENDS `Lexer`, so that a behaviour reads a whole text |
| `ReadingProperties` | | what is proved of both: where tokens are, what they span and hold, how calls nest, how deep a token stands |
| `SyntaxProperties` | | references for the tree: a grammar of tokens as sets of readings |
| `Lexer_proofs`, `Tokens_proofs`, `Parser_proofs` | | theorems |
| `Texts` | `trim`, `find`, `split` of Rust's `str`, as the readers use them | texts as sequences of characters |
| `Decimal` | `units/decimal.rs` | the product of a decimal and a factor, a step per limb |
| `Units` | `units.rs`, `whole_float_to_i64` | the readers of a scalar; EXTENDS `Decimal` and starts a product where the code does |
| `UnitProperties` | | reference: a quantity as every way to cut its text |
| `Decimal_proofs`, `Units_proofs` | | theorems |
| `Mounts` | `adapters/env.rs`, `properties.rs`, the paths of `config.rs` | names and lines to a tree, an entry, line, name or pair at a time |
| `Json5` | `adapters/json5.rs`, `jsonc.rs` | characters to a tree, a value, an item or a separator per step, with line and column; the two passes that make JSON of a JSONC text |
| `Yaml` | `adapters/yaml.rs` | the conversion of decoded documents: keys, merges, lists |
| `Readers` | `config.rs`, `numeric_array.rs` | composition: a source is mounted or parsed and one getter asked of it |
| `FormatProperties` | | references of the formats: a grammar of JSON5, the tokens of JSONC, the entries a YAML mapping stands for |
| `Decoder` | `serde.rs`, `serde/unit_helpers.rs`, `get_as` | composition with `Readers` and `Units`: a node decoded into a type, a call of an access or of a helper per step |
| `DecoderProperties` | | reference: the places that fail, and what a node is as a value of a type |
| `Renderer` | `render_hocon.rs`, `from_map` of `value_factory.rs` | a tree to text; composed with `Lexer` and `Parser`, which read the text back |
| `ReaderProperties` | | references: one-pass readers of lines and paths; properties |
| `MCResolver`, `MCConfig`, `MCPriorChain`, `MCBuilderChain`, `MCLoader`, `MCText`, `MCReaders` | | instances for TLC; `MCBuilderChain` shows that `StructureBuilder` implements `PriorChain` |

A module has a few definitions that its comments call *variants*: a mapped
definition with a plausible bug (a dropped guard, an off-by-one). They are in no
specification; each property is run once against one of them and has to fail.

So there are three chains of implementation, components that are compared with a
reference of their own, and one that is compared with its inverse:

    StructureBuilder + SubstitutionResolver  =  HoconSemantics       (Faithful, by TLC)
    ConfigLifecycle                          =  HoconSemantics       (ChainFaithful, by TLC)
    StructureBuilder  =>  PriorChain  =>  ValueHistory               (TLC, then TLAPS)
    IncludeLoader  =  Expand                                         (TLC and TLAPS)
    Lexer  =  HasShape, Reads,   Parser  =  Readings,
    Decimal  =  Exactly,   Units  =  Worth                           (TLC and TLAPS)
    Mounts + getters  =  the one-pass readers,
    Json5  =  Denotes,   JSONC  =  the same tokens,   Yaml  =  Stands,
    Decoder  =  Faults, IsWorth                                      (by TLC)
    Parser(Lexer(RenderHocon(tree)))  =  tree                        (RoundTrips, by TLC)

### State and actions of `Resolver`

`doc` is the list of root fields written so far and `tree` is the `ResObj` the
builder has made of them. `Write(f)` is one turn of the loop in
`StructureBuilder::build`: it applies a whole field, with everything below it.
`EndBuild` is the return of `build_tree`. `ResolveNext` and `ResolveFails` are one
turn of the loop of `resolve_res_obj` on the root: the field, its prior, the
cache writes. `visited`, `result` and `cache` are the loop position, the map
under construction and `SubstitutionResolver::cache`. A behaviour is thus a
document chosen field by field and then its resolution; since every prefix of a
document is also a document, TLC checks every document up to the bound.

The methods of the resolver call one another recursively and are operators, not
actions: between two calls of one method nothing else can run. What the methods
mutate is explicit: the cache is an argument and part of each answer, and `ctx`
carries what a call restores before it returns (`resolving_field_path`,
`resolving`, `resolving_prefix_priors`). A call depth above `MaxDepth` answers
`overflow`, which stands for the stack overflow of the program.

Abstractions: a scalar is a sequence of opaque tokens, a path is a sequence of
segments (the quoting of `segments_to_key` makes the two interchangeable), source
positions and error texts are left out, a placeholder keeps the path it stands
for. Two equal objects whose fields are in different order are not told apart in
the result; inside the tree the order is kept, because phase 2 follows it.

### State and actions of `ConfigLifecycle`

`config` has the three fields of `Config` that decide its answers: the root that
callers read, the flag `resolved`, and `unresolved_tree`. `doc` is a history
variable: the document one would write instead of the calls, so that the
reference can say what the configuration is worth. The actions are the calls:
`AddFallback` and `BecomeFallback` are `with_fallback` from its two sides,
`ResolveNow` is `resolve`, `ResolveFrom` is `resolve_with`, `Descend` is
`get_config`; the initial state is a deferred or a fused parse, and the operands
are such parses too. A call that fails leaves the caller with what it had, so it
is no step. `MaxCalls` bounds the chain.

`with_fallback` puts the document of the fallback before the document of the
receiver. A resolution that is complete replaces the document by the values it
gave; one that leaves a placeholder changes nothing, and `resolve_with` that
leaves one puts the values of the source before the document. Two calls
drop a part of the document and set `lossy`: a fallback with saved priors of its
own (of two priors for a key one is kept), and the descent into an object that
holds placeholders (a sub-configuration has no tree and counts as resolved).

A placeholder keeps the segments of its path. The code joins them with dots and
splits them again, which differs for a segment that contains a dot.

### The reference: `HoconSemantics`

A document is flattened to *layers*, the assignments to leaf paths in the order
of the text with includes inlined. The value of a path is read backwards from the
last layer; undefined layers are transparent, objects merge, anything else hides
what is below. A substitution whose target is its own path, an object around it,
or a path below it sees the layers before that target began; any other sees all
layers. There are no priors, no cache, no folding. The operators for joining a
concatenation and for merging two finished objects are shared with the resolver
(`ResolveEach`, `Join`, `DeepMergeHocon`), as they are not what the reference is there to check.

### `PriorChain` and `ValueHistory`

`PriorChain` keeps the fields, the one prior and the reset mark of every key of
one object, and reduces a value to what the bookkeeping looks at: the set of its
atoms (literals and foreign substitutions) and the kinds of its references to its
own key. `Assign` is the normal assignment (and, with an optional reference,
`+=`); `Merge` is the merge of the object of an included file. `ValueHistory`
says the same with no prior at all: a key has the set of all atoms its value is
made of. `KeepsHistory` states the refinement action by action, since an abstract
assignment of the same atoms could otherwise pass for any step.

A required self-reference with nothing below it is not saved by the code
(`fold_self_ref.rs:373`); `ValueHistory` records it as `dangling`. That this loses
a layer when the file is included is one of the findings.

### State and actions of `IncludeLoader`

`stack` is the call stack of the loader: a `doc` frame is the build of one source
(`StructureBuilder::build` with its directives still to do), a `probe` frame one
directive with its candidates still to try (`load_include`). `Descend` and
`BeginPackage` push a document whose `chain` is that of its caller and the new
name, as the code clones and extends `include_stack`; `Reject` is a failure of
`load_single_include`, `Judge` the second look at the disk (`include_loader.rs:71`)
that tells a missing file from a broken one; `EndProbe` and `EndDoc` are returns.
`Touch` is somebody else who writes a file between two steps: the program has no
thread, but the disk is shared. A source contributes its name, so the answer is
the order of precedence; what merging does with it is `ObjectMerge`'s concern.

A circle is detected by the path **as written** (`include_loader.rs:99`). A file
reached under a path that goes up has a new name each turn (`d/../d/..`), and the
circle ends only when the path is too long to open (`Locate`, cut by `MaxPath`):
`Ends` holds all the same, `Faithful` asks for the error only where no path goes up
and no file is a link to another (`Plain`).

The reference of `Faithful` is `Expand`: what a source brings in where the sources
inside it are those of the level below, and a source inside one of its own name is a
circle. It knows no stack, no spelling of a path, no rejection before a look at the disk.

### State and actions of `Lexer` and `Parser`

A text is a sequence of characters; the words `include`, `required`, `file` and
`package` are one character each, because no code looks inside them. `LexStep` is
one turn of the loop of `tokenize` or of `parse_subst_body`, `ParseStep` one turn
of the loops of `parse_object`, `parse_key`, `parse_value` and `parse_array`, whose
calls are frames of `stack`. `Enter` and `Leave` are those of `depth.rs`, in the
places the code has them. An include directive is read in one step: it calls
nothing. Every step is deterministic; what varies is the text.

The references look at a text from outside. `HasShape(t)` says what may stand
between two positions for a token of a kind, `Reads(n)` what it then holds, `Readings(j)` is the set of all trees
that a grammar, written as sets of readings over every way to cut the tokens,
gives the first `j` tokens. `ReadAsWritten` asks that this set is the tree the
parser made, and empty when it failed: ambiguity of the grammar, a field that is
eaten and a document that is refused for no reason all violate it.

`Renderer` is a text that `text` reads like any other: `Rendered` is what
`render_hocon` emits for a tree, `Emitted` the set of these texts, and `RoundTrips`
asks at the end of `Parser` for the tree that was emitted. Its trees come from
`from_map`, with the depth limit where the code has it. The list of the emitter
(`IsSafeBareString`, `RenderKey`, `QuoteString`) and the readings of the text
(`Lexer`, `Parser`) are translated from different files, so that the run compares the two.

### State and actions of `Readers`

`source` is what is mounted: entries of an environment, lines of a file, or a
finished tree. `TakeEntry`, `TakeLine` and `TakeProperty` are turns of the loops
that collect names and values (a logical line of a Properties file is one turn),
`MapName` is a turn of the loop that maps sorted names to paths and finds
collisions, `NestPair` a turn of the one that nests them. `Ask` is one getter: it
splits the path, finds the node and answers, or starts a reader of `Units`;
`Start`, `Proceed` and `Finish` are the reader before, during and after the
product, which `Decimal` computes a limb at a time.

A JSON5 text is read by `ScanJson5`: `ReadValue`, `ReadItem` and `ReadSeparator` are
the turns of `parse_value`, `parse_object` and `parse_array`, whose calls are the
records of `open`; `cursor` is the position with line and column. Strings, names and numbers are
operators, because the loops of the code that read them call nothing else.
`CleanJsonc` is the whole of `strip_comments` and `strip_trailing_commas`, and
`ConvertYaml` the conversion of what the YAML parser decoded: both are pure
functions of the code. What `serde_json` and `yaml-rust2` make of a text is theirs.

`Decoder` adds `calls`, the accesses and helpers that a `Deserialize` has in
progress, and `returned`, what the last of them gave. A type is a record that says
which method of the deserializer it calls, as derived code does. `NextElement` and
`NextField` are the calls of the two sequence and the two map accesses, `owned`
telling which deserializer the values go through; `Receive` takes a value, or puts
a place in front of the path of an error; `AskUnit` and `AnswerUnit` are
`deserialize_unit` before and after the reader of the unit. A tree has no order of
fields, so any field may come next: of several errors any may be reported.

Texts are written in a small alphabet with every mark of their grammar. Factors
and ranges are scaled down with their relations kept: a limb of two digits, a word
of 14 bits, a signed range half as large, a second of 100 nanoseconds, one unit per
factor; the ranges of `i64`, `u64` and `i128` keep their order and their asymmetry.
`Texts` has one blank for all white space.

## Runs

A *family* of fields is the alphabet of a document; a run builds every document
of each of its families, up to a number of root fields (`UpTo` in `MCResolver`).
That number is three, and four for the families `NestedFields` and `ChainFields`
and for `buried` and `two_step`. Three assignments are the smallest number at which the
one prior is overwritten and at which a prior is folded against a prior; with four,
a folded prior is itself folded into another. A file counts as one field but brings
up to three assignments, so `documents` reaches longer chains. Call depth is cut at
20, which no document of the passing runs reaches. `lifecycle` makes every chain of
three calls: the composition barrier needs two (a value over an object, then an
object over that), and the third completes or resolves what they left.

`loader` has five files in two directories, every disk they can make, and paths of
at most three components: two are enough to leave a directory and come back, and
the third makes the second turn of a growing circle visible. `text` reads every
sequence of up to three to five pieces over sixteen alphabets, one per part of the
grammar, with `MaxDepth = 3`, so that the limit is met and passed. `readers` mounts
environments of up to three names, files of up to four lines, every text of up to
three characters as a quantity, and numbers next to every limit; JSON5 and JSONC
texts have up to four characters inside each of their constructs, with `MaxDepth = 3`
met and passed, a largest integer of 1023 and the finite floats
cut to a few exponents (`FloatPoints`); YAML mappings up to three entries.
`get_as` decodes arrays and objects nested up to three deep into types as deep:
two accesses inside each other are the least at which a path is joined from both kinds of places.
About 500 rendered trees, nested up to four deep, are among the texts of `text`.

Runs have `CHECK_DEADLOCK FALSE` because a load, a resolution and a chain of calls end.

| Run | Families | Question | Result |
|---|---|---|---|
| `documents` | `LookbackFields`, `RequiredFields`, `IncludeFields`, `MountFields`, `EnvFields`, `NestedFields`, `ChainFields`, `ObjectFields`, `DeferredFields` | two keys that look back at themselves and each other, `+=`, optional and required; files that append, reset, include, or have two candidates, at the root and below a key; environment variables and lists shadowed by keys; an object assigned, merged and replaced around children that look back, around layers that refer to the object, around substitutions; `allow_unresolved`: meaning, errors, termination, priors, cache, order | holds |
| `prior_chain` | | bookkeeping against history, two keys, two atoms, 12 files; unbounded length | holds |
| `builder_chain` | `FlatFields` | the builder against `PriorChain`; the objects of files satisfy its assumption | holds |
| `lifecycle` | `ChainDocuments`, `ChainSources` | deferred and fused parses, fallbacks on either side, complete and partial resolutions, sources, sub-configurations, three calls: meaning of the chain, role of the source | holds where the premises below do |
| `loader` | `Texts`, `AllDisks` | files that include one another in every way, in circles too, with packages; a file that somebody else writes during the load | holds |
| `text` | 16 alphabets, rendered trees | tokens, positions, depth, tree, keys against paths, what the renderer emits | holds |
| `readers` | environments, `.env`, Properties, JSON5, JSONC, YAML, documents, types | mounting, formats, paths, lists, durations, sizes, periods, integers, decoding | holds |

What the properties say:

- `Faithful` (`ResolverProperties`): a resolution that ends gives the document the
  value of the reference, and one that fails has an error in the reference too; with
  `allow_unresolved`, a result without placeholders is the meaning of the document and
  one with placeholders has none for want of a target. Its premise `NoBuriedLayer` leaves
  out objects with a substitution layer under two later ones, for which `buried` shows
  what happens.
- `PriorsSelfRefFree`: the invariant `fold_self_ref.rs:20-23` claims by induction.
- `Terminates`: no document of the family overflows the stack.
- `CacheStable`: a cached path never changes its value.
- `OrderIndependent`: a field resolved alone, with an empty cache, has its final value.
- `ChainFaithful`: resolving a configuration gives the document that the calls
  stand for its meaning, or fails when it has none. Its premises leave out
  `lossy` chains, and documents in which a root key has a substitution that is not
  the last of at most two assignments (`Straight`): `is_resolved` looks at the root
  and not at the priors under it, so that a substitution below an object is ignored.
- `SourceOnlyAnswers`: `resolve_with(source)` agrees with
  `with_fallback(source).resolve()` wherever the configuration has a key, and has no
  other key.
- `ResetsComplete`: discarding what an including file held, when the included one
  has reset the key, loses nothing the key looks back to.
- `NoRepeat`, `Faithful`, `Ends` (`LoaderProperties`): no source is loaded inside
  itself under one name; a load gives what the sources expand to, in their order, or
  fails as they do, as long as nobody else writes a file; a load ends also when somebody does.
- `Located`: every token is all that can be read at its place, its line and column
  follow from the text before it, and nothing is lost between two of them.
  `TokensDecoded`: each holds what is written there, decoded, and the blanks before
  it; a text is refused only where no token can be read.
- `CallsNest`, `DepthIsNesting`: the depth counter is the number of objects and
  arrays in progress and the nesting of the text, however they are left, up to an
  include directive that hides a bracket (see *Proofs*).
- `ReadAsWritten`: the tree is the only reading of the tokens, and a document is
  refused only when it has none. `SamePath`: a key and a substitution spelled alike
  have one path, but for blanks around periods. `Ends`: reading ends.
- `NeverWraps`, `ProductExact`: no word of the loops over the limbs wraps; the product
  is exact, truncated toward zero, and refused only when no word holds it.
- `ReadsTheText`: a getter answers what the text is worth to it and refuses the rest.
- `MountFaithful`: a mount ends with the tree of its source or the error it has to
  give, whatever the order of the names. It says nothing of a `.env` file whose first
  fault is a value that is only a comment: the documentation calls that an error
  and the code accepts it (see *Findings*).
- `FindsByPath`, `ListsInOrder`: messages show no two paths of a tree alike, whatever
  characters their keys have (`env.rs:268`), and a value is found by the path
  they show unless a key has a control character or a line separator in it
  (`ShownAsIs`); a list has the values of the canonical indices in their order.
- `Json5Faithful`, `CursorLocated`: a JSON5 text gives the tree of the JSON5 1.0.0 grammar or is
  refused, but for texts that are accepted because numbers may begin with a zero
  (`OnlyWithZeros`), of which it says nothing, with the later of two values of a key and objects merged; the position of
  an error follows from the text. `CleanedFaithful`: the passes over JSONC keep every
  token and every line, and drop only comments and trailing commas. `YamlFaithful`: the fields of a mapping win
  over its merges, the first merge over the later ones, whatever the order of the entries.
- `RoundTrips`: a tree that is made of a map and rendered reads back as itself, if it
  is nested no deeper than the limit and has no key with a line end.
- `DecodesTheNode`, `ErrorsNameThePlace`: `get_as` gives the value that the node is as a
  value of the type, whichever deserializer an element goes through, and otherwise an
  error whose path leads to a place that fails.

Left out of `Faithful`: documents that the reference calls circular (the code
breaks some of these cycles by looking back, which no specification settles) and
documents with an undefined layer (`Definite`). The latter are wrong often
enough to be findings of their own.

### Findings

Each of these runs has one property, the statement of a document, comment or test
of the repository; TLC's counterexample is the smallest document given here.
`PROJECT.json` has the quotation and the line of the code.

| Run | Document | The code gives |
|---|---|---|
| `undefined_target` | `a=${?c}, b=${a}` | no error; `b` is dropped |
| `two_step` | `a=${b}, a=${b}, b=${a}, b=${a}` | unbounded recursion, no error |
| `buried` | `a={x=1}, a=${b}, a={z=3}, b={y=2}` | `a.x` is lost |
| `stray_brace` | `a = 1 } b = 2` | `a = 1`; `b = 2` is lost without an error |
| `required_file` | `include required(file("b"))` | an include relative to the including file: the branch for a quoted path comes before the one for `file(` |

Documents met while modelling that go wrong and have no run of their own (adding
them to a family, or dropping a premise of `ChainFaithful`, shows them):

| Document | The code gives |
|---|---|
| `a=1, include f`; f: `a=${?b}` | `{}`; `a=1` is lost |
| `include "d/b"` in `a.conf`, `include "../a"` in `d/b.conf` | no error for the circle, though README.md:536 lists its detection: every turn has a longer path, until the file cannot be opened and is taken for missing |
| `a=${?a}2` with the deferred fallback `a=1, a=2` | `a=12` |
| `a=${b}, c=${d}`, `resolve_with` `b=4`, twice partial | `b=4` is in the result |
| `a.y=${?a.x}, a.x=${?a.x}2` | unbounded recursion; the comment at `substitution_resolver.rs:356` calls it dormant |
| `b=${?a}, a.x=${?a.x}2` | `b.x=22`, `a.x=2`; the child is resolved outside its own path, with a cached look-back |
| `a=1, a=${?b}, a=${?b}` | `{}`; `a=1` is lost, though one `a=${?b}` keeps it |
| `b=${b}, b=${?b}3` | `b=3`; no error for the first field |
| `a=[0], include f`; f: `a=${a}[1], a=${a}[2]` | `[0,2]` |
| `c=${?a.x}, a=${?b}, b={x=6}` | `c` is missing |
| `n=1, n=${?n}6, m={include f}`; f: `c=${n}` | `m.c=166`, `n=16` |
| `a.x+=8, a.x=1` | a type error in the hidden layer |
| `b=${c}, b={x=7}`, `allow_unresolved` | `{x=7}`, reported as resolved |
| `m.a+=2` with the deferred fallback `m.a+=2` | the element of the fallback is lost: the displaced value is folded under `a`, not under `m.a` |
| `a+=3` over `a+=2` over `a+=1`, deferred | an element is lost, however the fallbacks are associated |
| `a={y=${b}}` over (`a=1` over `a={x=6}, b=6`) | `a.x` is merged through `a=1`; the barrier is lost when the right pair is merged first |
| deferred `b={z=3}, a=${b}, a={x=1}` | `is_resolved`, and `a.z` is lost |
| `a={y=${b}}`, `get_config("a")` | `is_resolved`, although it holds a placeholder |

There are five causes. A key keeps one prior, and what is saved second hides an
undefined or unresolved first (`buried`). An assignment that is not a
self-reference counts as a reset even when it is a substitution (the first row of
the table). A value is resolved outside its own field path, so that its
look-back is not recognised (`a.y=${?a.x}` and the row below it). A cycle is broken by looking
back with the mark of the key cleared (`two_step`). And `with_fallback` and
`is_resolved` treat a prior as if nothing but a look-back could reach it
(the second row and the last rows of the table).

Disagreements between texts and their readers, met on the way and harmless enough
to have no run:

- `env.rs:156` says an unquoted value with ` #` in it is an error; `NAME= # note` gives the value
  `# note`, because the blank before the sign has been trimmed (`env.rs:391`).
  `MountFaithful` leaves such a line out (`IsRemark`).
- `value.rs:191` says that an all-zero mantissa is zero whatever the exponent; one
  beyond `i32` is rejected before that. `get_i64` accepts the text `"1.0 "` but not `"1 "`.
- `env.rs:265` says no path parser decodes escapes in a quoted segment;
  `config.rs:613` takes the character behind a backslash as it is. So `\"` and `\\` are read
  back, while `\t`, by which a tab is shown, is read as `t`: such a key is not found by
  the path that is shown for it, as `env.rs:266` warns, and `FindsByPath` asks it only of other keys.
- `depth.rs:41` says that capping the parse bounds the tree; a dotted key builds a
  level per segment. `depth.rs:48` says only the env adapter reads
  `MAX_PATH_SEGMENTS`; `properties.rs` does too.
- A negative size below one byte is zero bytes, a negative duration of any size an error.
- `"a"b = 1` is refused, though S10.8 lets the parts of a key be joined. A key keeps the
  blanks around its periods, the path of a substitution drops them.
- An unquoted word loses a U+0085 at its end: `trim_end` (`lexer.rs:396`) takes it for white
  space, `is_hocon_whitespace` does not. The texts of the model are without that character.
- Blanks on an otherwise empty line reach the whitespace of the next token, contrary
  to the comment at `lexer.rs:70`; nothing depends on it.
- `json5.rs:9` and README.md:735 say JSON5 1.0.0, which has no number with a leading zero;
  `01` is accepted and is 1. `Json5Faithful` leaves such texts out.
  The JSONC passes accept `{,}` and `[,]`.
- `render_hocon.rs:25` promises a round trip. A key with a line end is emitted between
  triple quotes, which the parser refuses for a key. `from_map` (`value_factory.rs:87`,
  "same limit as the parser") accepts an empty array one level below the last the parser
  reads, and a dotted key of more segments than that is emitted as braces it refuses.
- `render_hocon.rs:131` calls the text of a number canonical; `yaml.rs:145` keeps the text
  of a real as it is written, and `+1.5` or `.5`, emitted bare, is no number in HOCON.
- `render_hocon.rs:231` says the parser normalises a carriage return inside triple quotes;
  `lexer.rs` does not. The check for a quote at the end of such a string is not needed:
  the lexer takes the last three quotes of a run.
- `serde.rs:444` refuses byte arrays; the deserializer of list elements forwards them to
  `deserialize_any`, so that a byte array below an object that is read as a list is
  taken from a string. A `u64` above the range of `i64` is read as digits, not as `2e19`-like text.
- In `env.rs` and `properties.rs` sorting the pairs and letting the object win are two
  mechanisms for one purpose: with either alone the tree is the same.

Left out of the texts: `include` directives that the parser accepts although they
are sloppy (a word stuck to a closing parenthesis, one parenthesis too many).

### Fairness

`IncludeLoader` has `WF_vars(Load)` and `Parser` has `WF_vars(Next)`: both are
one thread of a program that goes on while it can, and `Load` is enabled until the
load has an outcome. `Touch`, which is somebody else, has no fairness and is
bounded by `touches`, one write in the run.

The other specifications assume no fairness and state no liveness property. The
resolver may stop after any field of a document; what has to happen eventually is
that the recursion of phase 2 ends, and a recursion inside one step is bounded by
`MaxDepth` and checked as the safety property `Terminates`. The loops of `Mounts`
and `Decimal` run over a sequence that is there at the start, an index at a time.

## Proofs

`PriorChain_proofs` proves, for every set of keys and atoms and every set of
sound sources:

| Theorem | Statement |
|---|---|
| `Invariant` | `Spec => []IInv` |
| `TypeCorrect` | `Spec => []TypeOK` |
| `PriorsAreSelfRefFree` | `Spec => []PriorsSelfRefFree` |
| `ResetsAreClosed` | `Spec => []ResetsComplete` |
| `PriorChainImplementsHistory` | `Spec => KeepsHistory` |

The inductive invariant is `IInv == TypeOK /\ Sound(Current)`, where `Sound` has
three parts. `SelfRefFree`, what `fold_self_ref.rs` claims, is inductive over
assignments but not over merges alone: a merge installs the prior of the source,
which says nothing unless the source is self-reference free too (an assumption
about `Source`) and *anchored*: a prior or a mark without a value would be
installed under a foreign value. `ResetsClosed` is needed for the refinement: a
merge drops the history of the including file for a key that the source has
reset, which is right only if the chain of the source does not reach out of it.

`SourceAssumption` says that the objects of included files are well typed and
sound. It is not an extra hypothesis about the program: those objects are built
by the same actions, so `Invariant` gives it for a file whose own includes are
sound, and the depth of includes is finite (a circular include is an error).
`builder_chain` checks it for the files of its instance. `NoValueAssumption` only
says that `Option::None` is not a value.

The argument of the refinement: `SavedPrior` shows that a saved prior has all the
atoms its key stood for and no live reference, and that nothing is saved exactly
for a dangling key; `AssignRefines` and `MergeRefines` derive from it that each
step does to the set of atoms of each key what `ValueHistory` says;
`MergedPriorFacts` are the cases of a merge.

`IncludeLoader_proofs`, for every set of files and packages, every content and
every change of the disk during the load:

| Theorem | Statement |
|---|---|
| `NeverRepeats` | `Spec => []NoRepeat` |
| `RecursionBounded` | `Spec => []DepthBounded`: no more documents on the stack than names to load, and the top |
| `TypeCorrect` | `Spec => []TypeOK`: among others, an error names a thing that was asked for, and what waits is linked to what it waits for |
| `LoadsFaithfully` | `Spec => []Faithful`: a load that nobody disturbs ends with what the files expand to, error or bindings |

The invariant of the first two says of every frame that its chain has no name twice and that its
height in the stack is at most twice the length of its chain and one; the pigeonhole on the
finite set `Key` bounds the chain.

`LoadsFaithfully` compares three things. `Expand` watches for circles by name; `Blind` is the
same expansion with nobody watching, cut at a depth, and `Limit` what it says at
last, deep enough, of a source. `Limit` satisfies the equations of an expansion without
a depth (`LimitTurns`), because a result that is no circle depends on finitely many levels.
The invariant `Follows` ties the stack to it: what a build has got is what
`Limit` says of the items it has done, a probe likewise of the candidates it has done
(`Framed`), every frame is what the directive below it asks for (`Over`), and every
name on a chain is that of a frame further down; so what a build ends with is what its
source brings in, and an error at the top is the error of every source below (`Blame`). The
two steps that do not look into a file are the hard ones. A path that is on the chain
already (`Circle`): if `Limit` gave anything but a circle for the source further down, it
would do so at some least depth, and going up the stack from there the same
source again would need one less each time (`Needed`). And a path without a file, rejected
first and passed over later (`Judge`), which has to leave no trace.

What is left is that `Expand` and `Limit` agree where the property speaks. Where
`Expand` finds no circle, `Limit` says the same (`ExpandBlind`). Where it finds one, and
paths are plain, so does `Limit` (`PlainCircles`): otherwise some source would be found at a least
depth while it is open (`InsideFound`), but the source of that name further out is
the same one under another path (`Twins`, `TwinsAgree`) and was not found at that depth. This is where
paths that go up and links matter: with them two builds of one file are not the same source.

`FilesAssumption` says that files and names are finitely many, that every disk holds one
of the contents of each file, and that a document counts its touches of the
disk in naturals. `SourcesAssumption` says what the items of sources are: sequences
of bindings, includes and packages; and that the names of packages are apart from those
of files, as the two variants of `IncludeKey` are. The depth of the
levels and the positions in a sequence are inducted over by a set of naturals (`Induct`).

`Lexer_proofs`, for every text and every table of escapes:

| Theorem | Statement |
|---|---|
| `TokensLocated` | `Spec => []Located`: positions, shapes, and what stands between tokens |

The invariant `LexInv` adds the cursor (`CursorAt`), the gap between the last token and
the cursor or the `$` of an open substitution (`GapTo`), and what an open
substitution has read (`SubAt`). Three facts carry the argument: `Moves`, that line
and column of a place are those of an earlier one plus what the text between them
counts; `PushLocates`, that a token with the shape of its kind at the end of a gap
extends `Located`; and `QuotedShape`, that `read_quoted_body` returns at the first
quote after an even number of backslashes. The last is induction over the text:
`QuotedBody` is a recursive function, and the proof takes the last place from which the
result is bad (`Least`) and derives a contradiction from one turn, so that no
induction theorem is needed; that the function exists is proved the same way
(`BodyExists`). `CodePointAssumption` says that an escape has four hexadecimal digits,
which is what the code tests before it looks one up; `TextsAssumption` that texts
are sequences of characters.

`Tokens_proofs`, from the same assumptions:

| Theorem | Statement |
|---|---|
| `TokensRead` | `Spec => []TokensDecoded`: strings decoded, the path of a substitution, the blanks before a token, and no refusal where a token can be read |

The reference looks at a whole stretch of text: the strings it spells (`Fragments`), and the
sets of segments and paths it can be read as (`Segments`, `PathsIn`), by every way to
cut it. The lexer reads once, from the left, and never goes back. The invariant `HoldInv`,
next to `LexInv`, says why that is enough: what has been read is common to all readings of
the text, however it goes on. Its parts are

- `BlanksTo`: the blanks since the last token or line end, none once a comment was read;
- `PathFits`: the readings of `${` up to any later place are the segments already closed
  followed by a reading from where the open segment begins (`FixedAt`), and no closing
  bracket passed so far could have ended the path; the open segment is the text held up to its last
  character that is no blank, the blanks after it being pending (`BegunAt`, `Carries`);
- `AllRead`: every token pushed holds what the reference reads;
- `Hopeless`: after a refusal, no token can be read at the place.

`StringRead` says that `read_quoted_body` returns the characters that the reference decodes, or
refuses exactly where the string spells none. `FragmentsOver` and `QuotedOver` say that a
piece of a path is read in one way, so that `PieceGoes`, `DotGoes` and `BlankGoes` carry `PathFits` over a
turn of `parse_subst_body`. `EndReads` and `ListReads` are for its two ends, `}` and
`[]}`, and `NothingRead` for its refusals. The references are recursive functions;
that they exist is proved as for `BodyExists`.

`Parser_proofs`, for every text and every limit:

| Theorem | Statement |
|---|---|
| `RecursionBounded` | `Spec => []CallsNest` |
| `DepthCounts` | `Spec => []DepthIsNesting` |
| `ReaderTyped` | `Spec => []TypeOK`, of lexer and parser |
| `ParsingEnds` | `Spec => []`(the cursor and the measure stay in range) `/\ Advances`: each step of the parser lowers `Fuel` |

`RecursionBounded`: the invariant adds that a frame has a type and that the top
alternates with the parity of the stack, so that `Enter` adds two to its height
exactly when it adds one to `depth`. The lemmas follow the ways a step changes the
stack (push, replace, receive, enter, leave); each group of actions has one.

`ParsingEnds`: `Fuel` is eight times the tokens ahead of the cursor and the `Rank` of
the call on top, which is less than eight: how far that call is from reading a token
or returning. A step reads a token (a loop turns), begins a call of lower rank
at the same token (a value, which is still to read), or returns from a call that has
read one. The invariant `CursorInv` adds to `CallsInv` that the cursor never passes
the tokens by more than one, which rests on what each way of skipping returns (a
least position, by `WFMin`), and that fields without braces are read for the root
alone: an object that may end without a closing token is the last thing read. So a
text of n tokens is parsed in at most 8 (n + 1) + 7 steps, whatever it is: the part of
the run property `Ends` that needs no fairness. TLC agrees on the texts of `text`.

`DepthCounts`: `Level(n)` counts the brackets before token n. The invariant `NestInv` says that
`depth` is `Level(at)` plus one if the second call is an object without braces (`Bare`);
by `Rooted` no other call is. Each step is one of three: it passes over tokens that are no
brackets (`Plain`) and leaves the calls alone, or begins or leaves the bare object; or
it passes over one bracket and moves `depth` with it. The proof attempt failed at one step
and was right to: `include file(` passes over everything up to the next
string, braces included, although the comment at `parser.rs:935` speaks of unquoted
junk. `include file(a{ "b")` is accepted with a brace that nothing closes; TLC confirms it. So
`DepthIsNesting` speaks of texts up to the first directive that hides a bracket
(`Hides`), the texts of `text` have two of these, and the reference for
directives (`OfFile`) lets them through. `IncludePlain` proves that no other form
of a directive passes over a bracket.

`ReaderTyped` combines `LexInv`, `CursorInv` and `NestInv`; that no call is left when
the tree is done rests on the parity of the stack.

`Decimal_proofs`, for every limb size, every word size, every set of factors, every
number and every exponent:

| Theorem | Statement |
|---|---|
| `WordsSuffice` | `ProductSpec => []NeverWraps` |
| `ProductsExact` | `ProductSpec => []ProductExact`: the product, truncated toward zero, or a refusal exactly when no word holds it |

`WordsSuffice`: the invariant `IInv` bounds what each loop carries: below the
multiplier while scaling, below the divisor while dividing, below the base while
packing. With nine digits and 128 bits, `WordAssumption` asks that a factor times a
billion fits in a word, which the largest unit (a yobibyte, 2^80) does.

`ProductsExact`: the invariant `Exact` says what each loop has computed so far. While
gathering, the digits still left, the limb being gathered and the limbs pushed are together the
mantissa. While multiplying, the limbs below `at` are multiplied, those above are not,
and the carry stands between them. While dividing, the limbs not yet divided, the
remainder and the quotient so far are together the dividend, and to drop
limbs first and divide the rest gives the same as one division. While packing, the
word and the limbs below it are the truncated product. Two lemmas are about refusals:
`RefusedIsBeyond`, that the guard on 40 digits (`decimal.rs:94`) refuses nothing that
fits, because a number without a leading zero is at least a power of ten
(`MantissaGrows`), and `PackLimbExact`, that the check of the last loop stops only at
what no word holds. `DigitsAssumption` asks for the first that ten to the `MaxDigits`
is beyond a word, as 10^40 is beyond 2^128. `Numbers` has no digits with a zero in
front, which `Decimal::parse` strips. The values of digits, powers and limbs are recursive
functions; their facts are induction over data, done by a set of naturals (`Induct`:
what holds zero and the next of each element holds all), since an induction theorem
that takes an operator is beyond the provers. TLC checked `Exact` on
the instance of `readers` before it was proved, for at most four limbs and exponents from -6 up.

`Units_proofs`, for every text, every type of scalar, every reader, every width of a word and of a
limb and every set of factors:

| Theorem | Statement |
|---|---|
| `ReaderInvariant` | `UnitsSpec => []ReaderInv` |
| `TextsRead` | `UnitsSpec => []ReadsTheText`: an answer is what the text is worth, a refusal means it is worth nothing |
| `ReadersNeverWrap` | `UnitsSpec => []NeverWraps` |

`UnitsSpec` reads scalars one after the other: a text is asked for, read, multiplied, answered and
forgotten, as `DecodeSpec` does it when it decodes a list. `Worth` weighs every way to cut a
text into sign, digits, point, digits, exponent and unit; the code takes one, from
the left or from the right. `ReaderInv` adds to the invariants of the arithmetic (`IInv`,
`Exact`) that, while the loops run, the text is worth what the product of the
number and the factor they were given will be (`Computes`). So four things are to be shown before it:

- What the searches and `trim` give (`FindIs` to `AroundTrim`). Letters, digits and
  signs are strings, which no prover here knows more of than that they differ.
- That a text has one place for its sign, its point and its `e` at most (`MarksExist`,
  `CutsAre`), so that it spells one number or none (`SpellsAre`), and that the number
  `Decimal::parse` makes of it gives the same product (`NumberIs`): stripping zeros moves
  them into the exponent (`ExactlyShift`), and an exponent that saturates is so far
  out that it was zero or beyond a word before (`ExactlySaturated`).
- That one cut into number and unit counts. `split_number_unit` cuts in front of the last
  letters (`SplitIs`); no number ends with a letter (`DecimalEnds`), so no other cut spells a
  number and a unit. A period is cut from the left, at the first letter or
  blank, and nothing else is an integer and a unit (`ShapePeriod`).
- What each reader makes of its cut: durations and sizes ask for the product of the reference
  or refuse what is worth nothing (`DurationStarts`, `BytesStarts`) and range-check it rightly
  (`DurationFinishes`, `BytesFinishes`); a period, whose count stops growing
  past its limit, is refused exactly if it does not fit (`PeriodReads`); an integer in any notation is
  shifted, never rounded (`IntegerReads`).

`UnitsAssumption` says that the units are among the factors, that a second is positive,
and how the limits of the integers compare: `i64` below `u64`, `u64` within `i128`, and an
`i64` within the digits `whole_float_to_i64` looks at. `RawText` leaves out texts
as long as `EXP_LIMIT` (2^61), as the comment at `decimal.rs:23` does; all texts of
`readers` are within it. The words, limbs and digits are assumed as for `Decimal_proofs`.

Only model-checked: everything about the full value trees (`Faithful`,
`ChainFaithful`, `Terminates`, the cache), because they are recursive data and
their operators are RECURSIVE; the step from `StructureBuilder` to `PriorChain`;
which tree the parser makes, and what the mounts, the formats, the renderer and the bridge
make of a text or a tree, because their references are recursive or folds over it;
and `Ends`, which is liveness (`ParsingEnds` is the safety part of it for the parser).

## Plan

Done: the resolver, `Config`, the include loader, lexer and parser, units,
environment and properties, numeric keys, JSON5, JSONC and YAML, the renderer, the
serde bridge. What is left, in this order:

1. The theorem of the composition barrier: a bookkeeping model of
   `merge_unresolved`, like `PriorChain` for the builder, in which a chain of
   fallbacks never merges objects across a value, for every length of the chain.
2. `deserialize_any` and what buffers through it (`flatten`, untagged enums), with the
   spelling of floats as data.
3. Nested look-backs across `with_fallback` in `lifecycle`.

## Not modelled

What other crates decode (`serde_json`, `toml`, `yaml-rust2`) is theirs: of JSONC
the passes before it are modelled, of YAML the conversion after it. The conversions
of JSON and TOML trees keep their shape and are left out, and so is reading a file.
Of the serde bridge, floats, byte arrays and `deserialize_any` are left out, and with
it every type that takes whatever is there and every buffered form; `from_str` and
`from_file` parse and then decode. `get_f64` and `get_bool` are left out: a binary
float has no counterpart in the model, and a bool is a word in a list. Error messages are left
out but for the place they name; origins are left out everywhere.
