# cecil-rs, verified in TLA+

cecil-rs is a Rust rewrite of Mono.Cecil: it reads a .NET assembly into an
object model, lets a program edit the model, and writes the assembly back.
This directory models the parts of it whose correctness depends on long
sequences of operations rather than on one function: TLC checks the models on
small instances, TLAPS proves the main safety theorems for every instance.

## 1. Inventory

| Component | State | Operations | What is hard |
|---|---|---|---|
| Object model (`module_def.rs`, `model/types.rs`, `model/removal.rs`) | six arenas of definitions; a handle is an index; member lists and back pointers; debug info keyed by rid; native RVAs keyed by handle | `add_*`, public fields, `remove_*` | a removal renumbers everything: one forgotten slot names the wrong definition much later |
| Assembly facade (`assembly.rs`) | main module, entry point handle, assembly attributes, deferred bodies | read, write, `remove_*`, `load_bodies`, symbols | facade state must follow the module's renumbering; bodies loaded after edits |
| Body editing (`edit.rs`) | instruction list with absolute offsets, branch targets and exception clauses as offsets | insert, replace, remove, clear, macro passes, `renumber`, `BodyLayout` | every edit moves every offset; targets and clauses must follow |
| Body emission (`write/emit_il.rs`, `cecil-cil`) | none | encode header, operands, exception sections | short branches and short clauses overflow at boundaries; clause order |
| Flow analysis (`flow.rs`) | blocks, edges, dominators, loops | build, `immediate_dominators`, `recompute_max_stack` | fixpoints over irreducible graphs and handlers |
| WinRT projections (`winrt.rs`) | a process-global table of undo records | apply, remove | check-then-act across a lock, partial failure, exact undo |
| Reader (`read/`) | budgets, remembered rows, diagnostics | resolve rows, bodies, signatures | cyclic tables, recovery from malformed rows |
| Writer (`write/`) | token maps, table builders, heaps | assign tokens, emit rows | sorted tables, contiguous member ranges, index widths |
| Resolution (`resolution.rs`, `resolver.rs`) | cache of loaded assemblies | resolve type, method, field | forwarder chains and cycles, cache identity |
| Importer, type parser | scope caches | import, parse | generic context |
| Mixed mode (`mixed_mode.rs`, `mixed_metadata.rs`) | snapshot of the original image | compare, append | deciding that an edit is representable |
| PE container, metadata heaps and tables | section list, heaps, row counts | layout, intern | RVA arithmetic, 2/4-byte index switch |
| Symbols (`cecil-pdb`, `cecil-mdb`) | documents, sequence points, MSF blocks | read, write | delta encodings, block allocation |
| Analyses (`xref`, `callgraph`, `index`, `diff`), rocks, CLI | none | queries | none that interleave |

The program is sequential except for the WinRT table, which is a process-global
mutex-protected map, and `OnceLock` caches. Components interact by calls on one
`Module` value: the reader fills it, the caller and the editors change it, the
writer consumes it; nothing notifies anything, so every table outside the
arenas (entry point, debug rids, native RVAs, deferred bodies, undo records)
can go stale when the arenas are renumbered.

What makes each component correct: handles denote the same definition as long
as it exists (object model, facade); a branch or clause denotes the same
instructions as long as they exist (body editing); an emitted body decodes to
what was emitted (emission); removal of projections is the inverse of applying
them (WinRT); analyses agree with their graph-theoretic definitions (flow);
reading what was written gives the model back (reader, writer, symbols);
resolution terminates and is stable (resolution).

## 2. Modules and how they correspond to the code

| Module | Models | Role |
|---|---|---|
| `MetadataRoles` | `model/types.rs` | the slots that hold handles, which arena each indexes, what removal does to it |
| `ArenaModel` | `module_def.rs`, `model/removal.rs`, the removal facade of `assembly.rs` | arenas, additions, caller edits, removals, fixups |
| `ObjectModel` | the same, without handles | abstract specification |
| `ArenaRefinement` | | `ArenaModel` implements `ObjectModel` |
| `ArenaModelProofs`, `ArenaOwnershipProofs` | | theorems about `ArenaModel` |
| `ArenaRefinementProofs` | | theorem that the refinement holds |
| `BodyEdit` | `edit.rs` | `BodyEditor`, `BodyLayout`, `renumber`, the macro passes |
| `ILProcessor` | the same, without byte offsets | abstract specification |
| `BodyEditRefinement` | | `BodyEdit` implements `ILProcessor` |
| `BodyEditProofs` | | theorems about `BodyEdit` |
| `BodyEditRefinementProofs` | | theorem that the refinement holds |
| `WinRtProjections` | `winrt.rs` | the passes of apply and remove, the shared store, two threads |
| `WinRtProofs`, `WinRtRestoreProofs` | | theorems about `WinRtProjections` |
| `Resolution` | `resolution.rs`, `resolver.rs` | engine, cache, location by version, walks up the bases |
| `ResolutionAnswers` | | what the engine should answer, said of the files alone |
| `ResolutionProofs` | | theorems about `Resolution` |
| `Flow` | `flow.rs` | blocks, dominators, loops, stack depths |
| `MetadataRows` | tables shared by reader and writer | vocabulary |
| `ModuleReader` | `read/module_reader.rs` | rows into arenas, strictly or tolerantly |
| `TableEmission` | `write/definition_rows.rs`, `write/emit_metadata.rs` | arenas into rows, the token map of a save |
| `MetadataRoundTrip` | | composes reader, edits and writer |
| `Workbench` and the modules below | | parts that share no state, one at work in a behaviour |
| `References` | `read/context.rs`, `write/token_map.rs` | TypeRef, TypeSpec, MemberRef, MethodSpec rows to descriptors and back |
| `Signatures` | `model/signature.rs` | signature blobs |
| `IlBodies` | `read/instructions.rs`, `write/emit_il.rs`, `cecil-cil` | bodies from RVAs and back into the code stream |
| `Analyses` | `xref.rs`, `callgraph.rs`, `diff.rs` | the index of uses, members no code reaches; Tarjan's algorithm, a step per turn of its loop; differences of two assemblies, rosters aligned by key |
| `TypeNames` | `type_parser.rs`, `importer.rs`, `model/substitution.rs` | names of types, parsed and written; references of one module made valid in another |
| `Attributes` | `model/custom_attribute.rs` | attribute blobs of both forms |
| `Marshalling` | `model/marshal.rs`, `cecil-core/io.rs` | native types, compressed integers |
| `PermissionSets` | `model/security.rs` | permission sets, binary and XML |
| `MsfFiles` | `native/msf.rs`, `native/msf_writer.rs` | pages, bitmaps, directory |
| `CodeViewSymbols` | `native/details.rs`, `native/codeview_writer.rs` | scopes, lines, checksums, publics |
| `NativePdbFiles` | `native/symbols.rs`, `native/writer.rs` | a native PDB over an existing one |
| `MdbFiles` | `cecil-mdb`, its use in `assembly.rs` | the line machine, files of Mono symbols |
| `PortablePdbFiles` | `portable_reader.rs`, `portable_writer.rs` | sequence points, scopes sorted at the end |
| `ModuleSymbols` | `assembly.rs`, `native_symbols.rs` | which symbols are found, built and saved, and in which order; extends the three formats |
| `MetadataFiles` | `cecil-metadata` | heaps, index widths, `#Pdb`, both readers, the budget |
| `ImageFiles` | `cecil-pe`, its use in `assembly.rs`, `native_symbols.rs` | text layout, sections, resources, debug directory, appended sections |
| `MC...` | | inputs and bounds for TLC |

`PROJECT.json` maps definitions to the lines they stand for; a helper whose lines lie within those of the operation it serves
has no entry of its own.

### The object model

`arena[k]` is the `Vec` of the definitions of kind `k`, a handle is a zero-based
index, as in the code. A definition is its identity and the set of its handle
slots; a slot is a role (the field it stands for) and the handles in it.
`MetadataRoles` says of every role which arena it indexes and what `compact`
does when the target is removed: the slot is dropped, becomes a sentinel
(operands), is left alone (`declaring_type` of a method), or is not visited
at all (local variables). The attributes of the module itself (`Module.custom_attributes`, `module_def.rs:28`)
are no slot of the model (section 6). Slots and member lists are sets because no operation
depends on their order.

One action per operation: `AddType`, `AddMethod`, `AddMember`,
`AddGenericParameter` are the `add_*` of `module_def.rs`; `RemoveType`,
`RemoveMethod`, `RemoveMember` are the `AssemblyDefinition::remove_*`: detach
from the owner's list, collect what goes with it, build the maps, compact and
remap every arena, remap the debug records, then fix the entry point and the
assembly attributes up. All of that is one action, as it is one call. `AuthorRef`,
`SetEntryPoint`, `AddAssemblyAttribute`, `RecordDebug` and `RecordNative` are
the caller writing public fields; the targets it writes are live when it
writes them, and owners passed to `add_*` exist (`add_type` is also called
with a parent that does not, which it drops). Identities are a device of the
properties: no guard reads them but `Fresh`, which picks an unused one.

`ObjectModel` is the same program as a graph of objects: removal deletes the
owned subtree and every slot that named a deleted object follows the rule of
its role. `ArenaRefinement` reads each handle as the object at that index.

### Body editing

`code` is `ResolvedBody.instructions`, `eh` its exception clauses, `layout` a
`BodyLayout` the caller holds, `rewritten` the instructions it changed in
place since. Opcodes stand for their encoded length and their
role in the passes: `block` is straight-line code as long as `BlockSize`, so that
two instructions reach the limit of a short branch. Branch targets,
clause starts and lengths are byte offsets, as in the code.

`InsertAtIndex`, `Replace`, `RemoveRange`, `Clear` are the mutations of
`BodyEditor` (the emit helpers are appends); `Capture`, `Remap` and `Renumber`
are `BodyLayout` and `renumber`; `SimplifyMacros`, `OptimizeMacros`,
`Optimize` the passes, including the Fenwick tree of sizes and the narrowing of
64-bit loads. A failing `capture` or `remap` changes nothing and is no step.
`AuthorBody`, `AddClause`, `DropClauses` and `Rewrite` are the caller writing
public fields. The caller keeps to what the documentation asks: edits start from
a consistent body, a layout is captured before the first rewrite it is to cover,
and `renumber` is not called after the final opcode changed.

`ILProcessor` is Cecil's editor: branches name instructions and clauses cover
runs of instructions. `BodyEditRefinement` reads each offset as the
instruction that starts there.

### WinRT projections

A module is a record of lists (references, types, members, attributes, assembly
references); every pass of `apply_projections` and `remove_projections` is an action of the
thread that runs it, the store is one map from guid to record, and looking into it and
inserting into it are separate steps because the code takes the lock twice. The pass over the
types takes a step per type, and for a class that implements projected interfaces a step per interface
of the closure (`CollectInterface`, which also builds the methods to be added), per pair of interfaces
(`RewirePair`) and one that appends what was built. Removal mirrors it: `RestoreType`, `UnwirePair` for the pairs
from the last to the first, `TypeRestored`. The record under construction and the store are maps with an entry
for the threads and guids that have one. An attribute blob that the last pass cannot parse makes a call fail there, with the edits of the passes
before it in place. `Reread` is a program that throws its module away and reads the file again,
`Repair` one that corrects the blob.

### Resolution

A question is asked, then `Work` takes one step of it at a time: a scope is resolved, an
assembly loaded through the cache, a base visited. The files on disk change between
questions. The cached candidate that an answer comes from is the one that no other can take over
from (`Withstands`); TLC checks that it is the one the pass over the cache in the source ends with
(`PassAssumption` of `MCResolution`). `AnswersAreDenoted` compares each answer with a definition of what the
reference means that has no cache and no engine (`ResolutionAnswers`): the type a module defines, or the one its
forwarders lead to. The engine reads no forwarder, so for a reference that only a forwarder leads on
(`ThroughForwarder`) it may answer that there is none, and the property says so; another type it may not answer.

### Flow

One action per turn of the loops of `flow.rs`: sweeps over reverse postorder, the worklist
of stack depths. The reference definitions speak of paths of instructions and never of blocks:
a block dominates another when removing it cuts every path.

### Reading and writing tables

`ModuleReader` reads a record of tables; `Read` is strict or tolerant. `TableEmission`
gives every definition its row in the order of owner lists. `MetadataRoundTrip` takes one of a family
of files (member runs, nesting tables and side tables, well formed and damaged), reads it, applies
one edit, writes it, reads it back, and writes again. A `View` is what a module says
apart from where its arenas keep it.

### The workbench

Each part has its input as `state` and one action per call of the API, or per turn of a loop when the
order of turns matters (`References` asks rows in any order; `Analyses` steps through Tarjan's
frames; `NativePdbFiles` and `ModuleSymbols` edit and save several times). Bytes are cells: a
cell is the smallest unit the properties tell apart, and constants stand for the numbers
a format allows (`IndexLimit` for 65535, `PageCells` for the size of a page). A codec is written
twice, once as the reader and once as the writer, from the two functions of the source,
so a property that one inverts the other compares two translations.

The conjunctions checked are one per concern:

| Property | Conjuncts (module) |
|---|---|
| `ReferencesKept` | `ReferencesDenoted`, `DegradedKeepsIdentity`, `MarkersKept` (`References`): an answer is what the row denotes, in any order of questions; an answer cut short is given only to rows on the way of a chain that is too deep, and to rows nested in those |
| `TokensKept` | `TokensReadBack`, `RowsWrittenOnce`, `ReadIsWritable` (`References`) |
| `BodiesKept` | `BodiesFollowRva`, `ReadBodiesAreWritable`, `BodiesReadBack` (`IlBodies`) |
| `BlobsKept` | `SignaturesReadBack`, `SignatureBytesKept`, `ArgumentsKept`, `MarshalKept`, `SecurityKept` |
| `AnalysesExact` | `CallersExact`, `DirectionsMirror`, `DeadExact`, `ComponentsExact`, `DiffMirrors`, `DiffExact` |
| `NamesKept` | `NamesReadBack`, `ImportsKept` (`TypeNames`) |
| `SymbolsKept` | `MsfKept`, `CodeViewKept`, `NativePdbKept`, `MdbKept`, `PortableKept`, `ModuleKept` |
| `ImagesKept` | `MetadataKept` (`MetadataFiles`), `ImageFilesKept` (`ImageFiles`) |

`ImageFiles` lays a file out twice, as the source does: `CodeBase` and `DataBase` are what the facade
tells the metadata before there is any, `EmittedMap` what the PE writer does when all lengths are known;
`PartsFound` says they agree. A file is headers and pieces placed at offsets, so that one part written
over another is seen (`PartsApart`). `Parse`, `Backed` and `Mapped` read by address. `EmitImage`,
`OpenImage` and `RewriteImage` are a module written, read and written again; `AppendSection`,
`AttachEntries` and `PatchImage` the edits that must leave a file of another producer as it is.

Where the source loses something (see section 6), the property states exactly what is kept and
its comment says what is not. A case in which a comment of the source promises more is a named exception of the property, which
then says nothing of it: `Definite` of `MarshalKept` (native types that are written as others are), `TokenReturns` of
`PartsFound` (a token read earlier), `Overloaded` of `CallersExact` and `DeadExact` (a reference that spells a name with several
methods may be missed, but is never counted for a method of another shape; only a method that is `ByItself`, the one of its name, may get
users of another shape), `Unshadowed` of `ModuleKept` (a sidecar in the way of the symbols saved), and `Collides` of
`RemoveRestores` (two references of one identity once projected).

## 3. Runs

| Run | Question | Bounds |
|---|---|---|
| `arena_tree` | do lists and back pointers agree, and is compaction removal from the graph, on nested types? | 3 types, 1 method, 1 generic parameter, 1 authored slot |
| `arena_members` | the same with fields, properties, events, accessors, overrides, operands; do handles stay in range? | 2 types, 2 methods, 1 of each member, 1 authored slot |
| `arena_methods` | do debug records and the entry point stay with their method? | 2 types, 3 methods, 1 record |
| `arena_locals` | the finding: local variables are not remapped | 2 types, 1 method |
| `body_branches` | is branch shortening exact, and are its results encodable? | 5 instructions, 3 branches, blocks of 124 bytes |
| `body_ref_edits` | do branches and clauses follow every edit? | 3 instructions, 1 branch or switch of 2 targets, 1 clause |
| `body_ref_layout` | and when opcodes are rewritten under a layout? | 3 instructions, 1 branch, 1 clause, 1 layout |
| `winrt` | does removal restore the file, in every interleaving of two threads? | 2 calls per thread, guids shared or not |
| `resolution` | are answers what the files say, stable, and given? | 3 questions, 1 change on disk |
| `flow` | are blocks, dominators, loops and depths what paths say? | every flow of four branches; stacks up to 2 |
| `tables_round_trip` | does what is read, edited and written read back? | families of files, 1 edit, nesting limit 3 |
| `workbench` | codecs, indexes and analyses, one at a time | families of inputs in `MCWorkbench` |

Three types allow a chain of nesting with a sibling outside it, which is the
smallest tree where the subtree, the survivors and the shift of their handles
all differ; three methods let a removed one have a neighbour on either side.
Additions after removals are not bounded separately: the arenas are refilled,
so every run contains unbounded histories over bounded arenas. Three
instructions give an edit a before, an inside and an after; 124 + 5 bytes
straddle the 127 and -128 limits of a short branch, and with three branches the
shortening of one decides about the next. `MaxLost` is zero: a
dangling target is a number that drifts with every edit and about
which nothing is promised.

Two calls per thread are an apply and a remove, which is where the check and the insertion of
one meet those of the other; four branches have every irreducible flow of two entries into a
loop; a nesting limit of 3 is crossed by chains of 4. No edge of a nesting table may be cut for nothing: with any one
of those cut put back there is again a cycle or a chain too deep, so a cycle within the limit loses one edge. A module of `resolution` forwards a type that another derives from. In the workbench the inputs of each part
straddle the limits of its format: depths around the limit of nesting, counts around
every size of a compressed integer, streams around the size of a page and of the directory, steps around
the range of a special opcode, heaps and tables about to outgrow their indices; damaged
files beside well formed ones. Inputs are enumerated (all short byte strings over the tags that matter)
where a reader must refuse or accept, and built from values where a writer must.

Deadlock is not checked where a run really ends: an engine that has answered its questions, an
analysis that is done, a file that was read back.

### Fairness

The object model, body editing, the round trip and the workbench state none: each
operation runs to its end and whether a caller ever calls again is its own affair. Three modules
state liveness:

* `Resolution`: `WF_vars(Work)`. A question is one call; its loop is never suspended, so its next
  step is always eventually taken. Asking is not fair. `QuestionsAnswered` excludes cyclic bases.
* `Flow`: `WF_vars(Next)`, written as "always some step changes the state until the analysis ends", which
  is the same because a step is enabled until then, and which TLC evaluates without `ENABLED`.
* `WinRtProjections`: each thread that is in a call keeps taking its steps, written the same way. The lock is held
  within one action, so no thread waits for another and weak fairness is enough.

`arena_locals` shows a violation of a sentence of the sources: `remap_body` never visits local
variables, while `model/removal.rs:7` says that every surviving handle is remapped. It is
why `HandlesInRange` speaks of the slots `compact` visits and of the entry point. Further disagreements
are in section 6.

## 4. Proofs

Each theorem holds for every value of the constants its module declares. The assumptions are the ones
named in the modules: that the bounds are numbers, that the value standing for "none" is no
number, no identity and no definition, that callers author the roles which are neither lists nor back pointers, and that files, references
and questions are records of the stated form. TLC evaluates all of them in the runs.

### The object model

`ArenaModelProofs`, for arenas of any length:

* `TypeCorrect`: `TypeOK` always holds.
* `NoDanglingHandle`: no visited slot and no entry point is ever out of range.
* `DebugInfoFollows`: debug records stay with the method they were made for.
* `EntryPointKept`: no step makes the entry point denote another method except
  the caller setting it.

The inductive invariant is `IInv == TypeOK /\ HandlesInRange /\ MethodsListed /\
DebugFollowsMethod`. `HandlesInRange` alone is not inductive: `compact` leaves
the `declaring_type` of a method as it is when that type is removed, which is
safe only if the method is removed with it; `remove_type` removes the methods
its lists name, so one needs `MethodsListed`: a method is in the list of the type it
points back to. The proof has three layers: `Build` is a monotone bijection
from the kept handles to an initial segment (`BuildIsArenaMap`); compaction with
such maps keeps an arena in range when the removed set is closed as
`CollectTypeRemoval` closes it (`CompactionKeepsArenaOK`, `DetachIsGood`); each
action adds one slot or one definition or is such a removal (`AddSteps`,
`AuthorRefStep`, `RemovalsStep`).

`ArenaOwnershipProofs` proves `OwnershipStaysConsistent`: `OwnershipConsistent` always holds, for any forest of
nested types. A member list and a back pointer are two slots in two
arenas, changed by one call in two places and renumbered by two maps. The inductive
`OwnershipInv` adds what each operation relies on: a back pointer holds at most one handle,
a list entry and the back pointer it answers exist together, and a
definition is listed once. Without the last, detaching the removed definition from *its* owner would leave it in another list.

`ArenaRefinementProofs` proves `ArenasImplementObjects`: `ArenaModel` implements `ObjectModel`, in which there are no
handles to renumber. The invariant `RefinementInv` says that identities are unique and that the owner
a back pointer names is the one that lists the definition. Additions add one object,
an authored slot is one reference, and compaction removes what the removed object owns: the
handles `collect_type_removal` gathers are the least set closed under the lists of nested types and members,
and the objects `Without` deletes are the least set closed under ownership (`ObjectModel!OwnedBy`), so each
contains the other.

### Resolution

`ResolutionProofs`, for any files, references, questions and bounds:

* `ResolutionTypeCorrect`: `TypeOK` always holds.
* `DefinitionsAreOne`: `OneDefinition` always holds: one query is answered with one definition,
  however many assemblies were loaded and whatever changed on disk between the two answers.
* `ResolutionInvariant`: the inductive `ResolutionInv == SpaceOK /\ AnswersOK /\ WalkOK /\ OneDefinition` they rest on.

`OneDefinition` says nothing of a query in progress, so it is not inductive. The cache is searched afresh for each
question, and between two questions it has grown. It grows only by assemblies whose full name is new to it, and a
candidate is chosen by version among those that match: the chosen one does not change once there is one
(`PassHasWinner`, `KnownStays`). An answer is therefore `Given` by the modules read so far and stays so. A walk up the bases
takes many steps; `WalkOK` keeps the earlier answer of the same query `Ahead` of the walk, that is, in every set that holds where the walk is
and with a type also its base. Being in every closed set is what reachability means and needs no induction.

### WinRT projections

`WinRtProofs`, for any number of threads, any modules and any number of calls:

* `TypesSound`: `TypeOK` always holds: no interleaving of passes takes a module apart.
* `ProjectionsAreRecorded`: `RecordsSound` always holds: a projected module has its record in the
  store, the record names every definition that is shown differently from the file, and no record is in two places
  (`RecordsHaveOneOwner`, also for two modules of one guid).
* `RemovalRestoresDefinitions`: applies undone in turn leave the definitions (flags, names and method lists of types,
  flags of methods, fields, blobs) as in the file. Unlike `RemoveRestores` it asks nothing of the references.

The inductive invariant `EditsTraced` says what a record is worth in the middle of a call. `Recorded(now, was, r)`:
definition by definition, what removal would put back is what the file has, be it the recorded value or, where
nothing is recorded, the present one. A module that is being projected satisfies it after every pass, with
the record that only its thread has (`Recording`: how far the passes have come, so that nothing is
recorded twice); a module at rest satisfies it with the record in the store; during removal the types passed are as in the file and the others
`Recorded` (`Restoring`). `EditsAreRecorded` alone is not inductive: it says nothing between two passes, nor that
what is recorded is right. The steps of other threads matter only through the store, and a module whose guid is its
own finds its entry untouched (`Framed`, `OthersTraced`). Each pass has a lemma on what it does to a module
(`...Effect`) and one on what that does to the invariant (`...Traced`). That generated methods can be told from the
file's own needs their handles to be new (`MethodsAdded`), so that taking them out of the list gives back the
list (`AddedTaken`).

`WinRtRestoreProofs` adds the references. `RemovalRestores`: `RemoveRestores` always holds, so a module whose guid is its own and whose references
stay apart is exactly what was read once each apply has been undone. Two things make it more than the theorem on definitions.
Removal does not remember references: it turns each back by looking its identity up in the inverse of the table
(`winrt.rs:815`), which is right only while no two references share one; and removing the redirected interfaces and their methods is
by searching for them pair by pair, from the last to the first. The inductive `ReferencesTraced` says where each reference stands in the middle of a pass:
from the pass over the references until the last pass of the removal a module is `Halfway`, that is, every reference `TurnsBack` through
the record and each list of interfaces is that of the file, projected, with the interfaces of the pairs still `Owed` somewhere
behind it (`Duplicated`); before and after it is `AsRead`. The premise `~Collides` is that of the property (section 6). `FilesAssumption` says of the files that they are records of lists, and
that a type implements only such projected interfaces as the table also renames: the entries that keep their name are structs
(`winrt.rs:1574`). TLC evaluates it in `winrt`.

### Body editing

`BodyEditProofs` proves `BodyTypeCorrect`: `TypeOK` always holds, for bodies of any length and instructions of
any size a caller chooses for a block. It says that an instruction keeps the number of targets its opcode calls for, through
all macro passes, and that a body that is neither fresh nor being rewritten is *placed*: the stored offset of
each instruction is the sum of the encoded sizes before it. Every edit reads stored offsets to find where it takes
place, and `recompute_offsets` writes them last, so one edit that forgot it would shift by the wrong layout the next time.

`TypeOK` is inductive as it stands. The proof goes from the layouts up to the actions. `NewOffsets`, and the passes of `optimize_branches` and
`optimize_longs`, are functions defined by recursion on the naturals. That they exist is proved once (`RunningSums`, `ShortenPass`,
`NarrowPass`), by the least number at which they would not (`LeastNat`); a layout is then the only
sequence that starts at 0 and grows by the size of each instruction (`OffsetsUnique`). Whatever depends on sizes alone
follows by comparing two sequences: two bodies whose instructions have the same sizes have the same layout (`SameLayout`), and a body laid
out is placed (`PlacedIsSnapshot`). `Restore`, the shifts and the passes keep the form of instructions and clauses
(`RestoreType`, `ShiftTargetsType`, `OptimizedType`, `LongsOptimizedType`), and relocation through a snapshot places what it relocates (`RestorePlaces`).

`ShorteningIsExact`: the branches `optimize_branches` shortens with its Fenwick tree of instruction sizes (`edit.rs:776`) are those
that laying out the body again after each branch would shorten. `LowBit[j]` is what `j & -j` yields, and entry `j` of the tree is to hold the sizes of the
instructions `j - LowBit[j] + 1` to `j` (`RangeSums`). Two such ranges are nested or disjoint (`WithinRange`, `BeyondRange`), and the ranges
right below one join up to cover it but for its last instruction (`NextChild`); from this follows that the construction fills the tree (`SizesBuilt`, with
`Building` saying up to where the sums of a range have arrived), that a query adds up ranges without a gap (`QueryAnswers`), and
that the climb of `shrink` meets the ranges with the shrunk instruction in them and no others (`ShrinkCovers`). The two passes then agree turn by turn
(`ShortenExact`, `PassesAgree`).

`ShortBranchesStayShort`: `OptimizedBodyEncodes` always holds. A branch is shortened against the layout of the moment, and later ones still move it
and its target. Every later change makes an instruction smaller, so distances only shrink (`DistancesShrink`) and a displacement moves towards
zero, or for a branch backwards towards -2 (`StillReaches`, `ReachesAfterTurn`); the relocation at the end writes the final layout
into the operands (`OptimizedReaches`). The property asks that targets be instructions of the renumbered body: a
dangling target stays as it is and could come to be as far away as it likes.

A length of a region is an integer and no natural number: `ShiftEhReplace` (`edit.rs:130`) adds a negative delta to
it without a clamp, and clauses that `clear` left behind may come to enclose an instruction that is longer than they are.

`BodyEditRefinementProofs` proves `EditingByReferences`: `Spec => ImplementsILProcessor`, for bodies of any length, clauses of
any shape and edits in any order. Beside `TypeOK` it needs `LayoutInv`: while opcodes are
being rewritten, the layout the caller captured is increasing and has each instruction where its stored offset says, and an
instruction not yet rewritten is as long as the layout leaves room for. Without it an offset would have no reading between `Capture` and
`Remap`, and `TypeOK` says nothing of a body in that phase.

Every operation is read in one way, `Follows(a, b, lo, hi, R)`: of the body read as `a`, the instructions outside `R` and all clauses are those of
`b`, their targets and starts moved by `lo`, their ends by `hi`. That `lo` and `hi` differ is the point of the three shifts of
`edit.rs:104`: a target at the place of an edit and a region that ends there move differently. There is one lemma per
edit (`InsertFollows`, `ReplaceFollows`, `RemovalFollows`), which goes from the new layout (`InsertLayout`, `ReplaceLayout`,
`CloseOffsets`) through the offsets the shift computes to the positions they denote. A relocation is the case where nothing moves (`Keeps`,
`RelocationKeeps`); relocations compose, so `OptimizeMacros` is a relocation, a shortening and another one (`PassesKeep`). `Optimize`
narrows one 64-bit load after another, each putting a conversion after it: `NarrowFollows` is one of them, and
`LongsSplit` composes them along the recursion of `optimize_longs` (`edit.rs:868`), with `SplitOn` saying which loads are
already narrowed and where the others have gone. On the side of `ILProcessor`, `FollowsIsEdit`, `RemovalIsEdit` and `SplitIsNarrowing` show that what follows is
the abstract edit, whose ends of runs are the minimum and maximum of the instructions left in them.

### Only model-checked

Liveness (`QuestionsAnswered`, and those of `Flow` and `WinRtProjections`), because fairness needs `ENABLED`. `AnswersAreDenoted`, whose
right-hand side is recursive, and every property of `Flow`, the round
trip and the workbench: what the codecs and the analyses compute is defined by recursive operators and folds over data, and a proof would be by
induction over data, which the installed provers cannot do with the library's theorems (the recursive functions of
`BodyEdit` are proved about by counting up to the least number that would fail).
Of the projections, `RedirectionComplete` (the closure is a least set computed by a stack).

## 5. Not modelled, and the plan

`PROJECT.json` lists every component with its status. Not modelled:

* Mixed-mode images: a comparison of a snapshot with the edited module, and edits of the
  original file in place. The section that such a write appends is in `ImageFiles`.
* Deferred bodies as a state machine: `load_bodies` has no property because the code does not
  keep bodies with their methods (section 6).
* Decoding of names, versions, constants, text and floating-point numbers; resources; budgets of
  the module reader other than the one of `MetadataFiles`.
* Strong names (cryptography), the tables of opcodes and of projections (data), rocks and the command
  line (wrappers), the index of types by name (a map built once).

In `ImageFiles`: checksums, versions and flags of the headers, strong-name and certificate flags, the refusals
for native payload and impossible alignments. In `ModuleSymbols`: edits of mixed-mode images, IL offsets past 2^31, explicit symbol providers. In
`MetadataFiles`: table stream versions, the extra word, strings that contain a zero character.

Proof to come: the type invariant of `Flow`.

## 6. Known disagreements

What was met while modelling, besides the finding: the code does one thing where a comment, a test
or its other half says another, or loses something that a reader of the API would not expect. The properties are
stated so that they hold of the code; these are the exceptions.

Object model and facade
* An assembly attribute whose constructor was removed may come to name another method (`assembly.rs:472`;
  the comment below it says it is dropped).
* `native_method_rvas` is keyed by arena handle (`module_def.rs:53`) and is not rekeyed by a removal (`model/removal.rs:585`).
* A removal that removes nothing clears the entry point: `ArenaMaps::identity` is read as everything removed (`model/removal.rs:607`).
* `load_bodies` compares arena lengths only (`assembly.rs:285`): after a removal and an addition, bodies go to other methods.
* `encode_body` returns 0 for an empty body so that the caller omits it (`assembly.rs:1360`); the caller does not, and the method gets the position of the next body.
* `add_type` nests beyond the 64 levels that the reader accepts; deeper types are un-nested when read back.
* A removed entry point returns: without a token the PE writer takes the one of the header it was given (`writer.rs:701`), which
  is the one the module was read with (`assembly.rs:1921`), though `assembly.rs:1519` says that it is not used. `PartsFound`
  leaves these files out (`TokenReturns`).
* The attributes of the module itself (`module_def.rs:28`) hold constructor handles that no removal remaps
  (`model/removal.rs:439-588`), against `model/removal.rs:7`. They are not modelled.

Body editing and emission
* `insert_at` never widens a short branch, so an insertion can put its target out of reach and the writer fails;
  `edit.rs:382` says a body remains encodable at any point.
* A replacement by a shorter instruction takes the difference off the length of an enclosing region without a clamp (`edit.rs:130`):
  clauses that outlive `clear` may get a negative length.
* A branch to a removed instruction denotes the one that moves into its place; `edit.rs:19` says the target dangles.
* Clauses are sorted by offsets when written (`emit_il.rs:262`), which can put an enclosing clause before the one it encloses.
* Raw tokens that cannot be resolved keep their number in the file that is written.

WinRT
* `winrt.rs:687` says `remove_projections` reverses exactly. A reference that had the CLR identity in the file beside one
  that was projected to it is turned into the WinRT one (`winrt.rs:815`). `RemoveRestores` leaves such modules out (`Collides`).
* An attribute blob that cannot be parsed fails `apply_projections` after the module was edited (`winrt.rs:681`); nothing undoes it.
  `RemoveRestores` speaks of applies that succeeded.

Reading, writing, resolution
* `find_external_in_module` reads no ExportedType row though `resolution.rs:13` and `resolution.rs:617` say that lookup falls back to them:
  a forwarded type is answered with none (`ThroughForwarder`).
* Cyclic bases keep the walks of `resolution.rs:487` going.
* A Param row that says nothing leaves no trace, so later Param tokens are shifted by `token()` (`definition_rows.rs:109`).
* An answer cut short by the depth limit is remembered for later callers (`context.rs:652`), and rows nested in such a
  row inherit it however short their own chain is; a scope without a module reads back as this module;
  references into a Module row other than the first cannot be written.
* Linked resources add a File row at every write. Tolerant reads with members nobody owns may be refused by the writer.
* A list run that starts one past a table of exactly 65535 rows is written as 0 in two bytes (`tables.rs:446`).

Images
* A debug entry without data keeps its file pointer (`writer.rs:733`), and reads back with whatever bytes are there.
* A resource leaf that two directory entries name is rebased twice (`writer.rs:903`), so its address is wrong after one writing.
* The sizes of the resource and strong name directories include the padding before the next part (`writer.rs:107`). An unsigned
  module whose field data leaves four bytes of it has a strong name directory of four bytes, and debug entries
  are then refused as if it were signed (`native_symbols.rs:345`).

Names, signatures, blobs
* `importer.rs` documents that the namespace is compared at the outermost link only; it is compared at every link.
* A lone dot parses as a name; the rank of an array without bounds is lost; arrays without bounds can be read and not written.
* Attributes: surrogates become U+FFFD, null arrays are refused, properties are rewritten as fields in the self-described form,
  an empty tagged array becomes `object[]`, arrays of unlike elements or with null first cannot be written back,
  `51 FF` reads as a boxed null though `custom_attribute.rs:724` says null collapses, and the accessors decode only the form
  that its own comment says real images do not contain.
* Marshalling: a fixed array of size 0 with an element type reads back with the element as size; nested optional payloads
  swallow the counts of what encloses them, though `marshal.rs:55` calls the writer the inverse of the parser (`MarshalKept` leaves
  both out); signed values from 2^28 and unsigned ones from 2^30 lose bits.
* Permission sets: attribute names are escaped when decoded and not unescaped when encoded; a property named like the
  permission's class or version is taken for it.

Analyses
* `dead_members` reports overloads that are called through an instance of their own generic type: a name with several methods
  is skipped (`xref.rs:211`).
* Of a name with one method, that method is taken whatever its shape, though `xref.rs:209` says that parameter count and `has_this` must match
  and `callgraph.rs:238` that false positives are not produced.
* `diff.rs` compares handles of different arenas; overloads of one arity collide.

Symbols
* Native: only publics of one kind are kept; every save over an existing PDB appends module and name streams; a PDB
  with one name and two checksums reads and cannot be written; of procedures at one address only the first is
  checked against its lines; `symbols.rs:9` says that emission is not supported.
* MDB: a negative first offset wraps the special opcode; methods that share a RID overwrite one another; documents per point,
  columns, hidden points and locals are lost; such symbols have no widths and cannot be written as portable.
* Portable: columns of hidden points are lost, documents of equal names fold, scopes lose their variables through the facade
  while their custom debug information stays; the checksum entry is written and never verified.
* A sidecar is preferred to embedded symbols even when it is stale (`assembly.rs:229`). The image is written before an MDB is built, though
  `assembly.rs:1217` says symbols come first. `SymbolsKept` says nothing of either case.
