# Formal models of the stats log API generator

This directory holds TLA+ models of `src/stats` of frameworks/proto_logging: the tool
`stats-log-api-gen`, which reads the Android atom definitions (protos with options), checks
and collates them, and generates the C++, Java and Rust methods an application logs the
atoms with; and the small tools of the express metric catalog beside it. The modules are
checked with TLC on small instances, and TLAPS proves nearly all of their safety properties
for every value of their constants.

Paths below are relative to `src/stats/stats_log_api_gen/` unless they start with `src/` or
name a file of `src/stats/express/` (`catalog.cpp`, `codegen*.cpp`).

## 1. Inventory of the system

| Component | Code | State it keeps | Operations | Modelled in |
|---|---|---|---|---|
| Java types of fields | `Collation.cpp:101-140`, `utils.cpp:236-271`, `Collation.h:107-128` | none | `java_type`, `is_repeated_field`, `is_primitive_field` | `JavaTypes` |
| Collation of one atom | `Collation.cpp:142-494` | the error count, the signature and the `AtomDecl` under construction, an iterator, the expected number | the four loops of `collate_atom`, `collate_field_annotations` | `AtomProtos`, `CollateField`, `CollateAtom` |
| Collation of all atoms | `Collation.cpp:496-709`, `Collation.h:234-259` | `Atoms`: three signature tables and two sets of `AtomDecl`; the error count | `collate_atoms`, `collate_from_field_descriptor`, `get_non_chained_node` | `Collation` |
| Command line tool | `main.cpp` | the options, `errorCount`, the files it opened, the exit status | `run`: arguments, option checks, collation, five writers | `StatsLogApiGen` |
| C++ writer | `native_writer.cpp` | none of its own; it reads the tables | methods of pushed, pulled and non-chained atoms, header | `WriterErrors`, `AtomEvents`, `GeneratedMethods`, `Generation` |
| Java writer | `java_writer.cpp`, `utils.cpp:378-703` | as above | as above, WorkSource overloads, API level annotation | `WriterErrors`, `AtomEvents`, `GeneratedMethods`, `Generation` |
| Java writer for level Q | `java_writer_q.cpp` | the writer as above; the method it generates has `needed`, `pos` and a buffer | `QLogger.write`: a pass that sizes the event, a pass that writes it, a helper for chains | `WriterErrors`, `QLogger` |
| Vendor writers | `native_writer_vendor.cpp`, `java_writer_vendor.cpp` | as above | `createVendorAtom` | `WriterErrors`, `AtomEvents`, `GeneratedMethods` |
| Rust writer | `rust_writer.cpp` | as above | one struct per atom | `WriterErrors`, `AtomEvents`, `GeneratedMethods` |
| Names and annotation constants | `utils.cpp:27-234` | a static map with the prefix of its first caller | `get_annotation_id_constants`, the type names, `make_constant_name` | `AnnotationPrefixes`, `GeneratedMethods`; not the change of case of a name |
| Express catalog library | `src/stats/express/libexpresscatalog/` | a map of metrics, the hashes seen | `readCatalog`, `readMetrics`, `generateMetricsIds` | `ExpressCatalog` |
| Express generator and validator | `src/stats/express/expresscatalog-code-gen/`, `expresscatalogvalidator/` | the Java file being written, the exit status | `run`, `generateCodeJava`; the validator's test | `ExpressCatalog` |
| Atom definitions | `src/stats/atoms*`, `src/stats/*.proto` | data | | options and `AttributionNode` only |
| Tests | `test_*.cpp` | | | read for the intended behaviour |

How they interact. Everything runs in one thread and communicates by calls. `run` parses its
arguments, checks their combination, and calls `collate_atoms` for the message `Atom` (of the
platform, or of a proto given with `--vendor-proto`). `collate_atoms` calls
`collate_from_field_descriptor` for each regular field and then for each extension, in whatever
order the descriptor pool lists these; that function calls `collate_atom` for the message of
the field, which runs four loops over its fields, and puts the atom into the shared tables.
With no error, `run` hands the tables to one writer after the other; each opens its file first
and returns a number of errors. The exit status is made of these. The writers share nothing but
the tables, which they only read, and the static map of annotation names. What they generate is
a program too: its methods call each other, and the events they make are read by statsd.

The express tools are apart from this. Both read a directory of `.cfg` files into one map and
compute an id for each metric; the validator stops there, the generator writes a Java class.

There is no concurrency and nothing is persisted but the generated files, so the hard behaviour
lies elsewhere:

- **Checks that are split.** Four loops, early `continue`s and one early `return` share one
  error count; an atom is rejected only if some loop counts an error. Five returns of
  `collate_from_field_descriptor` add up errors on different sides of the insertion.
- **State kept twice.** The primary key is held in `primaryFields` and as annotations; state
  values in the `AtomDecl` and as annotations; the annotated positions in the tables and in the
  `AtomDecl`. Functions downstream trust that the copies agree.
- **Order.** The order of extensions, and that of the files in a catalog, is not fixed; what is
  generated must not depend on it.
- **Rules held in several files.** The types the collation lets through, and those each writer's
  `switch` knows, are separate lists; the non-chained signature is computed by a second function;
  who writes the methods and who writes the constants they name decide apart from each other.
- **Two passes.** The method for level Q sizes an event in one pass and writes it in another,
  with positions of their own; the Java vendor code counts an array out before it fills it.
- **Stale state.** The names of annotations are made for the first writer that asks and kept
  for all that follow.
- **Partial failure.** A writer can fail after its file, or an earlier one, was opened; some
  writers assign to `errorCount` where others add to it.

`PROJECT.json` lists these hazards with the line each one bites at and the property that covers
it. What correctness means, per component:

- *one atom*: an error is counted exactly when a rule of the proto is broken; an accepted atom
  has the signature and annotations its proto declares;
- *all atoms*: every atom of the module is in the table of its kind, none hides another, no
  error is lost; what the writers look up is there;
- *writers*: they fail for what they do not support and for nothing the collation lets through;
  the methods they write are distinct, call methods there are, name constants there are, and make
  the event the proto declares, the same in every language;
- *level Q*: the two passes agree at every byte; an event is dropped only if it has to be;
- *tool*: no file is opened for erroneous atoms; the exit status tells of broken files; each file
  names annotations in its own language; it returns;
- *express*: a catalog is accepted exactly if it obeys the rules, in whatever order it is read,
  and a generated class then holds all of it.

## 2. Modules and how they correspond to the code

```
JavaTypes <- AtomProtos <- CollateField <- CollateAtom
  ^   ^                        ^               | INSTANCE CollationContract
  |   |                        +-- Collation
  |   |                             ^  | INSTANCE CollationContract
  |   +-- WriterErrors <------- Generation <- AtomEvents       <-+
  |            ^                   ^                              +- MCGeneration
  |            |                   +---------- GeneratedMethods <-+
  |            +-- StatsLogApiGen <- AnnotationPrefixes
  +-- QLogger
ExpressCatalog
  | INSTANCE CollationContract

Recursion, CollateField    <- CollateFieldProofs
CollateFieldProofs         <- CollateAtomProofs    (and CollateAtom)
CollateFieldProofs         <- CollationProofs      (and Collation)
CollationProofs            <- GenerationProofs     (and AtomEvents, GeneratedMethods)
AnnotationPrefixes         <- StatsLogApiGenProofs
Recursion, QLogger         <- QLoggerProofs
ExpressCatalog             <- ExpressCatalogProofs
```

An arrow `A <- B` is "B EXTENDS A"; every component has an `MC...` module with the instance TLC
checks. Options of a proto are sets of at most one element (`Optional`), an annotation is a triple
`<<field number, id, value>>`, and a Java type is a string. Names, enum values and the texts of
messages are left out.

- **JavaTypes** - the tables of `java_type` and of the predicates on its results. For a type that
  is neither allowed nor restricted the code gives `UNKNOWN` or `OBJECT`, and so does the model.
- **AtomProtos** - the input (`FieldProtos`, `AtomProtos`) and, written from the documentation of
  the options and *independently of the code's loops*, what a well formed atom is (`WellFormed`)
  and what it declares (`Declaration`). This is the reference the code is checked against.
- **CollateField** - `collate_field_annotations` and the checks of one field, as constant
  operators; `collate_atom` in one piece, which `Collation` uses and which `ReturnsCollatedAtom`
  says is equal to the loops.
- **CollateAtom** - `collate_atom` as a state machine, one action per loop body:
  `NumberAsExpected`/`NumberMismatch`, `CheckType`, `CheckChainPosition`, `BuildField`,
  `LeaveLoop`. Variables are the code's locals; `fieldNumberToAnnotations` is a set of triples.
- **CollationContract** - the abstract specification of the three tools that accept or reject an
  input as a whole: in one step an input is accepted exactly if it obeys the rules, and its
  declaration delivered. `CollateAtom`, `Collation` and `ExpressCatalog` implement it.
- **Collation** - `collate_atoms`. Each action is one call of `collate_from_field_descriptor` and
  ends at one of its returns: `SkipOtherModule`, `RejectNonMessage`, `RejectRestrictedPulled`,
  `RejectUnownedPrimary`, `CollateAtomField`. Extensions are taken in any order. Inserting is the
  whole of the code from line 636 to 658: table of the kind, `AtomDecl`, non-chained variant, and
  the late error for a `field_restriction_option` on the atom. Its contract does not use the ranges of
  `getAtomType`: which atoms are pulled (`DeclaredPulled`) is written from the comments on the numbers in
  `atoms.proto`, so that a wrong boundary breaks the contract.
- **WriterErrors** - the errors of each writer as functions of the tables.
- **Generation** - Collation and writers together; the writers only read the tables. Its two
  extensions look at the generated program from two sides:
  - **AtomEvents** - what the methods *do*. Each writer emits a method as a sequence of statements,
    "write argument p" and "annotate for atom n", in the order its loop emits them
    (`native_method_body`, `java_method_body`, `rust_method_body`); `Run` executes the sequence for
    an atom and arguments, an annotation going to the value written last, and gives the event.
    The vendor writers make an object instead, which `vendor_native_atom` and `vendor_java_atom`
    build from their two loops over positions, with the array the Java code counts out.
  - **GeneratedMethods** - what the files *declare and name*. The overloads of each language by
    name and parameter types (`CppMethods`, `AllJavaMethods`, ...), the calls they make of each other
    (non-chained variants, WorkSource, Rust structs), and the annotation constants used and
    defined per API level.
- **QLogger** - one call of the method generated for level Q, an action per argument and node in
  each of the two passes: `SizeValue`, `SizeChain`, `SizeNode`, `SizeLastNode`; `Drop` or `Allocate`;
  `WriteValue`, `WriteChain`, `WriteNode`, `WriteLastNode`, `Send`. Of the buffer it keeps the
  pieces written with position and size. `needed` and `attrSize` are kept with their history,
  `sizes` and `attrSizes`, so that the invariant can compare the passes.
- **StatsLogApiGen** - `run`. The argument loop is a step per argument, each writer a step that
  opens its file, writes it and updates `errorCount` as that branch of the code does (`=` for C++,
  header and Java, `+=` for Rust). Opening any file may fail (`Refused`), importing a vendor proto
  may fail (`ImportFails`, the code then uses a null pointer and the process is killed). A file is
  kept as its last writer and whether the writer came to its end without error.
- **AnnotationPrefixes** - the static map of `get_annotation_id_constants` superposed on
  `StatsLogApiGen`: each step of a writer may also build the map or find it built. A writer asks
  when it comes to its first annotation (`Asks`); one that fails may do so before or after.
- **ExpressCatalog** - both express tools. The directory iterator gives any unread entry next
  (`SkipEntry`, `OpenFile`), metrics are read one by one in the order of the file (`ReadMetric`,
  `RejectMetric`, `EndOfFile`), hashed in the order of the map (`HashMetric`, `RejectCollision`) and
  written (`OpenJava`, `WriteMetric`, `UnknownType`, `EndOfJava`). Metric ids are numbers; which of
  them match the regular expression, and their hashes, are constants.

Operators that begin with "Mistake:" in their comment are mutated forms of a definition, with a
bug one could write in that code; `PROJECT.json` pairs each property with one that breaks it.

## 3. Runs, bounds and what they show

All runs check deadlock too, and pass in less than two minutes.

| Run | Instance | Shows |
|---|---|---|
| `collate_atom` | every pair of the field shapes of `MCCollateAtom` (each type, repetition and log mode; each option, alone and in its conflicts), restricted or not, allow-listed or not, with gaps in the numbers; runs of 3 and 4 fields of the shapes whose checks look at earlier fields | `IInv`, the contract, and: numbering errors are one per misplaced field (`OneErrorPerMisplacedField`), the two copies of the primary key agree (`PrimaryKeyAgrees`), state annotations belong to the one exclusive field (`StateBelongsToExclusiveField`), the loops return what `collate_atom` says (`ReturnsCollatedAtom`) |
| `collation` | 17 atoms, good and bad, at the boundaries of the pulled ranges; lists of up to 2 regular fields, with up to 1 extension, or up to 3 extensions in any order; two modules | `OrderIndependent`, `ErrorsAddUp`, `AnnotationsFoundByPosition`, `NonChainedCallsChained`, the contract; `NothingTakenBack`: no later field takes back an error, an `AtomDecl` or a table entry, and nothing happens after the return |
| `generation` | the messages of `collation` with up to 2 extensions, and all sets of 3 atoms from a pool with shared signatures, states, categories and overloads that differ in little | `WritersTakeCollated`: no type is unknown to a writer; `RestrictedRequiresU`: a Java method that logs a restricted atom requires level U; `EventsAnnotated`: executed, each method makes the event the proto declares; `VendorAtomsAgree`: both vendor writers make the same atom and fill their arrays; `OverloadsDistinct`, `CallsResolve`, `ConstantsDefined`: the files compile as far as methods and constants go; `QLoggerSignatures`: a signature level Q code is written for has at most one chain, and that first |
| `tool` | 17 odd command lines and every combination of the outputs with 4 module settings, 4 levels and 5 modes; 9 collations, with every cause of a writer's failure | `OnlyCleanAtomsWritten`, `ExitTellsOfBrokenFiles`, `OldLevelsFit`, `PrefixesFit`, `ToolReturns`; `OutputsWritten`: but for `--help` exit status 0 means that atoms were found and the outputs asked for are all there and no other, a file two options name being the later writer's |
| `qlogger` | every signature of up to two types, each string or array null, empty or 3 bytes; chains of up to two nodes, even or not, before up to one other argument; strings and chains at the limit of 4064 bytes; chains of 255 and 256 nodes | `IInv`: the passes are at the same place at every argument and node; `BufferTiled`, `InBuffer`: no byte is missed, written twice or past the end; `SentWhenItFits`: an event is dropped only for its size or an uneven chain; `ReadBack`: a reader of the format finds every piece |
| `express_catalog` | directories of two files, of one metric each or of two and one, out of seven metrics (every flaw: twice the same id, a hash collision, no id, an ill formed id, unknown type); empty, broken and unreadable files, with a folder or a file of another kind beside them; no directory; both tools, Java or another output, a file that cannot be written | `MetricsOfFilesRead`, `HashesDistinct`, `BrokenFileTold`, the contract |

Why these bounds are enough. What `collate_atom` does with a field depends on the field, the
`AtomDecl` built before it (only on whether an exclusive field was seen) and the expected number,
which depends on the last gap; runs of four fields reach every combination of these. Two atoms
interact in the collation only through a shared table entry and the error count; three extensions
allow two with one signature and one without. A third gap, field or atom repeats what the second
does, and where it might not, the property is proved for any number (section 5). The tool's writers
see each option independently; the product of the options is complete but for the values. A method
of `generation` depends on its own signature and the atoms annotated at its positions, and two
methods clash in pairs, so sets of three atoms have each case with a bystander. What `qlogger`
and `express_catalog` check is proved for any size; their runs are there for the limits.

The violation runs check one statement each of a comment, message or usage text:

| Run | Statement | What the code does |
|---|---|---|
| `numbering_message` | a numbering error says what the number should be (`Collation.cpp:384-385`) | after a mismatch `expectedNumber` becomes the number found, so the next mismatch is told the number of the field before it instead of its position: for 1, 3, 5, 6 the messages say 2 for 3, 3 for 5, and 5 for 6, which is the fourth field; which fields are reported is not affected |
| `enums_as_ints` | "All enums are treated as ints" (`Collation.cpp:529`) | a repeated enum stays an `ENUM_ARRAY` in non-chained signatures |
| `unknown_argument` | "Unknown command line argument" (`main.cpp:206`) | the branch cannot be reached; unknown arguments are passed over |
| `header_namespace` | "the namespace must also be provided" (`main.cpp:315`) | reported, but the header is written and the tool goes on |
| `vendor_chain` | "Found attribution chain - not supported" (`native_writer_vendor.cpp:181`) | the loop starts at field 2 and a chain can only be at field 1 |
| `express_recursive` | "Recursively parses folder, locates all cfg files" (`catalog.h:31`) | `fs::directory_iterator` does not enter folders, so their files are not read |

Other disagreements were met and have no run of their own: nothing is removed at "Remove any invalid
ones" (`Collation.cpp:399`), errors are counted; `nested` is accepted and ignored without
`exclusive_state` (`src/stats/atom_field_options.proto:93`); `--bootstrap` is "Only supported for cpp"
(`main.cpp:65-66`) but accepted with other outputs beside a C++ one; the messages "Skip" of
`catalog.cpp:77` and `:88` announce what the tool then fails for.

Where the code has a known gap the property names it as an exception instead of leaving the case
out of the instance; the atoms below are in the runs.

- `ExitTellsOfBrokenFiles`: header and Java writers assign to `errorCount`, so a truncated C++ file is
  forgotten if a header or Java file is written after it. The build rules ask for one file per call
  (`Android.bp`), where this does not occur.
- `PrefixesFit`: if one call writes several files for annotated vendor atoms, the later ones have
  the prefix of the first.
- `EventsAnnotated`: a default or reset state of -1 is taken for none (`native_writer.cpp:89`), and
  `RESTRICTION_UNSET` has an empty name (`utils.cpp:136`).
- `ConstantsDefined`: for levels up to R no C++ header has the categories of restricted atoms.
- `OverloadsDistinct`: `ENUM_ARRAY` and `INT_ARRAY` behind a chain give one non-chained overload twice
  (the finding `enums_as_ints`), and in Java a chain cannot be told from the fields `int[]`, `String[]`.
- `CallsResolve`: the non-chained variants of *pulled* atoms are written too and call a method that
  is only there for pushed atoms.
- `ReadBack`: the number of nodes of a chain is cut to one byte, so chains of 256 nodes and more are
  sent and cannot be read back.

Two clashes of names are seen from the code and not modelled: enum constants are written twice for
two atoms of one message type (`utils.cpp:366`), and `make_constant_name` maps different names to one
(`utils.cpp:143`). Two hazards have no property, as nothing in the repository says what
should happen, and `ExpressCatalog` does as the code does: a `.cfg` file that cannot be opened reads as
an empty one (`catalog.cpp:59`), and a catalog that passes the validator's test may have a type the
generator refuses (`expresscatalogvalidator/main.cpp:25`): its contract gives each tool its own rules.

## 4. Fairness

`Spec` of `CollateAtom`, `Collation`, `StatsLogApiGen` and `ExpressCatalog` has `WF_vars(Next)`, that
of `AnnotationPrefixes` the same for its own step: the code is sequential and nothing in it waits for
anything, so a step that can be taken is taken. No fairness between different steps is assumed.
Liveness is checked for the tool (`ToolReturns`) and, as part of the contract's `Spec`, for both
collations and the express tools: every input is accepted or rejected at last. `QLogger` states no
fairness; its properties are all about safety.

## 5. Proofs

| Theorem | States |
|---|---|
| `CollateAtomProofs!IInvCorrect` | `Spec => []IInv` |
| `CollateAtomProofs!TypeCorrect` | `Spec => []TypeOK` |
| `CollateAtomProofs!ContractImplemented` | `Spec => Contract!Safety`, the safety part of the refinement |
| `CollateAtomProofs!PrimaryKeyCorrect` | `Spec => []PrimaryKeyAgrees` |
| `CollateAtomProofs!StateCorrect` | `Spec => []StateBelongsToExclusiveField` |
| `CollateAtomProofs!NumberingCorrect` | `Spec => []OneErrorPerMisplacedField` |
| `CollateAtomProofs!ReturnCorrect` | `Spec => []ReturnsCollatedAtom` |
| `CollateAtomProofs!LoopsRunDown` | `Spec => [](StepsLeft \in Nat) /\ [][StepsLeft' < StepsLeft]_vars` |
| `CollationProofs!TablesCorrect` | `Spec => []OrderIndependent` |
| `CollationProofs!CollationTypeCorrect` | `Spec => []TypeOK` |
| `CollationProofs!ErrorsCorrect` | `Spec => []ErrorsAddUp` |
| `CollationProofs!CollationOnlyAdds` | `Spec => NothingTakenBack`, an action property |
| `CollationProofs!PositionsCorrect` | `Spec => []AnnotationsFoundByPosition` |
| `CollationProofs!NonChainedCorrect` | `Spec => []NonChainedCallsChained` |
| `CollationProofs!CollationContractImplemented` | `Spec => Contract!Safety`, the safety part of the refinement |
| `GenerationProofs!RestrictedCorrect` | `Spec => []RestrictedRequiresU` |
| `GenerationProofs!WritersCorrect` | `Spec => []WritersTakeCollated` |
| `GenerationProofs!QLoggerFedCorrect` | `Spec => []QLoggerSignatures` |
| `GenerationProofs!ToolAssumptionMet` | `Spec => [](errorCount \in Nat /\ IsAtoms(CollatedAtoms))` |
| `GenerationProofs!ConstantsCorrect` | `Spec => []ConstantsDefined` |
| `GenerationProofs!OverloadsCorrect` | `Spec => []OverloadsDistinct` |
| `GenerationProofs!CallsCorrect` | `Spec => []CallsResolve` |
| `GenerationProofs!EventsCorrect` | `Spec => []EventsAnnotated` |
| `GenerationProofs!VendorCorrect` | `Spec => []VendorAtomsAgree` |
| `StatsLogApiGenProofs!OnlyCleanCorrect` | `Spec => []OnlyCleanAtomsWritten` |
| `StatsLogApiGenProofs!ExitCorrect` | `Spec => []ExitTellsOfBrokenFiles` |
| `StatsLogApiGenProofs!TypeCorrect` | `Spec => []TypeOK` |
| `StatsLogApiGenProofs!LevelsCorrect` | `Spec => []OldLevelsFit` |
| `StatsLogApiGenProofs!OutputsCorrect` | `Spec => []OutputsWritten` |
| `StatsLogApiGenProofs!ToolRunsDown` | `Spec => [](StepsLeft \in Nat) /\ [][StepsLeft' < StepsLeft]_vars` |
| `StatsLogApiGenProofs!PrefixesCorrect` | `PrefixSpec => []PrefixesFit` |
| `QLoggerProofs!PassesAgree` | `Spec => []IInv` |
| `QLoggerProofs!BufferFilled` | `Spec => []BufferTiled` |
| `QLoggerProofs!NothingPastTheEnd` | `Spec => []InBuffer` |
| `QLoggerProofs!SendingCorrect` | `Spec => []SentWhenItFits` |
| `QLoggerProofs!ReadBackCorrect` | `Spec => []ReadBack` |
| `ExpressCatalogProofs!CatalogTypeOK` | `Spec => []TypeOK` |
| `ExpressCatalogProofs!OrderDoesNotMatter` | `Spec => []MetricsOfFilesRead` |
| `ExpressCatalogProofs!NoCollision` | `Spec => []HashesDistinct` |
| `ExpressCatalogProofs!NoBrokenFile` | `Spec => []BrokenFileTold` |
| `ExpressCatalogProofs!ContractImplemented` | `Spec => Contract!Safety`, the safety part of the refinement |

Assumptions: the inputs are protos (`AtomsAssumption`, `MessagesAssumption`: numbers are unique
and in order, as protobuf guarantees), collations are counts and tables (`ToolAssumption`), a call of
`QLogger.write` has arguments of the types of its signature, a length for strings and arrays only, and
a chain, if any, as the first (`CallsAssumption`), and a directory holds lists of metrics
(`CatalogAssumption`). What one module assumes of another is proved there: `ToolAssumptionMet` says
that what a collation hands over, with errors or without, satisfies `ToolAssumption`, and
`QLoggerFedCorrect` that the signatures the writer for level Q finds no error in satisfy the part of
`CallsAssumption` that is about them (the arguments are the caller's). Nothing is assumed of how many fields, atoms, arguments, nodes or files
there are, nor of the hash function.

*One atom.* That a finished collation with no error is well formed is not inductive: the count may
be zero because a loop has not come to the broken rule. `IInv` says what each loop has established:
`errorCount = 0` exactly if all fields a loop *has passed* obey the rules that loop checks
(`CleanSoFar`), and while it is zero, `expectedNumber` is the iterator's position and the signature
and `AtomDecl` are as declared by the fields passed (`BuiltAsDeclared`). The lemmas
`TypeErrorIffForbidden`, `PositionErrorIffForbidden`, `AnnotationErrorsIffForbidden` relate one
iteration's errors to the rules, `AllowedFieldBuilt` what it builds to the declaration; each loop
has one step lemma. `ContractImplemented` follows as `IInv` at the last step gives `WellFormed`.

*The two models of `collate_atom`.* `CollateAtom` runs the loops, `Collation` calls the function in one
piece. `ReturnCorrect` shows them equal by an invariant that says of each loop what part of the sum of
errors it has counted, and that the signature and `AtomDecl` are the recursive functions of the
one-piece definition at the iterator; in a loop left early by an error the rest of the sum is zero.

*The copies in the AtomDecl.* These theorems need no well formed atom. `KeyAgrees` holds of every
`AtomDecl` the loops build, since each branch that adds a primary field adds its annotation. For
the states the invariant is `StateAgrees` *or* an error counted in the loop that builds: a second
exclusive field does overwrite the copy, and is an error. For the numbering `CountInv` says that the
first loop has counted one error for each field passed whose number is not its position, and where
`expectedNumber` is after a gap.

*All atoms.* `OrderIndependent` equates the tables with a function of the *set* of fields taken.
The invariant adds `Position`, which ties that set to the iterator and the extensions left;
`AddAtomToTable` shows that adding an atom to the table of `F` gives the table of `F \cup {f}`.
It relies on field numbers being unique. `ErrorsAddUp` is the same idea with a sum over that set in
place of a table. When no error has been counted every atom taken is well formed (by what
`CollateFieldProofs` shows of `collate_atom` in one piece), so the tables hold what the protos declare
(and `PulledAsDeclared`: the ranges of `getAtomType` are the documented ones);
from this follow `AnnotationsFoundByPosition`, the contract, and `NonChainedCallsChained`: the non-chained
signature, made by `get_non_chained_node` from the `AtomDecl`, is the chained one with `AttributionNode`
flattened, so the chained one is in the table too.

*Steps of the collation.* `CollationOnlyAdds` is about steps. The errors of a field (`ErrorsOf`) are never negative, so the
sum of errors does not sink; an atom is inserted under a number that is not yet in `decls`, since numbers
are unique and `Position` says which have been taken; inserting unites entries with what a signature
has already; and after the return (`Finished`) nothing is left but returning again.

*The generated program.* `GenerationProofs` takes the accepted tables as given by the theorems above.
`WritersTakeCollated` compares the types that pass the collation with the switch of each writer,
`RestrictedRequiresU` rests on a restricted atom having an annotation on its atom id, and
`ConstantsDefined` on who can have which annotation. For `OverloadsDistinct` the parameters of a method are
an encoding of its signature, a word of parameter types per argument: `EncodeInjective` of `Recursion`
says that an encoding is injective if no word is empty and every two begin differently, which is then read off
each language's table of types, leaving just the exceptions the property names. For `CallsResolve` the
arguments of a call are the encoding of the signature in the words of the method called.

*What the methods log.* `EventsAnnotated` executes the emitted statements. `Run` is a fold; `RunLeads` shows it to be
the last step of a recursion over the statements (`Leads`), and `LeadsOn` that such runs compose. For
one argument the statements are a write and then a block of annotations, whose order is that of
`SetToSeq` and so unknown. `Adds` says of a block only what it adds for the atom logged, the union over the
statements that test for its code, and `BlockLeads` that the event then has one more field with just that:
the order drops out, as do the other atoms of the signature. `MethodRuns` puts the arguments together. What remains is about
one position: the table names an atom there if its `AtomDecl` has an annotation there (`EntriesTell`, from
`OrderIndependent`), and what the writers add for it is what its proto declares (`AddedIsDeclared`). The latter
needs that an atom without errors has at most one reset and one default state (`OneState`); two would make the
generator keep just one of them. The vendor code is built from the same blocks; that a Java array
is full at the end (`ArrayFilled`) equates the generator's count by the type of the annotation's value with the
annotations written, which holds as every annotation id is of a counted type (`KnownIds`).

*The tool.* The invariant says, per phase, whether files may exist and which of them may be
incomplete while `errorCount` is zero: in the phases after the header or Java writer, C++ files
only, and a C++ file alone is told of by the count until a later writer assigns to it. `TypeInv`
adds that the phases come in their order (`PhaseOrder`) and that the options kept past the checks
have passed them (`OptionsStep`), from which `OldLevelsFit` follows. `OutputInv` says for
every phase that the files are those asked of the writers whose turn is over (`Before`), each of the last
of them that was asked for it; an early return, which would leave the rest out,
never has exit status 0, but for `--help`.

*Termination.* `StepsLeft` counts the steps ahead: in the tool the arguments not yet looked at and the
phases to come, in `collate_atom` the iterations of the loops not yet left. `ToolRunsDown` and
`LoopsRunDown` prove that it is a natural number which every step makes smaller, so that there are
finitely many steps whatever the input, including writers that fail. That a step *is* taken until the end
is the rest of `ToolReturns`, and needs `ENABLED`.

*Prefixes.* `PrefixSpec` implies the tool's own steps (`ToolInside`), so its invariants carry over.
`BuiltBy` says who can have built the static map: a vendor C++ or Java writer only if it was
requested and has annotations. Then no other writer can have found its prefix.

*Induction over data.* The provers cannot use an induction theorem whose property is an operator.
`Recursion` states induction with a *set* in its place (`NatInductionOnSets`: a set with 0 and the
successors of its numbers holds every number, by the choice of the least number outside), and from it
proves what the recursive functions and folds of the models compute: partial sums, `MapThenFoldSet` with
any choice of elements (`SetSum`), `FlattenSeq`, encodings, and `FoldLeft` that adds up. What the other
modules call for every number of fields, atoms, arguments or nodes rests on these lemmas.

*Level Q.* That the two passes agree is not inductive while `needed` is one number: the write pass
must know what the size pass had *at its argument*. With the history of `needed` the invariant is
`pos = sizes[arg]`, and within a chain `chainPos = pos + attrSizes[node]`; the sizes ascend, so what
is below the last of them is in the buffer. `TileConcat` puts the pieces together. The last size is
the size by the layout of `EventLog`, a sum of its own, as both grow by the same at every argument and node
(`NeededIsEventSize`); hence `SentWhenItFits`. `ReadBack` is about a reader that counts: `Announcing` keeps
the items announced so far, and those a chain's count has cut off, in balance with the pieces written
and those outstanding. At the end nothing is outstanding, so a reader is done exactly if nothing was cut.

*Express.* `MapHolds` says that a map has the metrics of a set of places, a place being a file and an
index; `MapGrows` adds one place. As it speaks of the set, the order of the files drops out. `Phases`
and `EntriesWritten` say what each phase leaves to the next; at the exit they give the contract.

Left to TLC: liveness and everything about `ENABLED` (`ToolReturns`, and in `ImplementsContract` that
an input is accepted or rejected at last), of which the tool's and `collate_atom`'s half that is about
steps is proved. Every invariant and the action property the passing runs check are proved.

## 6. What is not modelled, and why

- The text of generated code, and the change of case of names: string handling with no state.
- Enum constants and atom codes, and the values in bootstrap bodies and vendor atoms: constants
  copied from the descriptors, one loop each; what may go wrong is a clash of names (section 3).
- protobuf itself (descriptors, option parsing, the importer), which is the input, as are the regular
  expression and the hash of the express catalog.
- The atoms as data; `--help`, the flags and the layout of the express tools' output; the file system
  but for an open that fails.
- The tests, which are no part of the program.

What could be added: the names, as a model of `make_constant_name` over short strings with the
clashes as its property.
