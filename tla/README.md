# Verification of sold

`sold` turns an executable or a shared object and the shared objects it depends
on into one shared object or executable. This directory holds TLA+ models of
what the program does, TLC configurations that check them on small instances,
and theorems that TLAPS proves for every instance. Source lines are cited as
`sold.cc:391`; paths are relative to `src/`.

The program is sequential, in one process, and keeps nothing but its output
file. What is hard about it is order: offsets, indices and versions are
computed at one stage, stored in another structure, and relied on several
stages later, when the tables they describe have grown.

## The system

`Sold::Link` (sold.cc:50-94) is a fixed sequence of calls on one object:

    constructor        read the main binary; ResolveLibraryPaths; TopologicalSort
    DecideMemOffset    give every binary, the TLS template, .eh_frame_hdr and the
                       RELRO code an address
    CollectTLS         build the TLS template
    CollectArrays      concatenate .init_array and .fini_array
    CollectSymbols     merge the dynamic symbols of all binaries, move TLS symbols
    CopyPublicSymbols  choose what the output exports
    Relocate           translate every relocation; expose the symbols it needs
    Build, MergePublicSymbols   write symbol table, versions, hash table
    BuildInterp, BuildArrays, BuildDynamic, BuildMprotect, BuildLoads,
    BuildEHFrameHeader, RegisterShdr..., BuildEhdr
    Emit               write the file, checking the position before each section

| component | state | operations | what makes it correct |
|---|---|---|---|
| library search (sold.cc) | `libraries_`, the queue, `link_binaries_`, the two soname tables | `ResolveLibraryPaths`, `GetLibraryPaths`, `ShouldLink`, the DT_NEEDED part of `BuildDynamic` | everything needed is linked or a DT_NEEDED entry, nothing both; each copy the one its first user finds; the soname tables are inverse enough for versions; terminates on cycles |
| topological sort (sold.cc) | the list `buf` with its counters | `TopologicalSort` | a permutation, main binary first; users before what they use when there is no cycle; terminates |
| symbol resolution (SymtabBuilder, sold.cc) | `src_syms_`, `src_fallback_syms_`, `syms_`, `exposed_syms_`, `public_syms_`, `symtab_` | `LoadDynSymtab`, `SetSrcSyms`, `CopyPublicSymbols`, `Resolve`, `ResolveCopy`, `Build`, `MergePublicSymbols` | references bind to the first definition in link order; an index in a relocation denotes its symbol; no symbol twice; no definition lost or invented |
| versions (VersionBuilder, `GetVersion`) | `vernum`, `data`, `vers` | `Add`, `EmitVersym`, `EmitVerneed` | the version entry of a symbol names the library and version it came with |
| TLS (CollectTLS, RemapTLS) | `tls_` | `CollectTLS`, `RemapTLS`, the TLS relocations, `EmitTLS` | each variable of each binary has bytes of its own, found by every kind of reference |
| layout (sold.h, sold.cc) | `offsets_`, `*_offset_`, `rels_`, `dynamic_`, `loads_`, arrays | the Build and Emit functions | what is recorded is what is written; segments map; each array slot has its relocation |
| section headers (ShdrBuilder) | `shdrs`, the order of registration | `RegisterShdr`, `Freeze`, `GetIndex`, `EmitShdrs` | links and indices denote the header meant |
| .eh_frame_hdr (ELFBinary, EHFrameBuilder) | the inputs' tables, the merged table | `ParsePhdrs`, `ParseEHFrameHeader`, `Add`, `Emit` | the unwinder's bisection finds the FDE of every address; only frames that may be moved unchanged are accepted |
| RELRO code (MprotectBuilder) | the regions | `Add`, `Emit` | the code protects the pages of every region, and nothing else, or traps |
| string table (StrtabBuilder) | the bytes, a cache, the mapping | `Add`, `GetPos`, `Freeze` | offsets stay valid; every string is renamed once |
| parsing (ELFBinary) | pointers into the file | `ParsePhdrs`, `ParseDynamic`, `CollectSymbolsFromDynamic`, `ReadDynSymtab`, `GetVersion`, ... | entries may come in any order; nothing beyond a table is read; what other linkers write and what sold writes is understood alike |
| hash tables (hash.cc, `EmitGnuHash`) | none | `CalcGnuHash` and others | agree with the dynamic loader |
| ld.so.conf reader (ldsoconf.cc) | the open files, the directories found | `read_ldsoconf` | directories in the order of the expanded text; ends on cycles |
| renamer (renamer_main.cc) | string table, rewritten records, the new segment | one pass over symbols, .dynamic and versions | each string is rewritten once; nothing that refers to the old table is left |
| command line (sold_main.cc) | options | `main`, `--check-output` | a second `Sold` does not suffer from the first's caches |

They share state in five ways. The library search hands its soname tables to
`GetVersion` (file to soname) and to `VersionBuilder` (soname to file).
`Relocate` both reads and extends the symbol table. Every table's size moves
every later offset. The output is itself an input: of the dynamic loader, of
`--check-output` and of the renamer. Three sizes (`TLSFileSize`, `TLSMemSize`, `EHFrameSize`,
sold.h:111-155) are cached in function statics the first time they are asked
for.

What the hazards of PROJECT.json have in common: stale values (an offset, an
index or a version recorded too early), order (of definitions, libraries,
calls), boundaries (pages, arrays, TLS segments), and CHECKs that fail long
after the cause, and files written by someone else. There is no concurrency, no retry and no recovery to model.

## Modules

| module | models | proofs |
|---|---|---|
| `VersionBuilder` | `VersionBuilder::Add` and `ELFBinary::GetVersion` as operators on a builder record | in `SymbolLink_proofs` |
| `SymbolLink` | symbol resolution from `LoadDynSymtab` to `MergePublicSymbols` | `SymbolLink_proofs` |
| `SymbolScope` | what symbol resolution promises: an abstract specification `SymbolLink` implements | the refinement in `SymbolLink_proofs` |
| `TopologicalSort` | `TopologicalSort`, one action per turn of its loop | in `LibraryResolve_proofs` |
| `LibraryResolve` | `ResolveLibraryPaths` and the DT_NEEDED entries, on top of `TopologicalSort` | `LibraryResolve_proofs` |
| `TLSTemplate` | `struct TLS`, `CollectTLS`, `RemapTLS` | in `TLSLink_proofs` |
| `TLSLink` | the life of a TLS reference: collection, symbols, relocations, `EmitTLS` | `TLSLink_proofs` |
| `OutputLayout` | `Link`'s offsets and sizes from `DecideMemOffset` to `Emit`, with `TLSTemplate` as its TLS part | `OutputLayout_proofs` |
| `DynamicSection` | `ParseDynamic`, on files of other linkers and on what `BuildDynamic` writes | in `Readers_proofs` |
| `GnuHash`, `DynsymIndex` | the one-bucket table of sold and renamer; `CollectSymbolsFromDynamic` and the loader's lookup | of `GnuHash`, in `OutputUse_proofs` |
| `VerneedTable` | `EmitVersym`, `EmitVerneed` and the walk of `GetVersion`, record by record, against `VersionBuilder` | |
| `CIEParser`, `EHFrameHeader` | `ParseEHFrameHeader` (a CIE; the table, FDEs and the merged table) and the unwinder | |
| `Mprotect` | the code `MprotectBuilder` emits, and a processor that runs it | `Mprotect_proofs` |
| `InitOrder` | `CollectArrays` and DT_INIT and DT_FINI, and a loader that runs them | in `OutputUse_proofs` |
| `LdSoConf` | `read_ldsoconf` | in `Readers_proofs` |
| `CheckOutput` | two `Sold` objects in one process (`--check-output`) | in `OutputUse_proofs` |
| `StrtabBuilder`, `Renamer` | the string table; the renamer, with `GnuHash` | in `OutputUse_proofs` |
| `Readers` | `DynamicSection`, `DynsymIndex`, `VerneedTable`, `CIEParser`, `EHFrameHeader` and `LdSoConf` side by side: what reads files | `Readers_proofs` |
| `OutputUse` | `Mprotect`, `InitOrder`, `Renamer` and `CheckOutput` side by side: what becomes of an output | `OutputUse_proofs` |
| `Induction_proofs` | no code: induction over the naturals, recursive functions and running sums, for the proof modules | its own |
| `MC...` | the instances TLC checks of `SymbolLink`, `LibraryResolve`, `TLSLink`, `OutputLayout`, `Readers` and `OutputUse` | |

### SymbolLink and VersionBuilder

A symbol is its binding, whether it is defined, whether it is TLS, and the
binary that holds it (`owner`); an address is abstracted to that binary. The
stages follow the code: `LoadSymbol` and `NextLoad` are `ReadDynSymtab` (with
its duplicate check) and `LoadDynSymtab`; `SetSrcSym` is an iteration of
`SetSrcSyms`; `CopyPublicSymbol` of `CopyPublicSymbols`; `RelocateResolve` and
`RelocateCopy` are a relocation that calls `Resolve` or `ResolveCopy`;
`BuildSymbol`, `EndBuild`, `MergePublicSymbol` and `EndMerge` are `Build` and
`MergePublicSymbols` with their CHECKs. A failed CHECK leads to the phase
`aborted`.

What a binary contains is chosen as it is read, from `DynSyms[b]`. Two facts
about inputs restrict the choice and are stated in the module: a binary either
has a version table or it has none and gives a name and version entry once
(`MayFollow`), and an undefined symbol is in a .dynsym because some relocation
refers to it (`AllReferenced`). Versions the input's tables do not explain are
among the inputs, hidden ones too.

`VersionBuilder` keeps the two nested C++ maps as one function from pairs of file and
version. Version names and sonames are strings since the code compares them
with `""`. The two soname tables are maps with gaps: `GetVersion` is fatal for a file that
filename_to_soname does not have, and `Add` has a CHECK for a soname that
soname_to_filename does not have, which a main binary with versions and without DT_SONAME meets.

### LibraryResolve and TopologicalSort

`SkipNeeded`, `LoadNeeded` and `PopBinary` are the iterations of the loops of
`ResolveLibraryPaths`. The DT_NEEDED list of a library is chosen when it is
read. `Locate` walks the search path in the order of `GetLibraryPaths`, with
`$ORIGIN` and `$LIB` among its elements; the constant `Kind` says what each file
of each directory is (absent, a shared object for this or another machine, 32
bits, an executable, a script), and `Skipped` and `Accepted` are the tests the
constructor of `ELFBinary` makes of it. `OwnName` is the name of the main
binary's file, which a library may need. `NeededOut` is the part of `BuildDynamic` that
writes a DT_NEEDED entry for each library that is not linked. The list of the
sort keeps each element's counter `seen`, since the guard against cycles is the
point.

### TLSTemplate and TLSLink

A variable is a byte of a binary's block, a reference is where the output looks
for it. There are six ways to refer to a variable: a symbol (`RemapTLS` through
`LoadDynSymtab`), a relocated place in the initial values, a GOT word that holds
the whole offset of a variable (DTPMOD64 without DTPOFF64), a GOT word that holds the
start of the block to which code adds the offset (local dynamic model),
TLSDESC without a name, and TPOFF64 without a name (initial exec). `EmitTLS` writes the initial values, so that properties
compare a reference with what was written, not with the formula that computed
it.

### OutputLayout

The sequence `Calls` is the body of `Link`; every action is one call or an
iteration of its loop, and `pc = 0` after a failed CHECK or `LOG(FATAL)`. The
offset functions of sold.h are operators over the current state, evaluated
afresh at each use as the C++ functions are, which is what makes a value
recorded too early differ from the one `Emit` uses. Relocations are followed by
what they are about: `what` names the array slot or place of the input
that the relocation fills. `CollectSymbols` and `CopyPublicSymbols` do not
change any size and have no action. `BuildSymtab` takes the sizes the symbol
tables come to from `Growth`. `Emit` keeps the position in the file and the
CHECK or padding in front of each section. The addresses are those of x86-64.

A relocation has its type, the kind of its symbol and, for a module number, the word behind it.
`Readable`, `Supported` and `ModuleKnown` are the CHECKs and fatal cases of `RelocateBinary`,
`RelocateSymbols` and `RelocateSymbol_x86_64` that depend on the input, `Relocatable` those
that depend on what was collected before. `TLSLink` follows references that the link accepts and
leaves these out. Every CHECK on a result of fread, fwrite or mmap is left out.

### DynamicSection

`FirstPass`, `BetweenPasses` and `SecondPass` are the three parts of
`ParseDynamic`; the members of `ELFBinary` are functions of the tags that fill
them. A name is a pair of the table it is read from and an offset, so that a name
read before the string table is known shows. The input is any short sequence of
entries, or `BuildDynamic` applied to what the linker was given. `Remainders` are the sizes beyond whole
entries, which `CheckSize` refuses; `InSegments` are the addresses that `OffsetFromAddr` finds, the others
are fatal. The checks of the other program headers in `ParsePhdrs` are not part of it.

### GnuHash and DynsymIndex

The hash is that of hash.cc over a small modulus, `HashWidth`, so that hashes
collide. A step of `DynsymIndex` visits a bucket, an entry of a chain or a
relocation. Files come from other linkers (`kind` "gnu" or "elf") or from
`EmitGnuHash` ("emitted"); for the latter the lookup of the dynamic loader is a
definition of its own. Each file has a symbol table and one of the two hash tables; without
(elf_binary.cc:160, 171) a CHECK stops the reader at once.

### VerneedTable

Memory is a function from addresses to records; `vn_next`, `vna_next`, `vd_next`
and the `aux` distances are kept as bytes. One half emits, the other walks a file
with the two nested loops of `GetVersion`; what a walk is to find is
`VersionBuilder`'s `GetVersion`, over sets, which `SymbolLink` uses.

### CIEParser and EHFrameHeader

`CIEParser` keeps the bytes of one CIE and moves a cursor over them, one action
for each statement of `ParseEHFrameHeader` that moves it; each file says what its
writer meant, and the properties compare. `EHFrameHeader` takes the place of a CIE
as given and follows addresses: of the entries in the input, relative to the
header, of FDEs and CIEs in the file (`seen`), and of the merged table. The last
actions are an unwinder that bisects the table for every address.

### Mprotect

`Emit` produces instructions as records with their lengths and immediates; the
others are the instructions of a processor with an arbitrary state before the code runs and a
kernel that may refuse. Both machines are emitted; Page and Piece stand
for 4096 and 2^16. Sizes go through the `uint32_t` of mprotect_builder.h:90 (`Size32`, modulo
`Dword`), and the x86-64 `mov` extends its 32-bit immediate with the sign (`SignExtended`); the kernel
refuses a range that is not in the lower half of the addresses.

### InitOrder

`CollectInit`, `CollectFini` and `BuildDynamic` make the arrays and entries, the
rest is the dynamic loader (external): DT_INIT, then .init_array forwards; at exit
.fini_array backwards, then DT_FINI. The two entries are kept each on its own (`Entries`). Binaries are
numbered as `TopologicalSort` leaves them.

### LdSoConf

The stack of calls of `read_ldsoconf_dfs` with the rest of the text of each. A file
stays open while its includes are read, so the depth is bounded by `MaxOpen`, the
open files of a process; that bound is the system's, and what ends a cycle.

### CheckOutput

Two runs of `Link`, reduced to what the search, the sizes and the names of versions depend on, with
the three function statics of sold.h between them. Libraries are in directories, and a library is looked
for in the directories that `GetLibraryPaths` gives for the binary that needs it, where
`$ORIGIN` is that binary's directory. The output has the RPATH and the RUNPATH of the main binary and
stands in a directory of its own. What the second run finds under the
output's name is what the first has written. Whether the relocations of a binary are such that sold takes
them is `OutputLayout`'s.

### StrtabBuilder and Renamer

Names are sequences of letters, since suffixes, NULs and offsets are the point.
The actions of `Renamer` are the passes of `main` and `Rename` in their order; `bin` is the
mapped file, rewritten in place, and `original` the file on disk. The new segment
replaces the last PT_NOTE, wherever that stands. `Freeze` comes after the last `Add` of both programs
(`TypeOK` says that the table is frozen exactly when its place has been computed), so the
CHECK of strtab_builder.cc:25 is never met. With several versioned symbols verneed is
rewritten several times, and offsets of the new table are read in the old one, where they
may lie beyond its end and the file's (`PastEnd`): what is read there is any
of `Strays`, or the process is killed (`ReadNothing`).

### Readers and OutputUse

Each of these instantiates modules whose components share no state with each other.
A behaviour is one of a component, named by `part`; the variables of the others
stay empty, and each action of the composition is the next-state relation of one
component. Their properties are conjunctions of the components' properties,
which the components state and comment: `SymbolsFound`, for example, is
`ExactlyTheShown`, `NothingBeyond` and `NeverTwice` of `DynsymIndex` with `WalkAgrees` and
`AbortsOnUnknownFile` of `VerneedTable`.

## Runs

| run | properties | what it shows |
|---|---|---|
| `symbol_versions` | TypeOK, IndexDenotesKey, ExposedOnce, VersymNamesVersion, MainExported, AbortsOnlyOnUnregisteredVersion | with versions, hidden symbols, colliding definitions, TLS and COPY: indices, exports and versions are right, and resolution stops only for a version entry that leads to no registered library: no table explains it, or the file or the soname it is filed under was not registered |
| `symbol_order` | BindsFirstDefinition, TableReflectsInputs, ImplementsScope | over three binaries, strong, weak, undefined and TLS: references bind to the first definition in link order, and every step is one of `SymbolScope` |
| `library_resolve` | TypeOK, OutputCoversNeeds, SortPermutes, DependentsFirst, SonameRoundTrip, CopyOfFirstNeeder, OnlyMainLinkedTwice, Terminates | the search and the sort over dependency graphs with cycles, excluded, missing, unreadable, nameless and same-soname libraries, copies in two directories and `$ORIGIN` |
| `tls_template` | TypeOK, DataReachesImage, FixedOffsetsApart, RightUnlessShifted | for every shape of three small TLS segments, initialised variables are found however referred to, fixed offsets never collide, and initial exec references and alignment are right exactly when the binaries linked before allow it |
| `output_layout` | TypeOK, RecordedIsWritten, SlotsRelocated, LinkSucceeds, SegmentsMap, RelocationsLand, HeadersFound | what is recorded is written, segments map, relocations land, links resolve; no CHECK that compares what two calls computed fails (the template's size and entries, the arrays' places, .eh_frame_hdr's size, the number of headers, the positions of `Emit`), and the link stops only for the inputs that `Refused` lists. The CHECKs of symbols and versions are `symbol_versions`' |
| `readers` | TypeOK, OutputReadBack, DynamicUnderstood, SymbolsFound, FramesFound, DirectoriesInOrder, EveryReaderEnds | .dynamic in every order, hash tables and version records of other linkers and of sold, CIEs and frame tables, and configuration files are followed to what their writer meant, and reading ends |
| `output_use` | TypeOK, RelroProtected, ArraysRun, EverythingRenamed, CheckDecides | on x86-64 exactly the pages of the RELRO regions become read-only or the process traps, as long as their sizes fit in a uint32_t; merged arrays run in dependency order, each slot once; swaps, chains and repeats rename every symbol once or abort; the cached sizes never hurt the first link, and of its search, sizes and versions a check fails for one of three reasons only |
| `symbol_fallback`, `symbol_stale_versym`, `tls_bss_symbol`, `tls_bss_base`, `exclude_from_fini` | one each, violated | see Findings |

Bounds, and why they are enough:

- `symbol_versions`: two binaries, three symbols per binary, three relocations.
  Merging, shadowing and fallback involve two entries and one reference;
  the third entry lets a hidden or differently versioned definition stand
  beside both, and three relocations allow a repeated reference after another
  one was exposed. Three libraries' worth of order is the business of
  `symbol_order` (three binaries, two symbols each, four relocations).
- `library_resolve`: DT_NEEDED lists of at most two entries over five existing
  libraries. That has chains of length four, self-references, cycles of two and
  three, two names of one soname, and a library at the second level that is
  found after one at the third by a search that is not breadth first. Two
  directories hold different copies, so that the order of the path decides.
- `tls_template`: three binaries with every segment of at most three bytes and
  two references at a time. Overlap is a relation of two references, and a
  binary in the middle has others on both sides.
- `output_layout`: three binaries of one or two segments. A segment starts
  inside a page and grows past one, the arrays touch, TLS is absent, full,
  partly zero and all zero, the symbol tables are empty, small, versioned, and
  larger than a page.
- `readers`, .dynamic: every sequence of at most four of twelve entries. Each rule
  of `ParseDynamic` relates an entry to one other, the string table or the size,
  and four have two names around it.
- `readers`, hash tables: at most four symbols, GNU tables of at most three buckets,
  ELF tables of two: chains of length none, one and more, symbols below the first
  hashed one that only relocations show.
- `readers`, versions: four symbols over two files with two versions each, so that each
  list has a first, a middle and a last record.
- `readers`, frames: every order of the augmentation letters, numbers of
  one and two bytes, every start modulo a word; up to three binaries whose
  segments lie at different distances from memory, for every address.
- `readers`, ld.so.conf: three files and three open at once: a file that includes
  itself, and a cycle of two, exceed it.
- `output_use`, RELRO: up to three regions (the error of the aarch64 code grows with
  the region's number), two addresses of the output, garbage in the registers.
- `output_use`, arrays: three binaries, every acyclic relation between them.
- `output_use`, renamer: three symbols, so that a name is renamed to one that is
  freed before or after; loads that end on a page boundary and inside a page. Up to two
  symbols have a version and the string table may be the last thing in the file, so that
  a long new name leads the second rewrite of verneed past the end, where there are zeros,
  something else or nothing.
- `output_use`, check: a program and three libraries, of which one or two are
  excluded, need linked ones, or are missing.

`CHECK_DEADLOCK FALSE` is in every configuration because the program ends: the
states `done` and `aborted` have no successor.

Fairness: `LibraryResolve` and `Readers` have liveness properties and
`WF_vars(Next)`. The program is sequential, waits for nobody, and so keeps
taking steps until it returns or aborts; `Terminates` and `EveryReaderEnds` need no
more. These are the loops that walk data somebody else wrote or a list that grows
meanwhile. The other specifications are safety only; their loops are over vectors
that do not change while they are walked.

Every property of a passing run has a mutant (PROJECT.json), an operator next
to the definition it replaces: a plausible slip, such as an offset taken after
the size has grown or a later definition that wins, that makes the property
false under the same configuration.

## Proofs

What TLC shows for small instances, the theorems show for all of them: any number of
binaries, any symbols, headers, dependency graphs and bounds that the named
assumptions on the constants allow (`NamesAssumption`, `InputAssumption`, `PathAssumption`,
`RootAssumption`, `NBinsAssumption`, `HeadersAssumption`, `LayoutAssumption`,
`OutputUseAssumption`, `ReadersAssumption`). TLC evaluates
those in every run. Every safety property of the runs of `SymbolLink`, `LibraryResolve`,
`TLSLink`, `OutputLayout` and `OutputUse`, and the refinement of `SymbolScope`, has a theorem.

`OutputUseAssumption` names what its four parts take for granted: a RELRO region ends
below the largest number a register holds (`InputsAssumption`), an array has a number of
slots (`BinariesAssumption`), the programs of a command line were linked before, so that
nothing needs the program or the output, no two libraries have a soname in common and a version is of
a library that is needed (`CommandLinesAssumption`). The object given to the renamer is one the loader accepts
(`BinariesAssumption` of `Renamer`): its strings are in its string table, it has a .dynamic with a string
table and a hash table, its PT_LOADs ascend and are no larger in the file than in memory. Words
of the mapping file, and what is read beyond the file, are strings without NUL
(`MappingFilesAssumption`, `StraysAssumption`).

`ReadersAssumption` types what is read: the entries of .dynamic are numbers under a tag, a string
table is not at the start of its file and DT_PLTREL is DT_RELA or DT_REL (`EntriesAssumption`),
`BuildDynamic` is given numbers, and tables and arrays behind the ELF header and in the first segment
(`OutputsAssumption`), and a
file of ld.so.conf is a list of statements whose patterns glob answers
(`LdSoConfAssumption`). The text may name any files, also itself, and `MaxOpen` is any number but 0.

| module | theorems | hypotheses on the inputs |
|---|---|---|
| `SymbolLink_proofs` | TypeCorrect, ExposedOnceHolds, IndexDenotesKeyHolds, VersymNamesVersionHolds, BindsFirstDefinitionHolds, ImplementsScopeHolds, MainExportedHolds; TableReflectsInputsHolds; AbortsOnlyHolds | none; `TlsByName`; `OneIndexPerVersion` |
| `LibraryResolve_proofs` | ResolveTypeCorrect, SonameRoundTripHolds, SortPermutesHolds, DependentsFirstHolds, OnlyMainLinkedTwiceHolds, OutputCoversNeedsHolds, CopyOfFirstNeederHolds | |
| `TLSLink_proofs` | TLSTypeCorrect, DataReachesImageHolds, FixedOffsetsApartHolds, RightUnlessShiftedHolds, TemplateNeverAborts | |
| `OutputLayout_proofs` | LayoutTypeCorrect, RecordedIsWrittenHolds, HeadersFoundHolds; LinkSucceedsHolds; SegmentsMapHolds; RelocationsLandHolds; SlotsRelocatedHolds | none; `FiniUnused`; `PagesApart`; `RelocsInside`; `SlotsFilled` |
| `Mprotect_proofs` | RelroProtectedHolds | |
| `OutputUse_proofs` | TypeOKHolds, ArraysRunHolds, CheckDecidesHolds, EverythingRenamedHolds | |
| `Readers_proofs` | DynamicUnderstoodHolds, DirectoriesInOrderHolds | |

### Hypotheses

A hypothesis is a fact about the inputs that sold takes for granted and does not
check; each was met because the proof failed without it.

- `TlsByName`: no name is defined as a TLS symbol by one linked binary and as another
  symbol by another, and the main binary has no local TLS symbol in its .dynsym. Without
  the first, `CopyPublicSymbols` passes over a first definition that is not TLS and
  exports a later one that is; without the second, a definition that ought to be invisible is
  exported. TLC finds `TableReflectsInputs` violated when either half is dropped.
- `OneIndexPerVersion`: a binary's version tables give one index to a version. With
  two, `ReadDynSymtab` takes two entries of one name for the same symbol and its
  duplicate check aborts. The runs assume both (`ConditionsMet` in `MCSymbolLink`).
- `FiniUnused`: no relocation is for a slot of a
  .fini_array that --exclude-from-fini leaves out; the run `exclude_from_fini` shows what
  happens otherwise. That headers and tables end below the address of the first binary (`HeadFits`) is
  not a hypothesis but part of `LinkSucceeds`: sold has a CHECK for that and no remedy.
- `PagesApart`: the segments of each input ascend without sharing a page, as the loader
  requires of them. `RelocsInside`: each relocation is for a place in a segment of its
  binary. `SlotsFilled`: each slot of an input's arrays has exactly one
  relocation, and its two arrays are apart.

Each is met by inputs of the runs, so that no theorem is about nothing.

### Symbols

`ExposedOnce` and `IndexDenotesKey` are not inductive. The first holds because `Resolve` adds
a key only when `syms_` does not have it: `ExposedKnown` says that
until the merge every exposed key is in `syms_`. The second holds because
a later relocation reuses the index that `syms_` remembers: `IndexRemembered`
says that this index is still the place of the key. `IndInv` is their conjunction with
the type invariant. `VersionInv` adds what `VersymNamesVersion` needs: how many version
entries have been made (`Progress`), that the builder numbers no two versions alike
(`NumbersApart`), and that each entry names the version of its symbol (`EntriesName`).

`BindInv` follows a definition through the tables it passes, one invariant per
table: the maps hold what was read (`MapsOK`), the vector of `CollectSymbols` has their
entries in link order (`LoadedOK`), `src_syms_` holds the first of them (`SrcOK`), `syms_`
what `Resolve` found there (`SymsOK`, `SymsBound`), and the relocations what `syms_` said (`RelsOK`).
With it, reading a symbol is a `Declare` of `SymbolScope`, `Resolve` and `ResolveCopy` are a
`Bind`, and everything else stutters. `TableInv` carries on to the symbol table: what was made public
(`PublicOK`), copied (`CopiedOK`), referenced (`ReferencedOK`) and merged (`MergedOK`), and
that the main binary's symbols stay its own (`MainSyms`).

### Libraries

`ResolveInv` has a part for each structure the search and the sort keep: `Shape` (types,
with what an entry of the queue may be), `Tables` (the two soname tables), `LinkList` (no
library twice), `Searched` (everything read and not queued has been searched for), `Reached` (what
is read is in every set that holds the main binary and is closed under DT_NEEDED), `Permuted`
(the list being sorted) and `Untangled` (what is sorted already is needed by nothing behind
it). `Searched` makes what was read a closed set when the queue is empty, `Reached` the least
one; together they are `OutputCoversNeeds`. The sort gives up when an element comes round too
often; `Untangled` shows that without a cycle none comes round twice.

`CopyOfFirstNeeder` compares the program's queue with a breadth-first walk defined by
recursion (`Walk`). `Walking` says that the binaries read are a sequence whose last elements are the
queue (`Queued`), that this sequence is the walk as far as the search has come inside the list of the
binary it is at (`Underway`), and that each library was looked up from the first binary of it that needs
the library (`Copied`).

### TLS

`Tiled` (the entries of the template follow each
other without a gap and end at `filesz`), `OneEntry` (each binary with TLS that has
been collected has exactly one entry, of the size of its header), `Aimed` (a reference
to an initial value points `off` bytes into its binary's entry) and `Written` (what has been
written so far is the entries in order) make `DataReachesImage` inductive. `Tiled` turns the
running sums of `CollectTLS` into the places `EmitTLS` reaches by concatenation.

`FixedOffsetsApart` and `RightUnlessShifted` compare these running sums with sums over
the binaries. `OffsetInv` ties them: the sizes so far and the
entries' offsets are such sums (`Summed`), a fixed reference is where they put it (`Placed`), and each
byte of the image belongs to an entry (`Accounted`). The CHECK of `CollectTLS` compares just these two
sums, and `TemplateNeverAborts` says that it never fails.

### Layout

"What is recorded is what is written" is true at no stage by itself. `LayoutInv` has
a part for each call of `Link` that leaves something for a later one: `Typed`,
`Moving`, `Collecting`, `Gathering`, `DynamicBuilt` (what .dynamic recorded equals what sold.h
computes now), `Loading`, `Merging`, `Registering` (section headers and the indices of their
links) and `Emitting` (what has been written is where the offsets say). Each record is kept equal
to its formula until `Emit`, where the CHECK or the padding compares the position in the file with it.

`Placing` adds that each binary starts on the page where the one before it ends: with
`PagesApart` no page of the output is shared. For the relocations, `Reserved` says that the
initial values of each binary are inside the template, `Slotting` that the slots of each
binary are in the output's arrays in order, from the place the map remembers, and that there
are no others but the one of mprotect, and `Relocating` that the relocations of the output are
those of the inputs, moved, in order. The arrays and the relocations are joined
sequences (`Joined`); the lemmas about them say which input and which place in
it an index of the output belongs to.

### What becomes of an output

`LoadInv` compares each array with the binaries that have been collected (`InitArrayOK`,
`FiniArrayOK`: in the array exactly their functions, in an order that says which of two is
first), and what has run with `Plan`, the sequence DT_INIT, the first array
forwards, the second backwards, DT_FINI: `Running` says that it is a prefix of the plan, as long as
the position of the loader tells (`Progress`). The four properties are facts
about the plan.

`CheckInv` follows the two links. `Found` says that each library loaded is in
the directory noted for it and has a soname, `OnPath` that the two links find it in the same place when all binaries search the same
directories. `Sized` says when the static sizes are the sums over
the binaries linked, `Versioned` that every version exposed is filed under a name that is
registered, `Relinked` that in the second link something is linked beside the output only if a
library outside of it needs it. `Second` carries the first link over: the
second starts from an output that holds what its libraries had and, unless one is `Misplaced`, finds no
library that the first has not loaded, nor another copy. With it the sums of the second link are those of the
first, so that the inherited sizes are right, unless something is linked again.

`ProtectInv` knows where the processor is: at instruction `j` of the block of
region `i` (`X86At`). `CodeIs` says that the code is such blocks and a return, and `Registers`
what the registers hold inside one, whatever they held before the code: first the distance from the
`lea` to the region, then, modulo `Word`, the sum of both, which is the region's
page because the region's addresses fit in a register (`InputsAssumption`). The length is the
region's whole pages modulo `Dword`, extended with the sign: it is right below 2 GiB, and from there to 4 GiB
(`SizesFit`) it is one that the kernel refuses and the code traps. `CallsNamed`
has the calls so far name the regions in order, and `Done` their pages. For the aarch64 code
(`ArmInv`) it is enough that the number of the call is 10 whenever it calls.

`RenInv` rests on two facts about the string table: a position once handed out stays in the
cache (`Keeps`), and each position in the cache is that of its string, whatever was added
since (`GoodTables`). What a pass has written is then right for good (`AllPlaced`). `Passes` says how far each pass has come, `NamesOK`, `DynamicOK` and `VerneedOK` what it has
written and that the rest is as it was, `SegmentOK` that the layout is that of the object as it was read, that
the last PT_NOTE has become the new segment and that both addresses lead into it. No two
symbols have the same name after `CheckNames`; since a chain has the hashes in the order of the symbols,
the first entry that the loader finds equal is then the symbol itself. `ValidRequestSucceeds` is part of the
invariant: of each CHECK it says that the request meets what the CHECK asks.

### What reads files

`DynInv` compares each member with the entries that the two passes have been over: a number
is that of the last entry of its tag before `cur` (`NumberOK`), so is a name, at the string table
that the first pass has found (`NameOK`), and the needed names are as many as the
entries of DT_NEEDED before `cur`, each at the place that the number of such entries up to its own gives
(`NeededsOK`). In the first pass nothing is read that the second or the arrays fill, which is why
the parser has read nothing when it stops.

`DirInv` says that the directories found so far, followed by what the calls on the stack
still have to add, are those of the expanded text (`DirOK`). What a call still adds
are the directories of the rest of its names and of its file (`FrameDirs`), where a name stands for the text
of its file expanded as far as files can still be open at that depth; so a file beyond the limit stands
for nothing, in the text as on the stack. `Expanded` is defined by recursion over the limit and
joins sequences over statements and names; `FlattenJoins` and `FlattenFront` say what a joined
sequence is and what its first part is, and each action is then one associativity away.

### Induction

The library's induction theorems take an operator as a parameter, which the
installed provers do not instantiate. `Induction_proofs` states induction about sets: from the
library's theorem that strict inclusion of finite sets is well founded, applied to the
intervals `0..n`, a set of naturals that is not empty has a least element (`LeastNatural`), an
interval is filled by 0 and successors (`IntervalInduction`), and a function defined by
recursion from a sequence of steps exists (`RecursionExists`). Running sums are the instance
the layout and TLS need (`RunningSumExists`, `SumChosen`, `RunningSumGrows`); `Joined` and `Walk` are treated in the
same way where they are used.

### Only model-checked

- `Terminates` and `EveryReaderEnds`: liveness under fairness is out of the prover's reach.
- `Readers.SymbolsFound`, `FramesFound` and `OutputReadBack`. What a reader is to find
  is there defined by recursion over the file's bytes or records, or by a fold over them, and
  comparing two such definitions for every file is induction over data, for each of four formats.
  `Readers.TypeOK` is of the same readers.
- The violated properties of the five runs under Findings, which are false.

## Findings

1. `symbol_fallback`: symtab_builder.h:61-63 promises the name-only fallback to
   references without version information. `Resolve` consults it only when
   `src_syms_` has no entry for the key (symtab_builder.cc:81), and the reference
   itself put one there, so such a reference stays undefined although a linked
   binary defines the name with a version.
2. `symbol_stale_versym`: sold.h:312-315 says that merging throws the undefined
   symbol away. sold.cc:509 replaces the symbol and keeps the version entry of
   the undefined one.
3. `tls_bss_symbol`: `RemapTLS` (sold.cc:472) adds `bss_offset` to an offset
   that still includes the initial values before it, so the symbol of an
   uninitialised variable is `p_filesz` bytes beyond the range the comment at
   sold.cc:699 gives.
4. `tls_bss_base`: sold.cc:709 classifies a GOT word by its own value. When it
   is 0, the start of the block, and code adds the offset of an uninitialised
   variable, the result lies among the initial values of another binary.
5. `exclude_from_fini`: `CollectArrays` (sold.cc:448) skips an excluded
   .fini_array and the relocations of its slots then abort the link
   (sold.cc:585).

Five disagreements between the code and what it or its documentation says have a
run of their own, which TLC finds violated. The others were met while modelling;
the models do what the code does, and the properties say how far it is right:

- `Rename` rewrites all of verneed once per versioned symbol; from the second time
  on it reads offsets of the new string table in the old one
  (renamer_main.cc:134). Such an offset may lie beyond the file, where the process
  may be killed. `VersionsKeptOnce` speaks of one versioned symbol. Without any, verneed keeps its offsets
  of the old table.
- The names of defined versions keep their offsets while DT_STRTAB leads to the
  new table (renamer_main.cc:129), and so do DT_RUNPATH and DT_RPATH
  (renamer_main.cc:120). `DynamicStringsFound` speaks of DT_NEEDED and DT_SONAME.
- The mapping is applied to library names and versions too (renamer_main.cc:114),
  though README.md:64 speaks of symbols. `VerneedHolds` expects the mapped name.
- The aarch64 code counts the distance of `adr` from the wrong place
  (mprotect_builder.cc:52) and passes an address below the region, and makes system
  call 10, which is not mprotect there (mprotect_builder.cc:60).
  `PagesProtected` says that it protects nothing.
- The second `Sold` of `--check-output` inherits the sizes of the first
  (sold.h:127); when an excluded library needs a linked one, a CHECK stops a link
  whose output is right. Versions the input defines are written as needed from the
  input's file name (version_builder.cc:34); under another name the input's file name (version_builder.cc:34); under another name the output cannot be
  parsed again. A library that was found through the RUNPATH or `$ORIGIN` of a linked library is not looked for
  there when the output needs it, since the output has only the main binary's (sold.cc:207, 978);
  the check then aborts, or finds another copy. These are the three reasons of
  `FailsOnlyForThreeReasons`.
- A main binary that defines versions and has no DT_SONAME is not registered (sold.cc:39) and cannot be
  linked (version_builder.cc:35). `AbortsOnlyOnUnregisteredVersion` names the case.
- Sizes of RELRO regions are cut to 32 bits (mprotect_builder.h:90): from 4 GiB on the code protects
  too little, and from 2 GiB on the process traps. `SizesFit` states the limit.
- A comma stands where `==` is meant (elf_binary.cc:37), so a library for any
  machine passes; `Accepted` does not look at the machine.
- `CollectArrays` puts the main binary's finalisers first (sold.cc:446) and the
  loader runs the array from its end, so a library is finalised before its users,
  unlike in the process without sold. `LibrariesFinalisedFirst` states that order.

## Not modelled

- Bytes where no property is about them: the layout of ELF structures, types and
  flags of section headers, the contents of sections that are copied.
- `CalcHash`, which fills `vna_hash`: a pure function the loader compares with its
  own.
- The file system, `LD_LIBRARY_PATH` and the splitting of lines into words: their
  results are constants. Parsing of the options.
- aarch64, except in `Mprotect`: the models follow x86-64 where the two differ.
- The constructors of `ELFBinary` beyond the checks that choose a library and those of
  `ParseDynamic` and `ParseEHFrameHeader`.
- Errors of reading, writing and mapping files, and their CHECKs.
- The diagnostic tools (`print_dynsymtab` and the like, src/tools): they only
  print what the parser read. The test programs.

## Plan

Done: the models of all parts but those above, in the order of damage: wrong
bindings and versions first, then TLS, then the layout, then the programs and
readers around the linker. Proofs of every safety property of the linker itself
(`SymbolLink`, `LibraryResolve`, `TLSLink`, `OutputLayout`) and of what becomes of its
output (`OutputUse`).

Of `Readers`, `DynamicUnderstood` and `DirectoriesInOrder` are proved.

What remains: lemmas on the walks of `DynsymIndex` and `VerneedTable` in the way the joined sequences of `OutputLayout`
are treated; the aarch64 relocations and the constructors' remaining checks as models.
