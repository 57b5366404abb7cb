------------------------------ MODULE Renamer --------------------------------
(***************************************************************************)
(* renamer (renamer_main.cc): renames dynamic symbols of a shared object.  *)
(* It writes a new string table and a new hash table behind the file, maps *)
(* them with a PT_LOAD that takes the place of the last PT_NOTE, and       *)
(* rewrites the string offsets it knows of.  The bytes of a file that do   *)
(* not hold string offsets, program headers or .dynamic are left out.      *)
(***************************************************************************)
EXTENDS StrtabBuilder, GnuHash, FiniteSets

CONSTANTS
    Binaries,      \* the input files
    MappingFiles,  \* the mapping files: sequences of <<from, to>>
    Strays,        \* the strings that may be read past the end of a file
    Page           \* LINUX_PAGE_SIZE

PageAssumption == Page \in Nat \ {0}

\* The tags and types that are told apart; "other" is any other.
Tags == {"DT_NEEDED", "DT_SONAME", "DT_STRTAB", "DT_GNU_HASH", "DT_HASH", "other"}
Types == {"PT_LOAD", "PT_NOTE", "PT_DYNAMIC", "other"}

\* What the bytes of an input are: string offsets by what holds them.  strtab is
\* the string table and all that follows it in the file.
Images ==
    [strtab : Seq(Nat), syms : Seq(Nat), versym : Seq(Nat), indices : SUBSET Nat,
     dyn : Seq([tag : Tags, val : Nat]), verneed : Seq(Nat),
     phdrs : Seq([type : Types, offset : Nat, vaddr : Nat, filesz : Nat, memsz : Nat]),
     filesize : Nat]

\* An input is an object that the loader accepts: strings are in its table, its
\* .dynamic has a string table and a hash table, and its PT_LOADs ascend and are
\* no larger in the file than in memory.  syms goes up to the last symbol known.
BinariesAssumption ==
    \A o \in Binaries :
        /\ o \in Images
        /\ Len(o.syms) - 1 \in o.indices /\ o.indices \subseteq 0..(Len(o.syms) - 1)
        /\ Len(o.versym) \in {0, Len(o.syms)}
        /\ \A k \in DOMAIN o.syms : o.syms[k] < Len(o.strtab)
        /\ \A k \in DOMAIN o.verneed : o.verneed[k] < Len(o.strtab)
        /\ \A d \in DOMAIN o.dyn :
              o.dyn[d].tag \in {"DT_NEEDED", "DT_SONAME"} => o.dyn[d].val < Len(o.strtab)
        /\ \E d \in DOMAIN o.dyn : o.dyn[d].tag = "DT_STRTAB"
        /\ \E d \in DOMAIN o.dyn : o.dyn[d].tag \in {"DT_GNU_HASH", "DT_HASH"}
        /\ \E k \in DOMAIN o.phdrs : o.phdrs[k].type = "PT_DYNAMIC"
        /\ \A k \in DOMAIN o.phdrs : o.phdrs[k].type = "PT_LOAD" =>
              /\ o.phdrs[k].filesz <= o.phdrs[k].memsz /\ o.phdrs[k].memsz > 0
              /\ \A j \in 1..(k - 1) : o.phdrs[j].type = "PT_LOAD" => o.phdrs[j].vaddr < o.phdrs[k].vaddr

\* Names are words of the line.
MappingFilesAssumption ==
    \A l \in MappingFiles : l \in Seq(Seq(Nat \ {0}) \X Seq(Nat \ {0}))

StraysAssumption == Strays \subseteq Seq(Nat \ {0})

VARIABLES
    original,        \* the input as it is on disk
    lines,           \* the mapping file
    bin,             \* the mapped input, rewritten in place
    mapping, tos,    \* res and tos of ReadMappingFile
    strtab_builder,
    sym_names,
    layout,          \* the addresses and file offsets computed before writing
    gnu_hash,        \* the hash table written
    pc, i

vars == <<original, lines, bin, mapping, tos, strtab_builder, sym_names, layout, gnu_hash, pc, i>>

read == <<original, lines>>

NoHash == [nbuckets |-> 0]

Init ==
    /\ original \in Binaries /\ bin = original
    /\ lines \in MappingFiles
    /\ mapping = <<>> /\ tos = {}
    /\ strtab_builder = NewStrtab /\ sym_names = <<>>
    /\ layout = <<>> /\ gnu_hash = NoHash
    /\ pc = "mapping" /\ i = 1

Abort == pc' = "aborted" /\ UNCHANGED i

\* bin->Str: offsets are always read in the old table.
OldStr(pos) == Str(bin.strtab, pos)

\* One line; both names must be new.
ReadMappingLine ==
    /\ pc = "mapping" /\ i <= Len(lines)
    /\ LET from == lines[i][1]
           to == lines[i][2]
       IN  IF from \in DOMAIN mapping \/ to \in tos
           THEN Abort /\ UNCHANGED <<mapping, tos>>
           ELSE /\ mapping' = Put(mapping, from, to)
                /\ tos' = tos \cup {to}
                /\ i' = i + 1 /\ UNCHANGED pc
    /\ UNCHANGED <<read, bin, strtab_builder, sym_names, layout, gnu_hash>>

\* The two CHECKs that no index is missing.
Contiguous(S) == 0 \in S /\ \A k \in S : k + 1 <= Cardinality(S)

CollectSymbols ==
    /\ pc = "mapping" /\ i > Len(lines)
    /\ IF Contiguous(bin.indices) THEN pc' = "symbols" /\ i' = 1 ELSE Abort
    /\ UNCHANGED <<read, bin, mapping, tos, strtab_builder, sym_names, layout, gnu_hash>>

NSyms == Cardinality(bin.indices)

NewName(s) == Renamed(mapping, s)

RenameSymbol ==
    /\ pc = "symbols" /\ i <= NSyms
    /\ LET s == OldStr(bin.syms[i])
           b == Add(strtab_builder, mapping, s)
       IN  /\ strtab_builder' = b
           /\ sym_names' = Append(sym_names, NewName(s))
           /\ bin' = [bin EXCEPT !.syms[i] = GetPos(b, mapping, s)]
    /\ i' = i + 1
    /\ UNCHANGED <<read, mapping, tos, layout, gnu_hash, pc>>

Distinct(names) == Cardinality({names[k] : k \in DOMAIN names}) = Len(names)

CheckNames ==
    /\ pc = "symbols" /\ i > NSyms
    /\ IF Distinct(sym_names) THEN pc' = "dynamic" /\ i' = 1 ELSE Abort
    /\ UNCHANGED <<read, bin, mapping, tos, strtab_builder, sym_names, layout, gnu_hash>>

IsRewritten(tag) == tag \in {"DT_NEEDED", "DT_SONAME"}

RewriteDynamic ==
    /\ pc = "dynamic"
    /\ IF i > Len(bin.dyn)
       THEN pc' = "verneed" /\ i' = 1 /\ UNCHANGED <<bin, strtab_builder>>
       ELSE /\ IF IsRewritten(bin.dyn[i].tag)
               THEN LET s == OldStr(bin.dyn[i].val)
                        b == Add(strtab_builder, mapping, s)
                    IN  /\ strtab_builder' = b
                        /\ bin' = [bin EXCEPT !.dyn[i].val = GetPos(b, mapping, s)]
               ELSE UNCHANGED <<bin, strtab_builder>>
            /\ i' = i + 1 /\ UNCHANGED pc
    /\ UNCHANGED <<read, mapping, tos, sym_names, layout, gnu_hash>>

IsSpecial(v) == v \in {0, 1}

IsVersioned(b, k) == b.verneed # <<>> /\ b.versym # <<>> /\ ~IsSpecial(b.versym[k])

\* The strings of vn_file and the vna_names, in the order in which they are visited.
Rewritten(strings) ==
    LET pass[k \in 0..Len(strings)] ==
          IF k = 0 THEN [tab |-> strtab_builder, offsets |-> <<>>]
          ELSE LET b == Add(pass[k - 1].tab, mapping, strings[k])
               IN  [tab |-> b, offsets |-> Append(pass[k - 1].offsets, GetPos(b, mapping, strings[k]))]
    IN  pass[Len(strings)]

PastEnd(pos) == pos >= Len(bin.strtab)

\* What is read at each of the offsets; past the end it is whatever is mapped there.
Readings(offsets) ==
    {[k \in DOMAIN offsets |-> IF PastEnd(offsets[k]) THEN stray[k] ELSE OldStr(offsets[k])] :
        stray \in [DOMAIN offsets -> Strays]}

\* The verneed strings, once for each versioned symbol: from the second time on the
\* offsets are those of the new table.
RewriteVerneed ==
    /\ pc = "verneed" /\ i <= NSyms
    /\ IF IsVersioned(bin, i)
       THEN \E strings \in Readings(bin.verneed) :
               LET r == Rewritten(strings)
               IN  bin' = [bin EXCEPT !.verneed = r.offsets] /\ strtab_builder' = r.tab
       ELSE UNCHANGED <<bin, strtab_builder>>
    /\ i' = i + 1
    /\ UNCHANGED <<read, mapping, tos, sym_names, layout, gnu_hash, pc>>

\* A read past the end kills the process when nothing is mapped there.
ReadNothing ==
    /\ pc = "verneed" /\ i <= NSyms /\ IsVersioned(bin, i)
    /\ \E k \in DOMAIN bin.verneed : PastEnd(bin.verneed[k])
    /\ pc' = "killed"
    /\ UNCHANGED <<read, bin, mapping, tos, strtab_builder, sym_names, layout, gnu_hash, i>>

AlignNext(a) == ((a + Page - 1) \div Page) * Page

Largest(S) == CHOOSE x \in S : \A y \in S : y <= x

StrtabVaddr(phdrs) == Largest({AlignNext(phdrs[k].vaddr + phdrs[k].memsz) : k \in DOMAIN phdrs})

\* Four words, the bloom word, the bucket and the hash values.
GnuHashSize == 16 + 8 + 4 * (1 + Len(sym_names) - 1)

GnuHashAt(start) == start + Len(strtab_builder.strtab)

Layout(b) ==
    [strtab_vaddr |-> StrtabVaddr(b.phdrs),
     gnu_hash_vaddr |-> GnuHashAt(StrtabVaddr(b.phdrs)),
     strtab_fileoffset |-> AlignNext(b.filesize),
     strs_size |-> AlignNext(Len(strtab_builder.strtab) + GnuHashSize)]

StrPhdr(l) == [type |-> "PT_LOAD", offset |-> l.strtab_fileoffset, vaddr |-> l.strtab_vaddr,
               filesz |-> l.strs_size, memsz |-> l.strs_size]

Notes(b) == {k \in DOMAIN b.phdrs : b.phdrs[k].type = "PT_NOTE"}

VictimNote(b) == Largest(Notes(b))

ReplaceNote ==
    /\ pc = "verneed" /\ i > NSyms
    /\ strtab_builder' = Freeze(strtab_builder)
    /\ layout' = Layout(bin)
    /\ IF Notes(bin) = {} THEN Abort /\ UNCHANGED bin
       ELSE /\ bin' = [bin EXCEPT !.phdrs[VictimNote(bin)] = StrPhdr(layout')]
            /\ pc' = "phdrs" /\ i' = 1
    /\ UNCHANGED <<read, mapping, tos, sym_names, gnu_hash>>

Patched(d) ==
    CASE d.tag = "DT_STRTAB"   -> [d EXCEPT !.val = layout.strtab_vaddr]
      [] d.tag = "DT_GNU_HASH" -> [d EXCEPT !.val = layout.gnu_hash_vaddr]
      [] OTHER                 -> d

\* One program header is written; .dynamic is patched when its turn comes.
WritePhdr ==
    /\ pc = "phdrs" /\ i <= Len(bin.phdrs)
    /\ IF bin.phdrs[i].type # "PT_DYNAMIC" THEN i' = i + 1 /\ UNCHANGED <<bin, pc>>
       ELSE IF \E k \in DOMAIN bin.dyn : bin.dyn[k].tag = "DT_HASH"
            THEN Abort /\ UNCHANGED bin
            ELSE /\ bin' = [bin EXCEPT !.dyn = [k \in DOMAIN @ |-> Patched(@[k])]]
                 /\ i' = i + 1 /\ UNCHANGED pc
    /\ UNCHANGED <<read, mapping, tos, strtab_builder, sym_names, layout, gnu_hash>>

\* The rest of the file, the new string table and the hash table.
WriteStrings ==
    /\ pc = "phdrs" /\ i > Len(bin.phdrs)
    /\ gnu_hash' = EmitGnuHash(sym_names)
    /\ pc' = "done"
    /\ UNCHANGED <<read, bin, mapping, tos, strtab_builder, sym_names, layout, i>>

Next ==
    \/ ReadMappingLine \/ CollectSymbols \/ RenameSymbol \/ CheckNames \/ RewriteDynamic
    \/ RewriteVerneed \/ ReadNothing \/ ReplaceNote \/ WritePhdr \/ WriteStrings

Spec == Init /\ [][Next]_vars

-----------------------------------------------------------------------------
(* Properties.                                                             *)

Done == pc = "done"

OutTab == strtab_builder.strtab

\* Position pos of the new table holds s.
Holds(pos, s) == pos < Len(OutTab) /\ Str(OutTab, pos) = s

OrigStr(pos) == Str(original.strtab, pos)

OrigName(k) == OrigStr(original.syms[k])

TypeOK ==
    /\ pc \in {"mapping", "symbols", "dynamic", "verneed", "phdrs", "done", "aborted", "killed"}
    /\ i \in Nat \ {0}
    /\ tos = {mapping[s] : s \in DOMAIN mapping}
    /\ Len(sym_names) <= NSyms
    /\ strtab_builder.is_freezed <=> (pc \in {"phdrs", "done"} \/ layout # <<>>)
    /\ DOMAIN bin = DOMAIN original /\ bin.strtab = original.strtab

\* At any time each string the builder has handed out a position for is at
\* that position: an offset written into the file early stays right while
\* the table grows.  strtab_builder.cc:29.
StringsAgree == CacheAgrees(strtab_builder)

\* Every symbol has its mapped name in the new table, also when names are
\* swapped or a new name is another symbol's old one.
NamesRenamed == Done => \A k \in DOMAIN bin.syms : Holds(bin.syms[k], Renamed(mapping, OrigName(k)))

\* The loader finds each symbol in the new hash table under its new name,
\* and no symbol under a name that was taken away.  renamer_main.cc:231.
LookupFinds ==
    Done =>
        LET Names == [k \in DOMAIN bin.syms |-> Str(OutTab, bin.syms[k])]
        IN  /\ \A k \in DOMAIN Names : k > 1 => Lookup(gnu_hash, Names, Names[k]) = k - 1
            /\ \A s \in DOMAIN mapping :
                 (\A k \in DOMAIN Names : Names[k] # s) => Lookup(gnu_hash, Names, s) = 0

\* DT_NEEDED and DT_SONAME name what they named, unless the mapping does
\* have their string.
DynamicStringsFound ==
    Done => \A d \in DOMAIN bin.dyn :
        bin.dyn[d].tag \in {"DT_NEEDED", "DT_SONAME"} =>
            Holds(bin.dyn[d].val, Renamed(mapping, OrigStr(original.dyn[d].val)))

\* The file offset at which the loader finds address a.
Mapped(a) ==
    {p.offset + a - p.vaddr :
        p \in {q \in {bin.phdrs[k] : k \in DOMAIN bin.phdrs} :
                 q.type = "PT_LOAD" /\ a \in q.vaddr..(q.vaddr + q.filesz - 1)}}

\* The new segment shares no page with another one and no byte with the old
\* file, can be mapped, and the two addresses in .dynamic lead to the bytes
\* that were written at the end of the file.
NewSegmentApart ==
    Done =>
        LET l == layout
            Value(tag) == CHOOSE v \in {d.val : d \in {e \in {bin.dyn[k] : k \in DOMAIN bin.dyn} : e.tag = tag}} : TRUE
        IN  /\ \A k \in DOMAIN original.phdrs :
                 original.phdrs[k].vaddr + original.phdrs[k].memsz <= l.strtab_vaddr
            /\ l.strtab_fileoffset >= original.filesize
            /\ (l.strtab_vaddr - l.strtab_fileoffset) % Page = 0
            /\ Mapped(Value("DT_STRTAB")) = {l.strtab_fileoffset}
            /\ Mapped(Value("DT_GNU_HASH")) = {l.strtab_fileoffset + Len(OutTab)}
            /\ Len(OutTab) + 28 + 4 * Len(gnu_hash.hashvals) <= l.strs_size

\* PT_LOADs stay in ascending order, as the loader needs them, when the last
\* PT_NOTE comes after the PT_LOADs.
LoadsAscending ==
    Done =>
        LET Loads(p) == {k \in DOMAIN p : p[k].type = "PT_LOAD"}
        IN  (\A k \in Loads(original.phdrs) : k < Largest(Notes(original))) =>
                \A j, k \in Loads(bin.phdrs) : j < k => bin.phdrs[j].vaddr < bin.phdrs[k].vaddr

VersionedSyms == {k \in DOMAIN original.versym : ~IsSpecial(original.versym[k])}

VerneedHolds ==
    \A k \in DOMAIN bin.verneed : Holds(bin.verneed[k], Renamed(mapping, OrigStr(original.verneed[k])))

\* With one versioned symbol the files and versions the object needs are kept.
VersionsKeptOnce == Done /\ Cardinality(VersionedSyms) = 1 => VerneedHolds

\* A mapping that gives the symbols distinct names, swaps of names included,
\* is carried out: on a file with all its symbols known, a note and no
\* DT_HASH no CHECK fails.
ValidRequestSucceeds ==
    LET from == {lines[k][1] : k \in DOMAIN lines}
        Requested(s) == IF s \in from THEN lines[CHOOSE k \in DOMAIN lines : lines[k][1] = s][2] ELSE s
        Names == {OrigName(k) : k \in DOMAIN original.syms}
    IN  (/\ Cardinality(from) = Len(lines)
         /\ Cardinality({lines[k][2] : k \in DOMAIN lines}) = Len(lines)
         /\ Cardinality({Requested(s) : s \in Names}) = Len(original.syms)
         /\ original.indices = 0..(Len(original.syms) - 1)
         /\ Notes(original) # {}
         /\ \A d \in DOMAIN original.dyn : original.dyn[d].tag # "DT_HASH")
        => pc # "aborted"

=============================================================================
