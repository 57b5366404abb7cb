----------------------------- MODULE OutputLayout -----------------------------
(***************************************************************************)
(* Where everything goes in the output file and in its memory image: the   *)
(* calls of Sold::Link in their order, each recording sizes and offsets    *)
(* that later calls and Emit rely on.                                      *)
(*                                                                         *)
(* The offsets of the head of the file (sold.h) are functions of sizes     *)
(* that are still growing while some of them are being recorded: in the    *)
(* relocations of function-pointer arrays, in the dynamic section, in the  *)
(* section headers and in the ELF header.  Sizes are the ELF64 ones.       *)
(* CollectSymbols and CopyPublicSymbols leave the layout alone.            *)
(***************************************************************************)
EXTENDS TLSTemplate, FiniteSets, Functions

CONSTANTS
    Binaries,      \* Binaries[b]: what linked binary b may be
    Growth,        \* [syms, str, needs, vers]: what the symbol tables may come to
    Executable,    \* the main binary has a PT_INTERP
    ExcludedFini,  \* binaries that --exclude-from-fini names
    SectionHeaders \* --section-headers

\* A relocation: r_offset and its type ("symbolic": GLOB_DAT, JUMP_SLOT, 64;
\* "unknown": none that RelocateSymbol_x86_64 has a case for).  Its symbol is a
\* dummy, or named, or its version is of a file that is no library's.  The word
\* behind it, which counts for DTPMOD64 (those are not in the arrays).
Reloc == [at : Nat, sym : {"dummy", "named", "unregistered"}, next_word : Nat,
          type : {"RELATIVE", "symbolic", "DTPMOD64", "DTPOFF64", "TPOFF64", "COPY", "unknown"}]

\* loads and fdes in address order; init and fini: [addr, n], addr 0 for none.
Binary == [loads : Seq([vaddr : Nat, filesz : Nat, memsz : Nat]),
           tls   : [vaddr : Nat, filesz : Nat, memsz : Nat],
           init  : [addr : Nat, n : Nat], fini : [addr : Nat, n : Nat],
           symtab : BOOLEAN, tables : BOOLEAN, \* DT_SYMTAB; a table where there is a size
           machine : {"EM_X86_64", "other"},   \* EM_AARCH64 is not modelled
           headers : BOOLEAN, \* those EmitPhdrs wants: three, a PT_DYNAMIC, a PT_PHDR with a PT_INTERP
           rel   : Seq(Reloc), plt_rel : Seq(Reloc),
           fdes  : Seq(Nat),      \* initial locations its .eh_frame_hdr lists
           relro : 0..1]

ASSUME LayoutAssumption ==
    /\ \A b \in Bins : /\ Binaries[b] \subseteq Binary
                        /\ \A x \in Binaries[b] : x.tls.filesz <= x.tls.memsz
    /\ Growth \subseteq [syms : Nat \ {0}, str : Nat, needs : Nat, vers : Nat]
    /\ Executable \in BOOLEAN /\ SectionHeaders \in BOOLEAN
    /\ ExcludedFini \subseteq Bins

VARIABLES
    bin,          \* bin[b]: linked binary b; its PT_TLS is in phdr too
    pc, pos,      \* the call of Link that is running, and how far it is
    offsets,      \* offsets_: where each binary is loaded
    tls_offset, ehframe_offset, mprotect_offset,
    init_array, fini_array,     \* slots: <<binary, index>>, <<0, 0>> for mprotect
    bin_to_init, bin_to_fini,   \* bin_to_{init,fini}_array_offset_
    rels,         \* rels_: [at, what]
    nsyms, nverneed, nvernaux, strtab, \* sizes of symtab_, version_ (files, versions), strtab_
    dynamic,      \* dynamic_: [tag, val]
    loads,        \* loads_: [bin, offset, vaddr, filesz, memsz]
    tls_file_offset, ehframe_file_offset, mprotect_file_offset,
    eh_table,     \* the initial locations of the output's .eh_frame_hdr
    shdrs,        \* [type, offset, size, link]
    ehdr,         \* [shoff, shnum, shstrndx]
    file, fpos    \* what Emit has written: [what, at, size]; ftell

mem    == <<offsets, tls_offset, ehframe_offset, mprotect_offset>>
arrays == <<init_array, fini_array, bin_to_init, bin_to_fini>>
sizes  == <<nsyms, nverneed, nvernaux, strtab>>
filed  == <<loads, tls_file_offset, ehframe_file_offset, mprotect_file_offset>>
out    == <<file, fpos>>
vars   == <<phdr, tls_, bin, pc, pos, mem, arrays, rels, sizes, dynamic, filed,
            eh_table, shdrs, ehdr, out>>

Page == 4096

AlignNext(a, unit) == ((a + unit - 1) \div unit) * unit

-----------------------------------------------------------------------------
(***************************************************************************)
(* The offsets of sold.h, each where its predecessor ends.                 *)
(***************************************************************************)
CountPhdrs == 6 + (IF Executable THEN 2 ELSE 0) + (IF memsz > 0 THEN 2 ELSE 0)
                + SumBins([b \in Bins |-> Len(bin[b].loads)])

InitArrayOffset == AlignNext(64 + 56 * CountPhdrs, 8)
InitArraySize   == 8 * Len(init_array)
FiniArrayOffset == InitArrayOffset + InitArraySize
FiniArraySize   == 8 * Len(fini_array)
GnuHashOffset   == FiniArrayOffset + FiniArraySize
GnuHashSize     == 24 + 4 * nsyms
SymtabOffset    == GnuHashOffset + GnuHashSize
SymtabSize      == 24 * nsyms
VersymOffset    == SymtabOffset + SymtabSize
\* Mutant of VersymSize: counted although nothing is emitted without versions.
VersymSizeAlways == 2 * nsyms

VersymSize == IF nverneed > 0 THEN 2 * nsyms ELSE 0
VerneedOffset   == VersymOffset + VersymSize
VerneedSize     == 16 * nverneed + 16 * nvernaux
RelOffset       == VerneedOffset + VerneedSize
RelSize         == 24 * Len(rels)
StrtabOffset    == RelOffset + RelSize
DynamicOffset   == StrtabOffset + strtab
DynamicSize     == 16 * Len(dynamic)
ShstrtabOffset  == DynamicOffset + DynamicSize
ShstrtabSize    == 127
CodeOffset      == AlignNext(ShstrtabOffset + ShstrtabSize, Page)

EHFrameSize     == 12 + 8 * SumBins([b \in Bins |-> Len(bin[b].fdes)])
MprotectSize    == 1 + 47 * SumBins([b \in Bins |-> bin[b].relro])
EHFrameOffset   == AlignNext(tls_file_offset + TLSFileSize, Page)
ShdrOffset      == mprotect_file_offset + MprotectSize

-----------------------------------------------------------------------------
(***************************************************************************)
(* The calls.                                                              *)
(***************************************************************************)
\* Mutant of Calls: the dynamic section is built before the arrays are done.
CallsDynamicFirst ==
    <<"DecideMemOffset", "CollectTLS", "CollectArrays", "Relocate", "BuildSymtab", "BuildInterp",
      "BuildDynamic", "BuildArrays", "BuildLoads", "BuildEHFrameHeader", "RegisterShdrs",
      "BuildEhdr", "Emit", "done">>

\* Sold::Link
Calls ==
    <<"DecideMemOffset", "CollectTLS", "CollectArrays", "Relocate", "BuildSymtab", "BuildInterp",
      "BuildArrays", "BuildDynamic", "BuildLoads", "BuildEHFrameHeader", "RegisterShdrs",
      "BuildEhdr", "Emit", "done">>

\* The program is in a call; CHECK and LOG(FATAL) abort it (pc = 0).
At(c)   == pc > 0 /\ Calls[pc] = c
Return  == pc' = pc + 1 /\ pos' = 1
Abort   == pc' = 0 /\ UNCHANGED pos
Proceed == pos' = pos + 1 /\ UNCHANGED pc
Aborted == pc = 0
Done    == At("done")

Init ==
    /\ bin \in [Bins -> UNION {Binaries[b] : b \in Bins}] /\ \A b \in Bins : bin[b] \in Binaries[b]
    /\ phdr = [b \in Bins |-> [filesz |-> bin[b].tls.filesz, memsz |-> bin[b].tls.memsz]]
    /\ InitTLS
    /\ pc = 1 /\ pos = 1
    /\ offsets = <<>> /\ tls_offset = 0 /\ ehframe_offset = 0 /\ mprotect_offset = 0
    /\ init_array = <<>> /\ fini_array = <<>>
    /\ bin_to_init = [b \in {} |-> 0] /\ bin_to_fini = [b \in {} |-> 0]
    /\ rels = <<>> /\ dynamic = <<>> /\ loads = <<>> /\ eh_table = <<>> /\ shdrs = <<>>
    /\ nsyms = 0 /\ nverneed = 0 /\ nvernaux = 0 /\ strtab = 0
    /\ tls_file_offset = 0 /\ ehframe_file_offset = 0 /\ mprotect_file_offset = 0
    /\ ehdr = [shoff |-> 0, shnum |-> 0, shstrndx |-> 0]
    /\ file = <<>> /\ fpos = 0

\* GetRange of a binary: its first page and the end of its last one.
Ends(b)       == {AlignNext(l.vaddr + l.memsz, Page) : l \in Range(bin[b].loads)}
RangeEnd(b)   == CHOOSE e \in Ends(b) : \A f \in Ends(b) : f <= e
RangeStart(b) == bin[b].loads[1].vaddr

\* The range starts where the binary is put; it does not when there is none.
Movable(b) == bin[b].loads # <<>> /\ RangeStart(b) = 0

\* The first address above binary b.
FreeFrom(b) == IF b = 0 THEN 268435456 ELSE offsets[b] + RangeEnd(b)

\* One binary of the loop of DecideMemOffset, then what follows the loop.
DecideMemOffset ==
    /\ At("DecideMemOffset")
    /\ IF pos <= NBins
       THEN /\ offsets' = Append(offsets, FreeFrom(pos - 1))
            /\ IF Movable(pos) THEN Proceed ELSE Abort
            /\ UNCHANGED <<tls_offset, ehframe_offset, mprotect_offset>>
       ELSE /\ tls_offset' = FreeFrom(NBins)
            /\ ehframe_offset' = AlignNext(tls_offset' + TLSMemSize, Page)
            /\ mprotect_offset' = AlignNext(ehframe_offset' + EHFrameSize, Page)
            /\ Return /\ UNCHANGED offsets
    /\ UNCHANGED <<phdr, tls_, bin, arrays, rels, sizes, dynamic, filed, eh_table, shdrs, ehdr, out>>

CollectTLS ==
    /\ At("CollectTLS")
    /\ IF pos <= NBins THEN CollectTLSOf(pos) /\ Proceed
       ELSE IF memsz = TLSMemSize THEN FinishTLS /\ Return
       ELSE Abort /\ UNCHANGED tls_
    /\ UNCHANGED <<phdr, bin, mem, arrays, rels, sizes, dynamic, filed, eh_table, shdrs, ehdr, out>>

Slots(b, n) == [k \in 1..n |-> <<b, k>>]

\* std::map assignment m[k] = v
Put(m, k, v) == [x \in DOMAIN m \cup {k} |-> IF x = k THEN v ELSE m[x]]

\* Mutant of CollectInit: the slot of mprotect is not counted.
CollectInitUncounted(b) ==
    /\ bin_to_init' = Put(bin_to_init, b, InitArrayOffset + 8 * (Len(init_array) - 1))
    /\ init_array' = init_array \o Slots(b, bin[b].init.n)
    /\ UNCHANGED <<fini_array, bin_to_fini>>

CollectInit(b) ==
    /\ bin_to_init' = Put(bin_to_init, b, InitArrayOffset + InitArraySize)
    /\ init_array' = init_array \o Slots(b, bin[b].init.n)
    /\ UNCHANGED <<fini_array, bin_to_fini>>

CollectFini(b) ==
    /\ IF b \in ExcludedFini THEN UNCHANGED <<fini_array, bin_to_fini>>
       ELSE /\ bin_to_fini' = Put(bin_to_fini, b, FiniArrayOffset + FiniArraySize)
            /\ fini_array' = fini_array \o Slots(b, bin[b].fini.n)
    /\ UNCHANGED <<init_array, bin_to_init>>

\* The slot of mprotect, the initialisers of the last binary first, then the
\* finalisers of the first binary first.
CollectArrays ==
    /\ At("CollectArrays")
    /\ IF pos = 1 THEN init_array' = <<<<0, 0>>>> /\ UNCHANGED <<fini_array, bin_to_init, bin_to_fini>>
       ELSE IF pos <= NBins + 1 THEN CollectInit(NBins + 2 - pos)
       ELSE CollectFini(pos - NBins - 1)
    /\ IF pos = 2 * NBins + 1 THEN Return ELSE Proceed
    /\ UNCHANGED <<phdr, tls_, bin, mem, rels, sizes, dynamic, filed, eh_table, shdrs, ehdr, out>>

-----------------------------------------------------------------------------
\* IsAddrInInitarray, IsAddrInFiniarray
InArray(a, at) == a.addr <= at /\ at < a.addr + 8 * a.n

InTLSData(b, at) == LET t == bin[b].tls IN t.memsz > 0 /\ t.vaddr <= at /\ at < t.vaddr + t.filesz

\* What is at address `at' of binary b.
What(b, at) == IF InArray(bin[b].init, at)
               THEN <<"init", b, (at - bin[b].init.addr) \div 8 + 1>>
               ELSE IF InArray(bin[b].fini, at)
               THEN <<"fini", b, (at - bin[b].fini.addr) \div 8 + 1>>
               ELSE <<"other", b, at>>

\* Mutant of Moved: the template is taken to be at 0.
MovedInTemplate(b, at) == IF InTLSData(b, at) THEN RemapTLS(b, at - bin[b].tls.vaddr)
                          ELSE at + offsets[b]

\* The first new relocation: the place in the template or in the binary.
Moved(b, at) == IF InTLSData(b, at) THEN RemapTLS(b, at - bin[b].tls.vaddr) + tls_offset
                ELSE at + offsets[b]

\* The second: its slot in the arrays of the output, when it has one.
Copied(b, at) == IF InArray(bin[b].init, at)
                 THEN <<at - bin[b].init.addr + bin_to_init[b]>>
                 ELSE IF InArray(bin[b].fini, at)
                 THEN <<at - bin[b].fini.addr + bin_to_fini[b]>>
                 ELSE <<>>

\* RemapTLS wants an entry of the template.  IsAddrInInitarray and
\* IsAddrInFiniarray want an array, the latter is asked when the former says no,
\* and a slot wants a place in the output's array.
Relocatable(b, at) ==
    /\ InTLSData(b, at) => \E k \in DOMAIN data : data[k].bin = b
    /\ bin[b].init.addr # 0
    /\ InArray(bin[b].init, at) => b \in DOMAIN bin_to_init
    /\ ~InArray(bin[b].init, at) => bin[b].fini.addr # 0
    /\ ~InArray(bin[b].init, at) /\ InArray(bin[b].fini, at) => b \in DOMAIN bin_to_fini

\* The items of all binaries in order, each as <<binary, item>>.
Joined(items) ==
    LET upto[b \in 0..NBins] ==
            IF b = 0 THEN <<>>
            ELSE upto[b - 1] \o [k \in DOMAIN items[b] |-> <<b, items[b][k]>>]
    IN  upto[NBins]

\* OffsetFromAddr finds the place.
InFile(b, at) == \/ \E l \in Range(bin[b].loads) : l.vaddr <= at /\ at < l.vaddr + l.memsz
                 \/ bin[b].tls.memsz > 0 /\ at = bin[b].tls.vaddr

\* The relocations of the word behind a module number: rewrite_rel_types.
Beside(b, r) == {k \in DOMAIN bin[b].rel :
                    r.at + 8 <= bin[b].rel[k].at /\ bin[b].rel[k].at < r.at + 16}

\* In a binary with a TLS segment, the word behind a module number is an offset
\* in it, and either one DTPOFF64 rewrites it or nothing does, for a dummy.
ModuleKnown(b, r) ==
    bin[b].tls.memsz > 0 =>
        /\ InFile(b, r.at) /\ r.next_word < bin[b].tls.memsz
        /\ \/ Beside(b, r) = {} /\ r.sym = "dummy"
           \/ \E k \in Beside(b, r) : Beside(b, r) = {k} /\ bin[b].rel[k].type = "DTPOFF64"

\* GetVersion knows the version, and the type is one of the cases.
Supported(b, r) ==
    /\ r.sym # "unregistered" /\ r.type # "unknown"
    /\ r.type = "DTPMOD64" => ModuleKnown(b, r)
    /\ r.type \in {"DTPOFF64", "TPOFF64"} => InFile(b, r.at)

\* The CHECKs of RelocateBinary and of RelocateSymbols.
Readable(b) == bin[b].symtab /\ bin[b].tables /\ bin[b].machine = "EM_X86_64"

RelsOfBin(b) == bin[b].rel \o bin[b].plt_rel

\* The relocations Relocate goes through, as <<binary, relocation>>.
AllRels == Joined([b \in Bins |-> RelsOfBin(b)])

\* The binaries RelocateBinary has been called for.
Called == {b \in Bins : pos <= Len(AllRels) => b <= AllRels[pos][1]}

Relocate ==
    /\ At("Relocate")
    /\ IF \E b \in Called : ~Readable(b)
       THEN Abort /\ UNCHANGED rels
       ELSE IF pos <= Len(AllRels)
       THEN LET b == AllRels[pos][1]  r == AllRels[pos][2]
            IN  IF Supported(b, r) /\ Relocatable(b, r.at)
                THEN LET to == <<Moved(b, r.at)>> \o Copied(b, r.at)
                     IN  /\ rels' = rels \o [k \in DOMAIN to |-> [at |-> to[k], what |-> What(b, r.at)]]
                         /\ Proceed
                ELSE Abort /\ UNCHANGED rels
       ELSE Return /\ UNCHANGED rels
    /\ UNCHANGED <<phdr, tls_, bin, mem, arrays, sizes, dynamic, filed, eh_table, shdrs, ehdr, out>>

-----------------------------------------------------------------------------
\* SymtabBuilder::Build and MergePublicSymbols, for their sizes.
BuildSymtab ==
    /\ At("BuildSymtab")
    /\ \E g \in Growth : nsyms' = g.syms /\ strtab' = strtab + g.str /\ nverneed' = g.needs /\ nvernaux' = g.vers
    /\ Return
    /\ UNCHANGED <<phdr, tls_, bin, mem, arrays, rels, dynamic, filed, eh_table, shdrs, ehdr, out>>

\* The path of the interpreter, 28 bytes with its NUL, in an executable.
BuildInterp ==
    /\ At("BuildInterp") /\ Return
    /\ strtab' = IF Executable THEN strtab + 28 ELSE strtab
    /\ UNCHANGED <<phdr, tls_, bin, mem, arrays, rels, nsyms, nverneed, nvernaux, dynamic, filed, eh_table,
                   shdrs, ehdr, out>>

\* The relocation of the slot of mprotect.
BuildArrays ==
    /\ At("BuildArrays") /\ Return
    /\ rels' = Append(rels, [at |-> InitArrayOffset, what |-> <<"init", 0, 0>>])
    /\ UNCHANGED <<phdr, tls_, bin, mem, arrays, sizes, dynamic, filed, eh_table, shdrs, ehdr, out>>

D(tag, val) == [tag |-> tag, val |-> val]

\* One DT_NEEDED entry, or none; its name is 12 bytes with its NUL.
BuildDynamic ==
    /\ At("BuildDynamic") /\ Return
    /\ \E n \in 0..1 :
        /\ strtab' = strtab + 12 * n
        /\ dynamic' =
             [k \in 1..n |-> D("needed", strtab)] \o
             <<D("init_array", InitArrayOffset), D("init_arraysz", InitArraySize),
               D("fini_array", FiniArrayOffset), D("fini_arraysz", FiniArraySize),
               D("gnu_hash", GnuHashOffset),
               D("strtab", StrtabOffset), D("strsz", strtab'),
               D("symtab", SymtabOffset)>> \o
             (IF nverneed > 0 THEN <<D("versym", VersymOffset), D("verneed", VerneedOffset)>> ELSE <<>>) \o
             <<D("rel", RelOffset), D("relasz", RelSize), D("null", 0)>>
    /\ UNCHANGED <<phdr, tls_, bin, mem, arrays, rels, nsyms, nverneed, nvernaux, filed,
                   eh_table, shdrs, ehdr, out>>

-----------------------------------------------------------------------------
\* The segments BuildLoads goes through, as <<binary, segment>>.
AllLoads == Joined([b \in Bins |-> bin[b].loads])

\* file_offset before the next segment.
FileFree == IF loads = <<>> THEN CodeOffset
            ELSE AlignNext(loads[Len(loads)].offset + loads[Len(loads)].filesz, Page)

\* Mutant of LoadAt: the segment starts at the page, not at its place in it.
LoadAtPage(b, l) == [bin |-> b, offset |-> FileFree, vaddr |-> l.vaddr + offsets[b],
                     filesz |-> l.filesz, memsz |-> l.memsz]

LoadAt(b, l) == [bin |-> b, offset |-> FileFree + (l.vaddr % Page), vaddr |-> l.vaddr + offsets[b],
                 filesz |-> l.filesz, memsz |-> l.memsz]

BuildLoads ==
    /\ At("BuildLoads")
    /\ IF pos = 1 /\ CodeOffset >= offsets[1]
       THEN Abort /\ UNCHANGED filed
       ELSE IF pos <= Len(AllLoads)
       THEN /\ loads' = Append(loads, LoadAt(AllLoads[pos][1], AllLoads[pos][2]))
            /\ Proceed
            /\ UNCHANGED <<tls_file_offset, ehframe_file_offset, mprotect_file_offset>>
       ELSE /\ tls_file_offset' = FileFree
            /\ ehframe_file_offset' = AlignNext(tls_file_offset' + TLSFileSize, Page)
            /\ mprotect_file_offset' = AlignNext(ehframe_file_offset' + EHFrameSize, Page)
            /\ Return /\ UNCHANGED loads
    /\ UNCHANGED <<phdr, tls_, bin, mem, arrays, rels, sizes, dynamic, eh_table, shdrs, ehdr, out>>

\* EHFrameBuilder::Add: the locations, relative to the new header.
FDEsOf(b) == [k \in DOMAIN bin[b].fdes |-> bin[b].fdes[k] + offsets[b] - ehframe_offset]

BuildEHFrameHeader ==
    /\ At("BuildEHFrameHeader")
    /\ IF pos <= NBins
       THEN eh_table' = eh_table \o FDEsOf(pos) /\ Proceed
       ELSE /\ IF EHFrameSize = 12 + 8 * Len(eh_table) THEN Return ELSE Abort
            /\ UNCHANGED eh_table
    /\ UNCHANGED <<phdr, tls_, bin, mem, arrays, rels, sizes, dynamic, filed, shdrs, ehdr, out>>

Shdr(type, offset, size) == [type |-> type, offset |-> offset, size |-> size, link |-> 0]

\* What Link registers, after the null header.
Registered ==
    <<Shdr("null", 0, 0), Shdr("gnu_hash", GnuHashOffset, GnuHashSize),
      Shdr("symtab", SymtabOffset, SymtabSize)>> \o
    (IF nverneed > 0 THEN <<Shdr("versym", VersymOffset, VersymSize),
                            Shdr("verneed", VerneedOffset, VerneedSize)>> ELSE <<>>) \o
    <<Shdr("rel", RelOffset, RelSize), Shdr("init_array", InitArrayOffset, InitArraySize),
      Shdr("fini_array", FiniArrayOffset, FiniArraySize), Shdr("strtab", StrtabOffset, strtab),
      Shdr("dynamic", DynamicOffset, DynamicSize), Shdr("shstrtab", ShstrtabOffset, ShstrtabSize)>>

\* The header a header of this type links to.
LinkedTo(type) == CASE type \in {"gnu_hash", "rel", "versym"}     -> "symtab"
                    [] type \in {"symtab", "verneed", "dynamic"} -> "strtab"
                    [] OTHER                                     -> "null"

\* Mutant of GetIndex: counted from 1.
GetIndexFrom1(type) == CHOOSE k \in DOMAIN Registered : Registered[k].type = type

\* Section header indices count from 0.
GetIndex(type) == (CHOOSE k \in DOMAIN Registered : Registered[k].type = type) - 1

\* RegisterShdr for every section, and ShdrBuilder::Freeze.
RegisterShdrs ==
    /\ At("RegisterShdrs") /\ Return
    /\ shdrs' = [k \in DOMAIN Registered |->
                   [Registered[k] EXCEPT !.link = GetIndex(LinkedTo(Registered[k].type))]]
    /\ UNCHANGED <<phdr, tls_, bin, mem, arrays, rels, sizes, dynamic, filed, eh_table, ehdr, out>>

BuildEhdr ==
    /\ At("BuildEhdr") /\ Return
    /\ ehdr' = [shoff |-> ShdrOffset, shnum |-> Len(shdrs), shstrndx |-> Len(shdrs) - 1]
    /\ UNCHANGED <<phdr, tls_, bin, mem, arrays, rels, sizes, dynamic, filed, eh_table, shdrs, out>>

-----------------------------------------------------------------------------
(***************************************************************************)
(* Emit.  An item goes where the file position is ("check": a CHECK that   *)
(* it is where it should be), or the file is padded up to its place.       *)
(***************************************************************************)
Item(what, at, size, how) == [what |-> what, at |-> at, size |-> size, how |-> how]

\* The program headers EmitPhdrs pushes.
EmittedPhdrs == (IF Executable THEN 2 ELSE 0) + 2 + Len(loads)
                + (IF memsz > 0 THEN 2 ELSE 0) + 2 + 1 + 1

Items ==
    <<Item("phdrs", 64, 56 * EmittedPhdrs, "check"),
      Item("init_array", InitArrayOffset, 8 * Len(init_array), "pad"),
      Item("fini_array", FiniArrayOffset, 8 * Len(fini_array), "check"),
      Item("gnu_hash", GnuHashOffset, 28 + 4 * (nsyms - 1), "check"),
      Item("symtab", SymtabOffset, 24 * nsyms, "check"),
      Item("versym", VersymOffset, IF nverneed > 0 THEN 2 * nsyms ELSE 0, "check"),
      Item("verneed", VerneedOffset, 16 * (nverneed + nvernaux), "check"),
      Item("rel", RelOffset, 24 * Len(rels), "check"),
      Item("strtab", StrtabOffset, strtab, "check"),
      Item("dynamic", DynamicOffset, 16 * Len(dynamic), "check"),
      Item("shstrtab", ShstrtabOffset, ShstrtabSize, "check"),
      Item("code", CodeOffset, 0, "align")>> \o
    [k \in DOMAIN loads |-> Item("load", loads[k].offset, loads[k].filesz, "pad")] \o
    <<Item("tls", tls_file_offset, filesz, "pad"),
      Item("ehframe", EHFrameOffset, 12 + 8 * Len(eh_table), "pad"),
      Item("mprotect", mprotect_file_offset, MprotectSize, "pad")>> \o
    (IF SectionHeaders THEN <<Item("shdrs", ShdrOffset, 64 * Len(shdrs), "check")>> ELSE <<>>)

\* The position before an item; the ELF header is in front of the first.
Start(it) == IF file = <<>> THEN 64 ELSE fpos

\* The CHECKs of Emit and of EmitPad that compare a place with where it should be.
Emittable(it) ==
    /\ it.what = "phdrs" => EmittedPhdrs = CountPhdrs
    /\ CASE it.how = "check" -> Start(it) = it.at
         [] it.how = "pad"   -> Start(it) <= it.at
         [] OTHER            -> AlignNext(Start(it), Page) = it.at

Emit ==
    /\ At("Emit")
    /\ IF pos > Len(Items) THEN Return /\ UNCHANGED out
       ELSE LET it == Items[pos]
            IN  IF (it.what = "phdrs" => bin[1].headers) /\ Emittable(it)
                THEN /\ file' = Append(file, [what |-> it.what, at |-> it.at, size |-> it.size])
                     /\ fpos' = it.at + it.size /\ Proceed
                ELSE Abort /\ UNCHANGED out
    /\ UNCHANGED <<phdr, tls_, bin, mem, arrays, rels, sizes, dynamic, filed, eh_table, shdrs, ehdr>>

Next ==
    \/ DecideMemOffset \/ CollectTLS \/ CollectArrays \/ Relocate
    \/ BuildSymtab \/ BuildInterp \/ BuildArrays \/ BuildDynamic
    \/ BuildLoads \/ BuildEHFrameHeader \/ RegisterShdrs \/ BuildEhdr
    \/ Emit

Spec == Init /\ [][Next]_vars

-----------------------------------------------------------------------------
(***************************************************************************)
(* Properties.                                                             *)
(***************************************************************************)
Slot == {<<0, 0>>} \cup (Bins \X Nat)

\* Every variable has the shape the C++ declarations give it.
TypeOK ==
    /\ pc \in 0..Len(Calls) /\ pos \in Nat
    /\ offsets \in Seq(Nat) /\ eh_table \in Seq(Int)
    /\ {tls_offset, ehframe_offset, mprotect_offset, nsyms, nverneed, nvernaux, strtab, fpos,
        filesz, memsz, bss_offset} \subseteq Nat
    /\ init_array \in Seq(Slot) /\ fini_array \in Seq(Slot)
    /\ DOMAIN bin_to_init \subseteq Bins /\ DOMAIN bin_to_fini \subseteq Bins
    /\ \A r \in Range(rels) : r.at \in Nat
    /\ \A l \in Range(loads) : l.bin \in Bins /\ l.offset \in Nat /\ l.vaddr \in Nat

\* Where Emit wrote a section.
Written(what) == {w \in Range(file) : w.what = what}

\* What the dynamic section and the section headers recorded while the output
\* was growing is where Emit wrote it (sold.cc:191-245, 79-93; sold.h:69-164).
RecordedIsWritten ==
    Done =>
        /\ \A d \in Range(dynamic) : \A w \in Written(d.tag) : d.val = w.at
        /\ \A d \in Range(dynamic) :
             CASE d.tag = "init_arraysz" -> \A w \in Written("init_array") : d.val = w.size
               [] d.tag = "fini_arraysz" -> \A w \in Written("fini_array") : d.val = w.size
               [] d.tag = "relasz"       -> \A w \in Written("rel") : d.val = w.size
               [] d.tag = "strsz"        -> \A w \in Written("strtab") : d.val = w.size
               [] OTHER                  -> TRUE
        /\ \A h \in Range(shdrs) : \A w \in Written(h.type) : h.offset = w.at /\ h.size = w.size

\* Relocations of a slot: the k-th of the array at the address.
RelsOf(at, k) == {j \in DOMAIN rels : rels[j].at = at + 8 * (k - 1)}

\* The loader turns every slot of the output's arrays into the function it
\* holds: exactly one relocation is for it, the one of the same slot of the same
\* input array (sold.cc:436-456, 574-593, 171-189).
SlotsRelocated ==
    Done =>
        /\ \A k \in DOMAIN init_array : \E j \in DOMAIN rels :
             /\ RelsOf(InitArrayOffset, k) = {j}
             /\ rels[j].what = <<"init", init_array[k][1], init_array[k][2]>>
        /\ \A k \in DOMAIN fini_array : \E j \in DOMAIN rels :
             /\ RelsOf(FiniArrayOffset, k) = {j}
             /\ rels[j].what = <<"fini", fini_array[k][1], fini_array[k][2]>>

\* What sold refuses: a binary that is not position independent (DecideMemOffset);
\* a main binary without the headers EmitPhdrs wants (sold.cc:250, elf_binary.cc:214);
\* one without symbols, with a size but no table, or for another machine
\* (sold.h:361, 367, 378); one with relocations but without one of the arrays
\* IsAddrInInitarray and IsAddrInFiniarray insist on (elf_binary.cc:74, 80); and
\* one with a relocation of a type, a version, a place or a TLS offset it cannot
\* handle (sold.cc:731, 677, 695; elf_binary.cc:103, 249, 603).
Refused(b) == \/ ~Movable(b) \/ ~Readable(b) \/ (b = 1 /\ ~bin[b].headers)
              \/ RelsOfBin(b) # <<>> /\ (bin[b].init.addr = 0 \/ bin[b].fini.addr = 0)
              \/ \E r \in Range(RelsOfBin(b)) : ~Supported(b, r)

\* The head of the file ends below the address of the first binary.
HeadFits == offsets # <<>> => CodeOffset < offsets[1]

\* A link that gets to its layout stops only for such a binary, or when the head
\* of the file reaches the first binary, at 256 MiB (sold.cc:135).  The CHECKs that
\* compare what two calls have computed never fail: the size of the template
\* (sold.cc:424), its entry and the place in the arrays that a relocation is
\* moved to (460-463, 576, 585), the size of .eh_frame_hdr, the number of headers,
\* and every position of Emit (sold.h:182, 216-303).  For an excluded .fini_array this is what the
\* option's help says, "Do not use .fini_array of the ELF file" (sold_main.cc:30).
LinkSucceeds == Aborted => (\E b \in Bins : Refused(b)) \/ ~HeadFits

\* The loadable segments EmitPhdrs lists, in its order.
Segment(vaddr, size, mem_size, offset) ==
    [vaddr |-> vaddr, filesz |-> size, memsz |-> mem_size, offset |-> offset]
Segments ==
    <<Segment(0, AlignNext(DynamicOffset + DynamicSize, Page), AlignNext(DynamicOffset + DynamicSize, Page), 0)>> \o
    [k \in DOMAIN loads |-> Segment(loads[k].vaddr, loads[k].filesz, loads[k].memsz, loads[k].offset)] \o
    (IF memsz > 0 THEN <<Segment(tls_offset, filesz, memsz, tls_file_offset)>> ELSE <<>>) \o
    <<Segment(ehframe_offset, 12 + 8 * Len(eh_table), 12 + 8 * Len(eh_table), ehframe_file_offset),
      Segment(mprotect_offset, MprotectSize, MprotectSize, mprotect_file_offset)>>

\* The loadable segments ascend without sharing a page, each is congruent to
\* its place in the file, and the loader finds there what was written for it
\* (sold.cc:133-169, 247-350, 391-406).
SegmentsMap ==
    Done =>
        \A j \in DOMAIN Segments :
            LET g == Segments[j]
            IN  /\ g.vaddr % Page = g.offset % Page
                /\ j > 1 => \E w \in Range(file) : w.at = g.offset /\ w.size = g.filesz
                /\ j < Len(Segments) =>
                     AlignNext(g.vaddr + g.memsz, Page) <= Segments[j + 1].vaddr - (Segments[j + 1].vaddr % Page)

\* A relocation writes to the arrays in the head or to a segment of the binary
\* it came from, or to the template.
RelocationsLand ==
    Done =>
        \A r \in Range(rels) :
            \/ InitArrayOffset <= r.at /\ r.at < GnuHashOffset
            \/ tls_offset <= r.at /\ r.at < tls_offset + filesz
            \/ \E l \in Range(loads) : l.bin = r.what[2] /\ l.vaddr <= r.at /\ r.at < l.vaddr + l.memsz

\* With --section-headers, the ELF header finds the headers, and each header its
\* linked one, although EmitShdrs moves that of .shstrtab to the end.
EmittedShdrs ==
    LET moved == CHOOSE k \in DOMAIN shdrs : shdrs[k].type = "shstrtab"
    IN  [k \in DOMAIN shdrs |-> shdrs[IF k < moved THEN k ELSE IF k < Len(shdrs) THEN k + 1 ELSE moved]]
HeadersFound ==
    Done /\ SectionHeaders =>
        /\ \A w \in Written("shdrs") : w.at = ehdr.shoff /\ w.size = 64 * ehdr.shnum
        /\ EmittedShdrs[ehdr.shstrndx + 1].type = "shstrtab"
        /\ \A h \in Range(EmittedShdrs) : EmittedShdrs[h.link + 1].type = LinkedTo(h.type)
=============================================================================
