------------------------------ MODULE MCReaders -------------------------------
(***************************************************************************)
(* The files that the run `readers' has its parts read.                    *)
(***************************************************************************)
EXTENDS Readers, FiniteSets, SequencesExt, TLC

-----------------------------------------------------------------------------
(* Sections of up to four entries in every order, and what BuildDynamic writes.*)
DynEntry(tag, val) == [tag |-> tag, val |-> val]

MCEntries ==
    {DynEntry("STRTAB", 100), DynEntry("NEEDED", 1), DynEntry("NEEDED", 2), DynEntry("SONAME", 3),
     DynEntry("RPATH", 4), DynEntry("INIT_ARRAY", 200), DynEntry("INIT_ARRAYSZ", 16),
     DynEntry("FINI_ARRAY", 300), DynEntry("FINI_ARRAYSZ", 8), DynEntry("PLTREL", 7),
     DynEntry("PLTREL", 17), DynEntry("REL", 400), DynEntry("FINI_ARRAY", 900),
     DynEntry("ignored", 9)}

MCInSegments == 100..699

MCOutputs == [needed : {<<>>, <<1>>, <<1, 2>>}, soname : {0, 3}, rpath : {0, 4}, runpath : {0, 5},
              init : {0, 500}, fini : {0, 501}, init_array : {200}, ninit : {1, 3}, nfini : {0, 2},
              tables : {100}, nverneed : {0, 1}, nrels : {1, 2}]

-----------------------------------------------------------------------------
(* Hash tables of up to four symbols, of other linkers and with relocations.*)
Gnu == INSTANCE GnuHash

MaxSyms == 4

MCNames == {<<1>>, <<2>>, <<9>>, <<1, 1>>}

\* The relocations: none, one, or one of each table, of any symbol.
Relocs(nsyms) ==
    {<<>>} \cup {<<[sym |-> s, type |-> 7]>> : s \in 0..(nsyms - 1)}
           \cup {<<[sym |-> 1, type |-> 7], [sym |-> nsyms - 1, type |-> 6]>>}

\* The symbols from symndx on are grouped by bucket, b[s]: a chain is a run.
\* A linker writes the empty table with symndx 1 and one bucket of 0.
GnuTables(nsyms) ==
    {[nbuckets |-> nb, symndx |-> lo,
      buckets |-> [k \in 1..nb |->
         LET Mine == {s \in lo..(nsyms - 1) : b[s] = k}
         IN  IF Mine = {} THEN 0 ELSE CHOOSE s \in Mine : \A t \in Mine : s <= t],
      hashvals |-> [v \in 1..(nsyms - lo) |->
         IF lo + v = nsyms \/ b[lo + v - 1] # b[lo + v] THEN 5 ELSE 4]] :
        nb \in 1..3, lo \in 1..nsyms,
        b \in {b \in [1..(nsyms - 1) -> 1..3] :
                 \A s \in 1..(nsyms - 1) : \A t \in s..(nsyms - 1) : b[s] = b[t] \/
                    \A u \in t..(nsyms - 1) : b[u] # b[s]}}

WellFormed(t, nsyms) ==
    \A k \in t.symndx..(nsyms - 1) : k \in UNION {Gnu!ChainFrom(t, t.buckets[j]) : j \in {j \in DOMAIN t.buckets : t.buckets[j] # 0}}

GnuFiles ==
    UNION {{[kind |-> "gnu", nsyms |-> ns, tab |-> t, relocs |-> r] :
              t \in {t \in GnuTables(ns) : WellFormed(t, ns)}, r \in Relocs(ns)} : ns \in 2..MaxSyms}

EmptyGnuFiles ==
    {[kind |-> "gnu", nsyms |-> 3, relocs |-> r,
      tab |-> [nbuckets |-> 1, symndx |-> 1, buckets |-> <<0>>, hashvals |-> <<>>]] : r \in Relocs(3)}

\* Chains of an ELF hash table go from later symbols to earlier ones.
ElfFiles ==
    UNION {{[kind |-> "elf", nsyms |-> ns, relocs |-> r,
             tab |-> [buckets |-> [k \in 1..2 |->
                         LET Mine == {s \in 1..(ns - 1) : b[s] = k}
                         IN  IF Mine = {} THEN 0 ELSE CHOOSE s \in Mine : \A t \in Mine : s >= t],
                      chains |-> [c \in 1..ns |->
                         IF c = 1 THEN 0 ELSE
                         LET Earlier == {s \in 1..(c - 2) : b[s] = b[c - 1]}
                         IN  IF Earlier = {} THEN 0 ELSE CHOOSE s \in Earlier : \A t \in Earlier : s >= t]]] :
              b \in [1..(ns - 1) -> 1..2], r \in Relocs(ns)} : ns \in 2..MaxSyms}

MCHashFiles == GnuFiles \cup EmptyGnuFiles \cup ElfFiles

-----------------------------------------------------------------------------
(* Version tables as other linkers lay them out.                           *)
LibF == "libf.so"
LibG == "libg.so"
MCToSoname == LibF :> "libf.so.1" @@ LibG :> "libg.so.1"
MCToFilename == "libf.so.1" :> LibF @@ "libg.so.1" :> LibG

Vn(cnt, f, aux, next) == [cnt |-> cnt, file |-> f, aux |-> aux, next |-> next]
Vna(other, v, next) == [other |-> other, name |-> v, next |-> next]
Need(f, v, n) == [file |-> f, version |-> v, ndx |-> n]
Vd(base, ndx, aux, next) == [base |-> base, ndx |-> ndx, aux |-> aux, next |-> next]
Def(s, v, n) == [soname |-> s, version |-> v, ndx |-> n]

\* g names the second file; the auxiliary records come after all the files.
Needing(g) ==
    [mem |-> 1 :> Vn(2, LibF, 32, 16) @@ 17 :> Vn(1, g, 48, 0) @@
             33 :> Vna(3, "V1", 16) @@ 49 :> Vna(32770, "V2", 0) @@ 65 :> Vna(2, "V1", 0),
     needs |-> {Need(LibF, "V1", 3), Need(LibF, "V2", 32770), Need(g, "V1", 2)}, verneednum |-> 2]

\* The base definition first, last or missing.
Defining ==
    {[mem |-> 101 :> Vd(TRUE, 1, 20, 28) @@ 121 :> [name |-> "own.so"] @@
              129 :> Vd(FALSE, 4, 20, 0) @@ 149 :> [name |-> "V9"], defs |-> {Def("own.so", "V9", 4)}],
     [mem |-> 101 :> Vd(FALSE, 4, 20, 28) @@ 121 :> [name |-> "V9"] @@
              129 :> Vd(TRUE, 1, 20, 0) @@ 149 :> [name |-> "own.so"], defs |-> {Def("own.so", "V9", 4)}],
     [mem |-> 101 :> Vd(FALSE, 4, 20, 28) @@ 121 :> [name |-> "V9"] @@
              129 :> Vd(FALSE, 5, 20, 0) @@ 149 :> [name |-> "V8"], defs |-> {}]}

VersymLists == [1..3 -> {0, 2, 3, 4, 5, 32770, 32772}]

MCVersionFiles ==
    {[mem |-> n.mem @@ d.mem, verneed |-> 1, verneednum |-> n.verneednum, verdef |-> 101, verdefnum |-> 2,
      versym |-> v, needs |-> n.needs, defs |-> d.defs] :
        n \in {Needing(LibG), Needing("unknown.so")}, d \in Defining, v \in VersymLists}
    \cup
    {[mem |-> d.mem, verneed |-> 0, verneednum |-> 0, verdef |-> 101, verdefnum |-> 2,
      versym |-> v, needs |-> {}, defs |-> d.defs] : d \in Defining, v \in VersymLists}

-----------------------------------------------------------------------------
(* CIEs as a compiler encodes them, starting anywhere modulo the word.     *)
Letters == {<<>>, <<122, 82>>, <<122, 82, 83>>, <<122, 83, 82>>, <<122, 76, 82>>,
            <<122, 80, 82>>, <<122, 80, 76, 82>>, <<122, 76, 80, 82>>}

\* Numbers of one and two bytes whose parts look like encodings.
Numbers == {<<1>>, <<155, 27>>}

Encodings == {3, 27}

NoEncoding == 238

Personalities == {0, 1, 15, 27, 80, 155}

Zeros(n) == [i \in 1..n |-> 0]

\* The augmentation data of letter c when it starts at offset p.
Data(c, p, fde, lsda, pers) ==
    CASE c = 82 -> <<fde>>
      [] c = 76 -> <<lsda>>
      [] c = 80 -> <<pers>> \o
            (CASE pers = 80 -> Zeros(((8 - ((p + 1) % 8)) % 8) + 8)
               [] pers = 0 -> Zeros(8)
               [] pers = 1 -> <<155, 27>>
               [] OTHER -> Zeros(4))
      [] OTHER -> <<>>

CIE(start, aug, num, fde, lsda, pers) ==
    LET head == Zeros(start) \o <<24, 0, 0, 0, 0, 0, 0, 0, 1>> \o aug \o <<0>>
                \o num \o <<120>> \o num
        data == IF aug = <<>> THEN head
                ELSE FoldLeft(LAMBDA bytes, c : bytes \o Data(c, Len(bytes), fde, lsda, pers),
                              Append(head, 27), Tail(aug))
        has(c) == Contains(aug, c)
    IN  [bytes |-> data \o Zeros(24), cie |-> start, end |-> Len(data),
         fde |-> IF has(82) THEN fde ELSE NoEncoding,
         lsda |-> IF has(76) THEN lsda ELSE NoEncoding,
         personality |-> IF has(80) THEN pers % 128 ELSE 0,
         known |-> aug # <<122, 83, 82>>]

MCMems == {CIE(start, aug, num, fde, lsda, pers) :
              start \in {0, 1, 3, 6}, aug \in Letters, num \in Numbers,
              fde \in Encodings, lsda \in Encodings, pers \in Personalities}

-----------------------------------------------------------------------------
(* Binaries whose segments lie in the file in different ways.              *)
Load(vaddr, off, filesz, memsz) ==
    [type |-> "LOAD", vaddr |-> vaddr, offset |-> off, filesz |-> filesz, memsz |-> memsz]
Hdr(vaddr, off, filesz) == [Load(vaddr, off, filesz, filesz) EXCEPT !.type = "GNU_EH_FRAME"]
TLS(vaddr, off) == [Load(vaddr, off, 0, 4) EXCEPT !.type = "TLS"]

FDE(pc, len, fde, c, extended) ==
    [pc |-> pc, len |-> len, at |-> fde, cie |-> c, extended |-> extended]

\* Everything in one segment.
Plain == [usual |-> TRUE, phdrs |-> <<Load(0, 0, 80, 80), Hdr(8, 8, 28)>>,
          fdes |-> <<FDE(64, 4, 48, 36, FALSE), FDE(70, 8, 56, 36, FALSE)>>]

\* .eh_frame in a segment behind one with .bss, at other offsets, the header
\* first and its own segment last.
Apart == [usual |-> TRUE,
          phdrs |-> <<Hdr(100, 52, 28), Load(0, 0, 16, 16), Load(32, 16, 8, 24),
                      Load(64, 24, 24, 24), Load(96, 48, 32, 32)>>,
          fdes |-> <<FDE(0, 16, 76, 64, FALSE), FDE(32, 2, 68, 64, FALSE)>>]

\* An FDE with an extended length, and a TLS segment between two others.
Extended64 == [usual |-> TRUE,
               phdrs |-> <<Load(0, 0, 32, 32), TLS(32, 32), Load(48, 32, 48, 48), Hdr(48, 32, 20)>>,
               fdes |-> <<FDE(20, 12, 76, 68, TRUE)>>]

NoFDEs == [usual |-> TRUE, phdrs |-> <<Load(0, 0, 40, 40), Hdr(16, 16, 12)>>, fdes |-> <<>>]
NoHeader == [usual |-> TRUE, phdrs |-> <<Load(0, 0, 16, 16), Load(16, 16, 8, 8)>>, fdes |-> <<>>]
Unusual == [Plain EXCEPT !.usual = FALSE]
Short == [Plain EXCEPT !.phdrs = <<Load(0, 0, 80, 80), Hdr(8, 8, 24)>>]

Good == {Plain, Apart, Extended64, NoFDEs, NoHeader}

MCBinaries == {<<x>> : x \in Good} \cup {<<x, y>> : x \in Good, y \in Good}
            \cup {<<Plain, Apart, Extended64>>, <<Apart, Plain, Plain>>, <<Extended64, NoFDEs, Apart>>}
            \cup {<<Plain, Unusual>>, <<Apart, Short>>}

-----------------------------------------------------------------------------
(* The main file and two others, each with some of the statements.         *)
Statements == {<<"directory", "/a">>, <<"directory", "/b">>, <<"comment", "">>,
               <<"include", "*.conf">>, <<"include", "one.conf">>, <<"include", "none">>}

Texts(n) == UNION {[1..k -> Statements] : k \in 0..n}

Glob == [p \in {"*.conf", "one.conf", "none"} |->
            CASE p = "*.conf"   -> <<"one.conf", "two.conf">>
              [] p = "one.conf" -> <<"one.conf">>
              [] p = "none"     -> <<>>]

MainFile == "ld.so.conf"

Texts3(r, o, t) == [n \in {MainFile, "one.conf", "two.conf"} |->
                      CASE n = MainFile -> r [] n = "one.conf" -> o [] n = "two.conf" -> t]

\* Also with files that glob finds and that cannot be read, and without the
\* main file.
MCSystems ==
    LET all == {Texts3(r, o, t) : r \in Texts(2), o \in Texts(2), t \in {<<>>, <<<<"directory", "/t">>, <<"include", "*.conf">>>>}}
        unreadable == {[n \in {MainFile, "one.conf"} |-> f[n]] : f \in all}
    IN  {[glob |-> Glob, files |-> f] : f \in all \cup unreadable}
        \cup {[glob |-> Glob, files |-> [n \in {"one.conf"} |-> <<<<"directory", "/a">>>>]]}
=============================================================================
