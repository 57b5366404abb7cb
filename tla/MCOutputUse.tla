----------------------------- MODULE MCOutputUse ------------------------------
(***************************************************************************)
(* The outputs that the run `output_use' loads, renames and checks.        *)
(***************************************************************************)
EXTENDS OutputUse, FiniteSets, SequencesExt

-----------------------------------------------------------------------------
(* RELRO regions with starts and ends inside pages, sizes below a page, of *)
(* half a Dword and more, and of more than a Dword.                        *)
R(v, m) == [vaddr |-> v, memsz |-> m]

MCRegions ==
    {[code |-> 64, regions |-> r] :
        r \in {<<>>, <<R(20, 12)>>, <<R(16, 16)>>, <<R(21, 5)>>, <<R(16, 20)>>,
               <<R(8, 8), R(36, 12)>>, <<R(13, 3), R(40, 17)>>, <<R(5, 11), R(24, 8), R(45, 19)>>,
               <<R(20, 123)>>, <<R(20, 130), R(200, 8)>>, <<R(16, 250)>>, <<R(13, 255)>>, <<R(8, 8), R(16, 300)>>}}

MCGarbage == {0, 48879}

-----------------------------------------------------------------------------
(* No initialisers or two, no finalisers or two, DT_INIT and DT_FINI or not.*)
MCBinaries == [init : {0, 2}, fini : {0, 2}, dt : SUBSET {"dt_init", "dt_fini"}]
MCExclude  == {{}, {2}}

-----------------------------------------------------------------------------
(* Objects with up to three symbols, and mapping files.                    *)
A == <<1>>
B == <<2>>
C == <<3, 3, 3>>
New == <<4, 4>>
Lib == <<5, 5>>
Ver == <<6>>
Own == <<7, 7>>
Path == <<8>>
Long == <<4, 4, 4, 4, 4, 4, 4>>

\* The old string tables: the linker's order, and the reverse.
Tables == {<<0, 1, 0, 2, 0, 3, 3, 3, 0, 5, 5, 0, 6, 0, 7, 7, 0, 8, 0>>,
           <<0, 8, 0, 7, 7, 0, 6, 0, 5, 5, 0, 3, 3, 3, 0, 2, 0, 1, 0>>}

Strings == INSTANCE StrtabBuilder

Pos(tab, s) == CHOOSE p \in 0..(Len(tab) - 1) : Strings!Str(tab, p) = s /\ (p = 0 \/ tab[p] = 0)

\* What follows .dynstr in the file: .gnu.version, then zeros.
Behind(versym) ==
    [k \in 1..(2 * Len(versym)) |-> IF k % 2 = 1 THEN versym[(k + 1) \div 2] ELSE 0]
        \o [k \in 1..30 |-> 0]

NameLists == {<<>>, <<A>>, <<B, A>>, <<A, B, C>>, <<A, B, A>>}

Versyms(n) ==
    {v \in [1..n -> {0, 1, 2}] :
        v[1] = 0 /\ Cardinality({k \in 1..n : v[k] = 2}) <= 2}

LoadPhdr(off, va, size) == [type |-> "PT_LOAD", offset |-> off, vaddr |-> va, filesz |-> size, memsz |-> size + 3]
NotePhdr(off, va) == [type |-> "PT_NOTE", offset |-> off, vaddr |-> va, filesz |-> 2, memsz |-> 2]
DynamicPhdr == [type |-> "PT_DYNAMIC", offset |-> 20, vaddr |-> 36, filesz |-> 6, memsz |-> 6]

Phdrs == {<<LoadPhdr(0, 0, 16), LoadPhdr(16, 32, 13), DynamicPhdr, NotePhdr(4, 4)>>,
          <<NotePhdr(4, 4), LoadPhdr(0, 0, 16), LoadPhdr(16, 32, 16), DynamicPhdr, NotePhdr(8, 8)>>,
          <<NotePhdr(4, 4), LoadPhdr(0, 0, 16), LoadPhdr(16, 32, 5), DynamicPhdr>>,
          <<LoadPhdr(0, 0, 16), LoadPhdr(16, 32, 5), DynamicPhdr>>}

\* No symbol is versioned in an object that needs no versions.
Object(tab, names, v, ph, extra) ==
    [strtab |-> tab \o Behind(v),
     syms |-> <<0>> \o [k \in DOMAIN names |-> Pos(tab, names[k])],
     versym |-> v,
     indices |-> 0..Len(names),
     dyn |-> <<[tag |-> "DT_NEEDED", val |-> Pos(tab, Lib)], [tag |-> "DT_SONAME", val |-> Pos(tab, Own)],
               [tag |-> "DT_STRTAB", val |-> 3], [tag |-> "DT_GNU_HASH", val |-> 5]>>
             \o [k \in DOMAIN extra |-> [tag |-> extra[k], val |-> Pos(tab, Path)]],
     verneed |-> IF \E k \in DOMAIN v : v[k] = 2 THEN <<Pos(tab, Lib), Pos(tab, Ver)>> ELSE <<>>,
     phdrs |-> ph, filesize |-> 33]

\* The string table is the last thing in the file.
AtEnd(o) == [o EXCEPT !.strtab = SubSeq(@, 1, 19)]

Gapped(o) == [o EXCEPT !.indices = @ \ {1}]

Shapes(namelists, extras) ==
    UNION {{Object(tab, names, v, ph, extra) :
              tab \in Tables, v \in Versyms(Len(names) + 1), ph \in Phdrs, extra \in extras} : names \in namelists}

MCObjects ==
    LET all == Shapes(NameLists, {<<>>, <<"DT_HASH">>})
    IN  all \cup {Gapped(o) : o \in {o \in all : Cardinality(o.indices) = 3}}
            \cup {AtEnd(o) : o \in {o \in all : Cardinality(o.indices) = 4}}

\* Nothing, a rename, a swap, a chain, a new name in use, a repeated line,
\* a repeated target, the name of a library and a long name.
MCMappings == {<<>>, <<<<A, New>>>>, <<<<A, B>>, <<B, A>>>>, <<<<A, B>>, <<B, New>>>>, <<<<A, C>>>>,
               <<<<A, New>>, <<A, C>>>>, <<<<A, New>>, <<B, New>>>>, <<<<Lib, New>>>>,
               <<<<A, Long>>>>}

\* Past the end there are zeros, or something else.
MCStrays == {<<>>, <<9>>}

-----------------------------------------------------------------------------
(* A program with libraries of which some are excluded.  Directories: "in" *)
(* with the program, "lib" where everything is searched, "opt" that only   *)
(* some search paths name, and "other", into which an output may go.       *)
Dirs == {"in", "lib", "opt", "other"}

\* An LD_LIBRARY_PATH; RUNPATH, RPATH and $ORIGIN, in RPATH, besides.
Plain  == [d \in Dirs |-> <<"lib">>]
Runs   == [d \in Dirs |-> <<"lib", "opt">>]
Rpath  == [d \in Dirs |-> <<"opt", "lib">>]
Origin == [d \in Dirs |-> <<d, "lib">>]

TLS(f, m) == [filesz |-> f, memsz |-> m]

Library(soname, neededs, paths, tls, fdes, imports) ==
    [soname |-> soname, needs |-> neededs, paths |-> paths, expands |-> TRUE, tls |-> tls, fdes |-> fdes,
     imports |-> imports, exports |-> {}, reexports |-> {}]

Libc   == Library("libc", <<>>, Plain, TLS(2, 2), 3, {})
Needs3 == {<<>>, <<"libc">>, <<"foo", "libc">>, <<"foo", "bar">>, <<"bar", "libc">>}

\* foo is linked, and may have a TLS variable with a version; bar is excluded
\* or not; both need libc.
Foo(neededs, paths, tls, fdes) ==
    [Library("libfoo", neededs, paths, tls, fdes, {<<"libc", "C1">>})
        EXCEPT !.exports = IF tls.memsz > 0 /\ fdes > 0 THEN {"T1"} ELSE {}]
Bar(neededs) == Library("libbar", neededs, Plain, TLS(0, 0), 1, {<<"libc", "C2">>})

Main(soname, neededs, paths, tls, fdes, exports) ==
    [soname |-> soname, needs |-> neededs, paths |-> paths, expands |-> TRUE, tls |-> tls, fdes |-> fdes,
     imports |-> {<<n, "C1">> : n \in ToSet(neededs)}, exports |-> exports, reexports |-> {}]

\* Each library in the directories given, and the same binary in all of them.
Disk(main, foo, bar, where) ==
    LET named == [n \in {"main", "foo", "bar", "libc"} |->
                    CASE n = "main" -> main [] n = "foo" -> foo [] n = "bar" -> bar [] n = "libc" -> Libc]
    IN  [d \in Dirs |-> [n \in {m \in DOMAIN where : d \in where[m]} |-> named[n]]]

Places(foo, bar) ==
    [n \in {"main", "foo", "bar", "libc"} |->
        CASE n = "main" -> {"in"} [] n = "foo" -> foo [] n = "bar" -> bar [] n = "libc" -> {"lib"}]

Excludes == {{"libc"}, {"libc", "libbar"}}

\* All libraries in one directory, or all but bar: what is needed, and sizes.
Flat == {[main |-> "main", from |-> "in", out |-> out, to |-> "in", exclude |-> exclude,
          disk |-> Disk(main, Foo(fooneeds, Plain, size[1], size[2]), Bar(barneeds), Places({"lib"}, bar))] :
            out \in {"main", "out"}, exclude \in Excludes, bar \in {{}, {"lib"}},
            main \in {Main(soname, neededs, Plain, TLS(k, 5 * k), 2 * k, exports) :
                        soname \in {"", "libmain"}, neededs \in Needs3, k \in {0, 1}, exports \in {{}, {"V1"}}},
            fooneeds \in {<<"libc">>, <<"bar", "libc">>},
            barneeds \in {<<"libc">>, <<"foo", "libc">>},
            size \in {<<TLS(0, 0), 0>>, <<TLS(0, 0), 1>>, <<TLS(0, 2), 0>>, <<TLS(5000, 5002), 1>>}}

\* The output next to the program or not, libraries in one or two directories
\* or in none, and search paths of the program and of foo.
Spread == {[main |-> "main", from |-> "in", out |-> "out", to |-> to, exclude |-> exclude,
            disk |-> Disk(Main("", neededs, mainpaths, TLS(1, 5), 2, {}),
                          Foo(fooneeds, foopaths, TLS(2, 3), 0), Bar(barneeds), Places(foo, bar))] :
            to \in {"in", "other"}, exclude \in Excludes, neededs \in {<<"foo", "libc">>, <<"foo", "bar">>},
            mainpaths \in {Plain, Runs, Origin}, foopaths \in {Plain, Runs, Rpath, Origin},
            fooneeds \in {<<"libc">>, <<"bar", "libc">>},
            barneeds \in {<<"libc">>, <<"foo", "libc">>},
            foo \in {{"lib"}, {"in"}}, bar \in {{"lib"}, {"opt"}, {"lib", "opt"}, {"in", "other"}}}

\* Something that no path may hold, and a library without a soname.
Broken == {[c EXCEPT !.disk = [d \in Dirs |-> [n \in DOMAIN c.disk[d] |->
                IF n # "bar" THEN c.disk[d][n] ELSE [c.disk[d][n] EXCEPT !.expands = expands, !.soname = soname]]]] :
            c \in {x \in Spread : x.to = "in" /\ x.disk["in"]["main"].paths = Plain /\ "bar" \in DOMAIN x.disk["lib"]},
            expands \in {TRUE, FALSE}, soname \in {"", "libbar"}}

MCCommandLines == Flat \cup Spread \cup Broken
=============================================================================
