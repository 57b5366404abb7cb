---------------------------- MODULE MCOutputLayout ----------------------------
(***************************************************************************)
(* Three binaries with one or two segments, with and without TLS,          *)
(* finalisers, RELRO and relocations in initial TLS values, and those that *)
(* sold refuses.  .init_array and .fini_array touch, as linkers lay them   *)
(* out.                                                                    *)
(***************************************************************************)
EXTENDS OutputLayout, TLC

SlotAddrs(a) == [k \in 1..a.n |-> a.addr + 8 * (k - 1)]

Load(v, f, m) == [vaddr |-> v, filesz |-> f, memsz |-> m]

\* What is the same in most binaries and relocations.
Usual(b) == b @@ [symtab |-> TRUE, tables |-> TRUE, machine |-> "EM_X86_64", headers |-> TRUE, plt_rel |-> <<>>]
Rela(type, sym, at, next_word) == [at |-> at, sym |-> sym, next_word |-> next_word, type |-> type]
Relative(addrs) == [k \in DOMAIN addrs |-> Rela("RELATIVE", "dummy", addrs[k], 0)]

\* A binary of two segments: code, then data that starts inside a page with the
\* initial TLS values, followed by the arrays.
TwoSegments(t, i, f, relro) ==
    LET data_addr == 4096 * 2 - 256
        init == [addr |-> data_addr + t[1], n |-> i]
        fini == [addr |-> data_addr + t[1] + 8 * i, n |-> f]
    IN  Usual([loads |-> <<Load(0, 4000, 4000), Load(data_addr, 400, 6000)>>,
         tls   |-> [vaddr |-> data_addr, filesz |-> t[1], memsz |-> t[2]],
         init  |-> init, fini |-> fini,
         rel   |-> Relative((IF t[1] > 0 THEN <<data_addr + 8>> ELSE <<>>)
                            \o SlotAddrs(init) \o SlotAddrs(fini) \o <<data_addr + 300>>),
         fdes  |-> <<256, 1024>>, relro |-> relro])

\* One segment, no TLS, and the arrays given.
OneSegment(init, fini) ==
    Usual([loads |-> <<Load(0, 5000, 5000)>>,
     tls   |-> [vaddr |-> 0, filesz |-> 0, memsz |-> 0],
     init  |-> init, fini |-> fini, rel |-> Relative(SlotAddrs(init) \o SlotAddrs(fini)),
     fdes  |-> <<512>>, relro |-> 0])

A(addr, n) == [addr |-> addr, n |-> n]

WithArrays ==
    {TwoSegments(t, i, f, relro) : t \in {<<0, 0>>, <<16, 16>>, <<16, 40>>, <<0, 8>>}, i \in 1..2,
                                   f \in 0..1, relro \in 0..1}
    \cup {OneSegment(A(4096, 1), A(4104, 2)), OneSegment(A(4096, 0), A(4096, 1))}

\* In the data of a binary with TLS: relocations for modules and offsets.
GOT == 4096 * 2 + 100
WithRels(rel, plt_rel) ==
    [TwoSegments(<<16, 40>>, 1, 0, 0) EXCEPT !.rel = @ \o rel, !.plt_rel = plt_rel]
Module(sym, next_word) == Rela("DTPMOD64", sym, GOT, next_word)
Offset(at) == Rela("DTPOFF64", "named", at, 0)

\* Local dynamic, for a value and for a zero; general dynamic; the others.
WithTLSRels ==
    {WithRels(<<Module("dummy", w)>>, <<>>) : w \in {15, 16, 39}}
    \cup {WithRels(<<Module("named", 0), Offset(GOT + 8)>>, <<Rela("symbolic", "named", GOT + 24, 0)>>),
          WithRels(<<Rela("TPOFF64", "named", GOT, 0), Rela("COPY", "named", GOT + 16, 0)>>, <<>>),
          [OneSegment(A(4096, 1), A(4104, 1)) EXCEPT !.plt_rel = <<Rela("DTPMOD64", "named", 2048, 99)>>]}

\* An offset behind the segment, a named symbol nothing rewrites, a word that
\* another type or two relocations rewrite, places in no segment.
Unsupported ==
    {WithRels(<<r>>, <<>>) : r \in {Module("dummy", 40), Module("named", 8), Rela("unknown", "dummy", GOT, 0),
                                   Rela("symbolic", "unregistered", GOT, 0),
                                   Rela("TPOFF64", "named", 20000, 0), Rela("DTPMOD64", "dummy", 20000, 0)}}
    \cup {WithRels(<<Module("dummy", 8)>> \o Relative(<<GOT + 8>>), <<>>),
          WithRels(<<Module("dummy", 8), Offset(GOT + 8), Offset(GOT + 12)>>, <<>>)}

Unreadable == LET b == OneSegment(A(4096, 1), A(4104, 1))
              IN  {[b EXCEPT !.symtab = FALSE], [b EXCEPT !.tables = FALSE], [b EXCEPT !.machine = "other"]}

WithoutArrays == {OneSegment(A(0, 0), A(4096, 1)), OneSegment(A(4096, 1), A(0, 0)),
                  [OneSegment(A(0, 0), A(0, 0)) EXCEPT !.rel = Relative(<<256>>)],
                  [OneSegment(A(4096, 1), A(0, 0)) EXCEPT !.rel = Relative(<<256>>)],
                  [OneSegment(A(4096, 1), A(4104, 1)) EXCEPT !.loads[1].vaddr = 4096],
                  [OneSegment(A(4096, 1), A(4104, 1)) EXCEPT !.loads = <<>>]}

MCBinaries == <<{TwoSegments(<<16, 40>>, 2, 1, 1), TwoSegments(<<0, 8>>, 1, 0, 0),
                 OneSegment(A(4096, 1), A(4104, 2)),
                 [OneSegment(A(4096, 1), A(4104, 2)) EXCEPT !.headers = FALSE]},
                WithArrays \cup WithoutArrays \cup WithTLSRels \cup Unsupported \cup Unreadable,
                {TwoSegments(<<16, 16>>, 1, 1, 1), TwoSegments(<<0, 0>>, 1, 1, 0)}>>

\* The null symbol alone; unversioned symbols; three versions of two libraries;
\* tables of more than a page.
MCGrowth == {[syms |-> 1, str |-> 1, needs |-> 0, vers |-> 0], [syms |-> 6, str |-> 50, needs |-> 0, vers |-> 0],
             [syms |-> 4, str |-> 33, needs |-> 2, vers |-> 3], [syms |-> 200, str |-> 3000, needs |-> 1, vers |-> 1]}
MCNone     == {}
MCExcluded == {2}
=============================================================================
