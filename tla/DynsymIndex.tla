----------------------------- MODULE DynsymIndex -----------------------------
(***************************************************************************)
(* ELFBinary::CollectSymbolsFromDynamic: sold and renamer do not read      *)
(* section headers, so they learn how many dynamic symbols a file has from *)
(* its hash table and its relocations.  One step visits one bucket, one    *)
(* chain entry or one relocation.                                          *)
(***************************************************************************)
EXTENDS GnuHash, FiniteSets

CONSTANTS
    Files,      \* the files: [kind, nsyms, tab, relocs], names for kind "emitted"
    Names       \* the names a symbol may have in a table this code wrote

\* A file has one of the hash tables, which CHECK(hash_) wants (elf_binary.cc:160).
FilesAssumption ==
    \A f \in Files : f.kind \in {"gnu", "elf", "emitted"} /\ f.nsyms \in Nat \ {0}

VARIABLES
    file,       \* the file read
    pc,         \* "buckets", "chain", "low", "relocs", "done" or "aborted"
    i,          \* the bucket, or the relocation, looked at
    n,          \* the symbol of the chain looked at
    indices     \* the set that is returned

vars == <<file, pc, i, n, indices>>

Tab == file.tab

Start(f) ==
    /\ file = f
    /\ pc = "buckets" /\ i = 1 /\ n = 0 /\ indices = {}

\* A file read from disk, or one whose table this code has written.
Init ==
    \/ \E f \in Files : Start(f)
    \/ \E k \in 0..2 : \E ns \in [1..k -> Names] :
         LET names == <<<<>>>> \o ns
         IN  Start([kind |-> "emitted", nsyms |-> k + 1, names |-> names,
                    tab |-> EmitGnuHash(names), relocs |-> <<>>])

IsGnu == file.kind # "elf"

\* An empty bucket is skipped.
Bucket ==
    /\ pc = "buckets" /\ i <= Len(Tab.buckets)
    /\ IF Tab.buckets[i] = 0
       THEN i' = i + 1 /\ UNCHANGED <<pc, n>>
       ELSE pc' = "chain" /\ n' = Tab.buckets[i] /\ UNCHANGED i
    /\ UNCHANGED <<file, indices>>

\* Mutant of NextBucket: the same bucket again.
NextBucketStuck == pc' = "buckets" /\ i' = i

NextBucket == pc' = "buckets" /\ i' = i + 1

\* Mutant of EndsChain: the mark is taken for the next chain's first symbol.
EndsChainLate(k) ==
    IF k > Tab.symndx THEN IsOdd(Tab.hashvals[k - Tab.symndx]) ELSE FALSE

EndsChain(k) == IsOdd(Tab.hashvals[k - Tab.symndx + 1])

\* CHECK(indices.insert(n).second)
GnuChain ==
    /\ pc = "chain" /\ IsGnu
    /\ IF n \in indices
       THEN pc' = "aborted" /\ UNCHANGED <<i, n, indices>>
       ELSE /\ indices' = indices \cup {n}
            /\ IF EndsChain(n)
               THEN NextBucket /\ UNCHANGED n
               ELSE n' = n + 1 /\ UNCHANGED <<pc, i>>
    /\ UNCHANGED file

\* n = chains[n] until STN_UNDEF
ElfChain ==
    /\ pc = "chain" /\ ~IsGnu
    /\ indices' = indices \cup {n}
    /\ n' = Tab.chains[n + 1]
    /\ IF n' = 0 THEN NextBucket ELSE UNCHANGED <<pc, i>>
    /\ UNCHANGED file

\* Mutant of LowSymbols: off by one.
LowSymbolsShort == 0..(Tab.symndx - 2)

\* The symbols below symndx are in no chain.
LowSymbols == IF IsGnu THEN 0..(Tab.symndx - 1) ELSE {}

Low ==
    /\ pc = "buckets" /\ i > Len(Tab.buckets)
    /\ indices' = indices \cup LowSymbols
    /\ pc' = "relocs" /\ i' = 1
    /\ UNCHANGED <<file, n>>

RelocSymbol(r) == r.sym

\* CollectSymbolsFromReloc, of rel_ and then of plt_rel_.
Reloc ==
    /\ pc = "relocs"
    /\ IF i <= Len(file.relocs)
       THEN /\ indices' = indices \cup {RelocSymbol(file.relocs[i])}
            /\ i' = i + 1 /\ UNCHANGED pc
       ELSE pc' = "done" /\ UNCHANGED <<i, indices>>
    /\ UNCHANGED <<file, n>>

Next == Bucket \/ GnuChain \/ ElfChain \/ Low \/ Reloc

Spec == Init /\ [][Next]_vars /\ WF_vars(Next)

-----------------------------------------------------------------------------
(* Properties.                                                             *)

\* Types and bounds of the walk: no value outside the table is read.
TypeOK ==
    /\ pc \in {"buckets", "chain", "low", "relocs", "done", "aborted"}
    /\ i \in Nat /\ n \in Nat
    /\ pc = "chain" => n \in 1..(file.nsyms - 1)

Hashed ==
    IF IsGnu
    THEN UNION {ChainFrom(Tab, Tab.buckets[b]) : b \in {b \in DOMAIN Tab.buckets : Tab.buckets[b] # 0}}
    ELSE 1..(file.nsyms - 1)

\* Every symbol that a hash chain, symndx or a relocation shows to exist is
\* returned, and nothing else.  CollectSymbolsFromDynamic, elf_binary.cc:150.
ExactlyTheShown ==
    pc = "done" =>
        indices = Hashed \cup (IF IsGnu THEN 0..(Tab.symndx - 1) ELSE {})
                         \cup {file.relocs[k].sym : k \in DOMAIN file.relocs}

\* No symbol that the file does not have is returned: st_name of a later one
\* would be read from whatever follows .dynsym.
NothingBeyond == indices \subseteq 0..(file.nsyms - 1)

\* The chains of a linker's table are apart: the CHECK of elf_binary.cc:127
\* never fails on one.
NeverTwice == pc # "aborted"

\* The table that EmitGnuHash writes, also the one without symbols, read back
\* by this code, shows every symbol.
EmittedReadBack == (pc = "done" /\ file.kind = "emitted") => indices = 0..(file.nsyms - 1)

\* The loader finds in the emitted table, under every name, the first symbol
\* of that name, whether or not hashes collide, and nothing under other names.
EmittedLooksUp ==
    file.kind = "emitted" =>
        \A name \in Names :
            LET Having == {k \in 1..(file.nsyms - 1) : file.names[k + 1] = name}
                found == Lookup(Tab, file.names, name)
            IN  IF Having = {} THEN found = 0
                ELSE found \in Having /\ \A k \in Having : found <= k
=============================================================================
