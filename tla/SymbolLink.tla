------------------------------ MODULE SymbolLink ------------------------------
(***************************************************************************)
(* Symbol resolution in sold: the stages of Sold::Link that read the       *)
(* dynamic symbols of every linked binary, bind every relocation to an     *)
(* address or to an index of the output symbol table, and build that       *)
(* table with its versions (sold.cc, sold.h, symtab_builder.cc).           *)
(*                                                                         *)
(* Binary 1 is the main binary; 1..NBins is link_binaries_ in link order.  *)
(* What a binary contains is chosen as the program reads it: LoadSymbol    *)
(* picks the next entry of its symbol map, the Relocate actions its next   *)
(* relocation.  The address of a defined symbol is abstracted to the       *)
(* binary that holds it (sym.owner).                                       *)
(***************************************************************************)
EXTENDS VersionBuilder, FiniteSets

CONSTANTS
    NBins,       \* number of linked binaries
    Names,       \* symbol names
    DynSyms,     \* DynSyms[b]: entries the .dynsym of binary b may have
    Verneed,     \* Verneed[b], Verdef[b]: its version tables
    Verdef,
    MaxSyms,     \* bound: named dynamic symbols per binary
    MaxRels      \* bound: relocations in all

Bins  == 1..NBins
Binds == {"local", "global", "weak"}

RawSym == [name : Names, versym : Versyms, def : BOOLEAN, tls : BOOLEAN, bind : Binds]

ASSUME InputAssumption ==
    /\ NBins \in Nat \ {0}
    /\ MaxSyms \in Nat /\ MaxRels \in Nat
    /\ NoString \notin Names
    /\ DynSyms \in [Bins -> SUBSET RawSym]
    /\ Verneed \in [Bins -> SUBSET [ndx : Versyms, file : Filenames, version : Versions]]
    /\ Verdef \in [Bins -> SUBSET [ndx : Versyms, soname : Sonames, version : Versions]]

(***************************************************************************)
(* Symbols, keys and table entries.  A key is the (name, soname, version)  *)
(* triple of src_syms_ and syms_; a Syminfo is a key with the version      *)
(* entry and the symbol it came with.                                      *)
(***************************************************************************)
Sym == [def : BOOLEAN, tls : BOOLEAN, bind : Binds, owner : 0..NBins]

Key == [name    : Names \cup {NoString},
        soname  : Sonames \cup {NoString},
        version : Versions \cup {NoString}]

Syminfo == [key : Key, versym : Versyms, sym : Sym]

NullSym == [def |-> FALSE, tls |-> FALSE, bind |-> "local", owner |-> 0]
NullKey == [name |-> NoString, soname |-> NoString, version |-> NoString]

VARIABLES
    phase,      \* the stage of Sold::Link
    cur,        \* the binary the stage is at
    pos,        \* the next element of the vector the stage walks
    maps,       \* maps[b]: GetSymbolMap() of binary b
    loaded,     \* the vector CollectSymbols fills and hands to SetSrcSyms
    src,        \* src_syms_
    fallback,   \* src_fallback_syms_
    syms,       \* syms_
    exposed,    \* exposed_syms_
    public,     \* public_syms_
    rels,       \* the symbolic half of rels_: what each relocation is bound to
    symtab,     \* symtab_
    vb          \* version_

inputs == <<cur, maps>>
tables == <<src, fallback, syms, exposed, public>>
vars   == <<phase, cur, pos, maps, loaded, src, fallback, syms, exposed, public,
            rels, symtab, vb>>

Phases == {"collect", "setsrc", "public", "relocate", "build", "merge", "done", "aborted"}

\* What a relocation became: an address (RELATIVE) or a symbol table index.
Rel == [bin : Bins, key : Key, kind : {"address", "index"}, val : Nat]

Elements(s) == {s[i] : i \in DOMAIN s}

\* The SymtabBuilder constructor exposes the null symbol at index 0.
Init ==
    /\ phase = "collect" /\ cur = 1 /\ pos = 1
    /\ maps = [b \in Bins |-> <<>>]
    /\ loaded = <<>>
    /\ src = [k \in {} |-> 0] /\ fallback = [n \in {} |-> 0]
    /\ syms = [k \in {NullKey} |-> [sym |-> NullSym, index |-> 0]]
    /\ exposed = <<[key |-> NullKey, versym |-> VER_NDX_LOCAL, sym |-> NullSym]>>
    /\ public = <<>> /\ rels = <<>> /\ symtab = <<>>
    /\ vb = NewBuilder

-----------------------------------------------------------------------------
(***************************************************************************)
(* CollectSymbols: LoadDynSymtab for each linked binary in order.          *)
(***************************************************************************)
SyminfoOf(r) ==
    LET v == GetVersion(r.versym, Verneed[cur], Verdef[cur])
    IN  [key    |-> [name |-> r.name, soname |-> v.soname, version |-> v.version],
         versym |-> r.versym,
         sym    |-> [def |-> r.def, tls |-> r.tls, bind |-> r.bind, owner |-> cur]]

\* Mutant of Prio: a weak definition counts as no more than a weak reference.
PrioByBinding(s) == IF s.bind = "weak" THEN 1 ELSE IF s.def THEN 2 ELSE 0

Prio(s) == IF s.def THEN 2 ELSE IF s.bind = "weak" THEN 1 ELSE 0

\* Mutant of Merged: a later definition replaces an earlier one.
MergedLastWins(old, new) ==
    IF Prio(new.sym) >= Prio(old.sym) THEN [old EXCEPT !.sym = new.sym] ELSE old

\* A more concretely defined symbol replaces the one found; versym stays.
Merged(old, new) ==
    IF Prio(new.sym) > Prio(old.sym) THEN [old EXCEPT !.sym = new.sym] ELSE old

\* A binary has a .gnu.version table or it has none, and its linker gave no two
\* entries the same name and version entry, nor a name two unversioned entries.
MayFollow(r) ==
    \A e \in Elements(maps[cur]) :
        /\ (e.versym = NO_VERSION_INFO) = (r.versym = NO_VERSION_INFO)
        /\ e.key.name = r.name => /\ e.versym # r.versym
                                  /\ ~(IsSpecial(e.versym) /\ IsSpecial(r.versym))

\* One symbol of ReadDynSymtab (GetVersion, which may be fatal, and
\* duplicate_check) and of the loop of LoadDynSymtab over the map.  The entry the
\* program stops at is kept, with what is known of it.
LoadSymbol(r) ==
    LET e == SyminfoOf(r)
        found == {i \in DOMAIN loaded : loaded[i].key = e.key}
    IN  /\ phase = "collect"
        /\ Len(maps[cur]) < MaxSyms
        /\ MayFollow(r)
        /\ maps' = [maps EXCEPT ![cur] = Append(@, e)]
        /\ IF \/ UnknownFile(r.versym, Verneed[cur])
              \/ \E d \in Elements(maps[cur]) : d.key = e.key
           THEN phase' = "aborted" /\ UNCHANGED loaded
           ELSE /\ loaded' = IF found = {} THEN Append(loaded, e)
                             ELSE [i \in DOMAIN loaded |->
                                     IF i \in found THEN Merged(loaded[i], e) ELSE loaded[i]]
                /\ UNCHANGED phase
        /\ UNCHANGED <<cur, pos, tables, rels, symtab, vb>>

\* Mutant of NextLoad: the iterator is not checked against the end.
NextLoadPastEnd ==
    /\ phase = "collect"
    /\ cur' = cur + 1 /\ phase' = IF cur < NBins THEN phase ELSE "setsrc"
    /\ UNCHANGED <<pos, maps, loaded, tables, rels, symtab, vb>>

NextLoad ==
    /\ phase = "collect"
    /\ IF cur < NBins THEN cur' = cur + 1 /\ UNCHANGED phase
       ELSE cur' = 1 /\ phase' = "setsrc"
    /\ UNCHANGED <<pos, maps, loaded, tables, rels, symtab, vb>>

-----------------------------------------------------------------------------
(***************************************************************************)
(* SymtabBuilder::SetSrcSyms, one element of the vector at a time.         *)
(***************************************************************************)
\* m[k] is missing or not a definition yet
Replaceable(m, k) == k \in DOMAIN m => ~m[k].sym.def

SetSrcSym ==
    LET s == loaded[pos]
        v == [versym |-> s.versym, sym |-> s.sym]
    IN  /\ phase = "setsrc" /\ pos <= Len(loaded)
        /\ src' = IF Replaceable(src, s.key) THEN Put(src, s.key, v) ELSE src
        /\ fallback' = IF ~IsHidden(s.versym) /\ Replaceable(fallback, s.key.name)
                       THEN Put(fallback, s.key.name, v) ELSE fallback
        /\ pos' = pos + 1
        /\ UNCHANGED <<phase, inputs, loaded, syms, exposed, public, rels, symtab, vb>>

EndSetSrc ==
    /\ phase = "setsrc" /\ pos > Len(loaded)
    /\ phase' = "public" /\ pos' = 1
    /\ UNCHANGED <<inputs, loaded, tables, rels, symtab, vb>>

-----------------------------------------------------------------------------
(***************************************************************************)
(* CopyPublicSymbols: the defined global and weak symbols of the main      *)
(* binary, then the TLS symbols of each of the others.                     *)
(***************************************************************************)
\* Mutant of IsPublic: weak definitions of the main binary are not exported.
IsPublicGlobalOnly(e) ==
    IF cur = 1 THEN e.sym.bind = "global" /\ e.sym.def ELSE e.sym.tls

IsPublic(e) ==
    IF cur = 1 THEN e.sym.bind \in {"global", "weak"} /\ e.sym.def ELSE e.sym.tls

CopyPublicSymbol ==
    LET e == maps[cur][pos]
    IN  /\ phase = "public" /\ pos <= Len(maps[cur])
        /\ public' = IF IsPublic(e) THEN Append(public, e) ELSE public
        /\ pos' = pos + 1
        /\ UNCHANGED <<phase, inputs, loaded, src, fallback, syms, exposed, rels, symtab, vb>>

NextPublic ==
    /\ phase = "public" /\ pos > Len(maps[cur])
    /\ pos' = 1
    /\ IF cur < NBins THEN cur' = cur + 1 /\ UNCHANGED phase
       ELSE cur' = 1 /\ phase' = "relocate"
    /\ UNCHANGED <<maps, loaded, tables, rels, symtab, vb>>

-----------------------------------------------------------------------------
(***************************************************************************)
(* Relocate: SymtabBuilder::Resolve for GLOB_DAT, JUMP_SLOT and 64/ABS64   *)
(* relocations, ResolveCopy for the TLS ones and COPY.                     *)
(***************************************************************************)
NoSource == [versym |-> VER_NDX_LOCAL, sym |-> NullSym]

HasSource(k) == k \in DOMAIN src \/ k.name \in DOMAIN fallback

Source(k) == IF k \in DOMAIN src THEN src[k]
             ELSE IF k.name \in DOMAIN fallback THEN fallback[k.name]
             ELSE NoSource

\* The Symbol a relocation against k sees; a fresh one gets the next index.
IsFresh(k)  == k \notin DOMAIN syms

\* Mutant of SymbolOf: the index is read after the push.
SymbolOfLate(k) == IF IsFresh(k) THEN [sym |-> Source(k).sym, index |-> Len(exposed) + 1]
                   ELSE syms[k]

SymbolOf(k) == IF IsFresh(k) THEN [sym |-> Source(k).sym, index |-> Len(exposed)]
               ELSE syms[k]

\* Mutant of Expose: the symbol is exposed and not remembered in syms_.
ExposeForgets(k) ==
    /\ exposed' = Append(exposed, [key |-> k, versym |-> Source(k).versym, sym |-> NullSym])
    /\ UNCHANGED syms

\* AddSym and the emplace that follows it.
Expose(k) ==
    /\ exposed' = Append(exposed, [key |-> k, versym |-> Source(k).versym, sym |-> NullSym])
    /\ syms' = Put(syms, k, SymbolOf(k))

NewRel(k, kind, val) == Append(rels, [bin |-> cur, key |-> k, kind |-> kind, val |-> val])

\* What Resolve pushes: true and an address, or false and an index.
ResolvedRel(k) ==
    IF SymbolOf(k).sym.def THEN NewRel(k, "address", SymbolOf(k).sym.owner)
    ELSE NewRel(k, "index", SymbolOf(k).index)

Resolve(k) ==
    /\ rels' = ResolvedRel(k)
    /\ IF IsFresh(k) /\ ~SymbolOf(k).sym.def THEN Expose(k) ELSE UNCHANGED <<exposed, syms>>
    /\ UNCHANGED phase

ResolveCopy(k) ==
    IF IsFresh(k) /\ ~HasSource(k)
    THEN phase' = "aborted" /\ UNCHANGED <<rels, exposed, syms>>
    ELSE /\ rels' = NewRel(k, "index", SymbolOf(k).index)
         /\ IF IsFresh(k) THEN Expose(k) ELSE UNCHANGED <<exposed, syms>>
         /\ UNCHANGED phase

Relocating == phase = "relocate" /\ Len(rels) < MaxRels

\* A relocation against an entry of the symbol map of the current binary.
RelocateResolve ==
    /\ Relocating
    /\ \E e \in Elements(maps[cur]) : ~e.sym.tls /\ Resolve(e.key)
    /\ UNCHANGED <<inputs, pos, loaded, src, fallback, public, symtab, vb>>

\* TLS relocations name a TLS symbol, or the null symbol in the local dynamic
\* model; COPY relocations name a definition of the main binary.
RelocateCopy ==
    /\ Relocating
    /\ \E k \in {NullKey} \cup {e.key : e \in {x \in Elements(maps[cur]) :
                                              x.sym.tls \/ (cur = 1 /\ x.sym.def)}} :
          ResolveCopy(k)
    /\ UNCHANGED <<inputs, pos, loaded, src, fallback, public, symtab, vb>>

\* Undefined symbols are in a .dynsym because a relocation refers to them.
AllReferenced ==
    \A e \in Elements(maps[cur]) :
        ~e.sym.def => \E r \in Elements(rels) : r.bin = cur /\ r.key = e.key

NextRelocate ==
    /\ phase = "relocate" /\ AllReferenced
    /\ IF cur < NBins THEN cur' = cur + 1 /\ UNCHANGED phase
       ELSE cur' = 1 /\ phase' = "build"
    /\ UNCHANGED <<pos, maps, loaded, tables, rels, symtab, vb>>

-----------------------------------------------------------------------------
(***************************************************************************)
(* SymtabBuilder::Build and MergePublicSymbols, one symbol at a time.  A   *)
(* symtab_ element keeps what the dynamic loader tells apart: whether its  *)
(* st_shndx says defined, and whose address it has.                        *)
(***************************************************************************)
AddVersion(k, versym, bind) ==
    vb' = Add(vb, versym, k.soname, k.version, bind)

CanAddVersion(k, versym, bind) == Addable(versym, k.soname, k.version, bind)

BuildSymbol ==
    LET x == exposed[pos]
        s == syms[x.key].sym
    IN  /\ phase = "build" /\ pos <= Len(exposed)
        /\ IF ~IsFresh(x.key) /\ CanAddVersion(x.key, x.versym, s.bind)
           THEN /\ symtab' = Append(symtab, [def |-> s.def, owner |-> s.owner])
                /\ AddVersion(x.key, x.versym, s.bind)
                /\ pos' = pos + 1
                /\ UNCHANGED phase
           ELSE phase' = "aborted" /\ UNCHANGED <<symtab, vb, pos>>
        /\ UNCHANGED <<inputs, loaded, tables, rels>>

ExposedKeys == {x.key : x \in Elements(exposed)}

\* The CHECK at the head of MergePublicSymbols.
EndBuild ==
    /\ phase = "build" /\ pos > Len(exposed)
    /\ phase' = IF \A i, j \in DOMAIN exposed : exposed[i].key = exposed[j].key => i = j
                THEN "merge" ELSE "aborted"
    /\ pos' = 1
    /\ UNCHANGED <<inputs, loaded, tables, rels, symtab, vb>>

\* Every public symbol whose key is not exposed yet becomes a definition.
MergePublicSymbol ==
    LET p == public[pos]
    IN  /\ phase = "merge" /\ pos <= Len(public)
        /\ IF p.key \in ExposedKeys
           THEN pos' = pos + 1 /\ UNCHANGED <<exposed, symtab, vb, phase>>
           ELSE IF CanAddVersion(p.key, p.versym, p.sym.bind)
           THEN /\ exposed' = Append(exposed, p)
                /\ symtab' = Append(symtab, [def |-> TRUE, owner |-> p.sym.owner])
                /\ AddVersion(p.key, p.versym, p.sym.bind)
                /\ pos' = pos + 1
                /\ UNCHANGED phase
           ELSE phase' = "aborted" /\ UNCHANGED <<exposed, symtab, vb, pos>>
        /\ UNCHANGED <<inputs, loaded, src, fallback, syms, public, rels>>

EndMerge ==
    /\ phase = "merge" /\ pos > Len(public)
    /\ phase' = "done" /\ public' = <<>>
    /\ UNCHANGED <<inputs, pos, loaded, src, fallback, syms, exposed, rels, symtab, vb>>

-----------------------------------------------------------------------------
Next ==
    \/ \E r \in DynSyms[cur] : LoadSymbol(r)
    \/ NextLoad
    \/ SetSrcSym \/ EndSetSrc
    \/ CopyPublicSymbol \/ NextPublic
    \/ RelocateResolve \/ RelocateCopy \/ NextRelocate
    \/ BuildSymbol \/ EndBuild
    \/ MergePublicSymbol \/ EndMerge

Spec == Init /\ [][Next]_vars

-----------------------------------------------------------------------------
(***************************************************************************)
(* Properties.                                                             *)
(***************************************************************************)
Src == [versym : Versyms, sym : Sym]

\* Every variable has the shape the C++ declarations give it.
TypeOK ==
    /\ phase \in Phases /\ cur \in Bins /\ pos \in Nat \ {0}
    /\ maps \in [Bins -> Seq(Syminfo)]
    /\ loaded \in Seq(Syminfo)
    /\ IsMap(src, Key, Src) /\ IsMap(fallback, Names \cup {NoString}, Src)
    /\ IsMap(syms, Key, [sym : Sym, index : Nat])
    /\ exposed \in Seq(Syminfo) /\ public \in Seq(Syminfo)
    /\ rels \in Seq(Rel)
    /\ symtab \in Seq([def : BOOLEAN, owner : 0..NBins])
    /\ BuilderOK(vb)

\* An index written into a relocation is the place of that relocation's symbol
\* in the table, however many symbols later stages expose (sold.cc:611-632,
\* symtab_builder.cc:55-59).
IndexDenotesKey ==
    \A r \in Elements(rels) :
        r.kind = "index" => /\ r.val < Len(exposed)
                            /\ exposed[r.val + 1].key = r.key

\* No key is exposed twice, so the CHECK at symtab_builder.cc:209 never fires
\* and the loader sees one entry per symbol.
ExposedOnce ==
    \A i, j \in DOMAIN exposed : exposed[i].key = exposed[j].key => i = j

\* The binaries that define a key, and the first of them in link order.
Definers(k) == {b \in Bins : \E e \in Elements(maps[b]) : e.key = k /\ e.sym.def}
FirstDefiner(k) == CHOOSE b \in Definers(k) : \A c \in Definers(k) : b <= c

\* A relocation fixed to an address is fixed to the first definition of its key
\* in link order, and one that keeps an index keeps an undefined symbol only if
\* no linked binary has a definition (the comment at sold.h:312-316).
BindsFirstDefinition ==
    \A r \in Elements(rels) :
        IF r.kind = "address"
        THEN Definers(r.key) # {} /\ r.val = FirstDefiner(r.key)
        ELSE ~syms[r.key].sym.def => Definers(r.key) = {}

\* What the linkers of the inputs see to and sold does not check: definitions of
\* one name are TLS symbols in every binary or in none, and the main binary has no
\* local definition of a TLS symbol in its .dynsym.
TlsByName ==
    /\ \A b, c \in Bins : \A r \in DynSyms[b], s \in DynSyms[c] :
          r.name = s.name /\ r.def /\ s.def => r.tls = s.tls
    /\ \A r \in DynSyms[1] : r.def /\ r.tls => r.bind # "local"

\* A binary has one version entry for each version its tables name.
OneIndexPerVersion ==
    \A b \in Bins :
        \A v, w \in {n.ndx : n \in Verneed[b]} \cup {d.ndx : d \in Verdef[b]} :
            LET x == GetVersion(v, Verneed[b], Verdef[b])
            IN  x.version # NoString /\ x = GetVersion(w, Verneed[b], Verdef[b]) => v = w

\* At the end, a symbol of the table is defined exactly when some linked binary
\* defines its key, and then it is the first such definition: no stage loses a
\* definition or invents one by setting st_shndx to 1.
TableReflectsInputs ==
    phase = "done" =>
        \A i \in 2..Len(symtab) :
            LET k == exposed[i].key
            IN  /\ symtab[i].def <=> Definers(k) # {}
                /\ symtab[i].def => symtab[i].owner = FirstDefiner(k)

\* Every global or weak definition of the main binary is in the output table,
\* whether a relocation exposed it first or MergePublicSymbols added it.
MainExported ==
    phase = "done" =>
        \A e \in Elements(maps[1]) :
            e.sym.def /\ e.sym.bind # "local" =>
                \E i \in DOMAIN symtab : exposed[i].key = e.key /\ symtab[i].owner = 1

\* The .gnu.version array runs parallel to .dynsym, and its entry for a
\* versioned symbol is the index .gnu.version_r gives exactly that file and
\* version; unversioned symbols have a special index.
VersymNamesVersion ==
    LET Numbers == {vb.data[p] : p \in DOMAIN vb.data}
    IN  /\ Len(vb.vers) = Len(symtab)
        /\ \A p, q \in DOMAIN vb.data : vb.data[p] = vb.data[q] => p = q
        /\ \A i \in DOMAIN vb.vers :
             LET k == exposed[i].key
             IN  IF k.version = NoString THEN IsSpecial(vb.vers[i])
                 ELSE LET p == <<SonameToFilename[k.soname], k.version>>
                      IN  p \in DOMAIN vb.data /\ vb.data[p] = vb.vers[i]
        /\ \A n \in Numbers : ~IsSpecial(n)

\* Resolution stops (elf_binary.cc:195, 249, symtab_builder.cc:166, 179, 209,
\* version_builder.cc:27, 32, 35) only if some symbol it has read carries a version
\* entry that leads to no registered library: no table of its binary explains it
\* (GetVersion only warns of that), the file that is needed was not registered,
\* or the binary defines versions under a soname that was not.
AbortsOnlyOnUnregisteredVersion ==
    phase = "aborted" =>
        \E b \in Bins : \E e \in Elements(maps[b]) :
            /\ ~IsSpecial(e.versym) /\ e.versym # NO_VERSION_INFO
            /\ e.key.soname \notin DOMAIN SonameToFilename

\* The comment at symtab_builder.h:61-63 promises the name-only fallback to a
\* reference without version information: the symbol of such a reference does
\* not stay undefined if a linked binary defines that name and does not hide it.
FallbackBinds ==
    \A r \in Elements(rels) :
        r.kind = "index" /\ r.key.version = NoString /\ r.key # NullKey =>
            \/ syms[r.key].sym.def
            \/ ~\E b \in Bins : \E e \in Elements(maps[b]) :
                   e.key.name = r.key.name /\ e.sym.def /\ ~IsHidden(e.versym)

\* The comment at sold.h:312-315 promises that merging throws the undefined one
\* of two symbols away: what is kept of a defined symbol is then its own entry.
UndefinedThrownAway ==
    \A x \in Elements(loaded) :
        x.sym.def => \E e \in Elements(maps[x.sym.owner]) : e = x

-----------------------------------------------------------------------------
(***************************************************************************)
(* SymbolScope states what linking promises; the relocation table with the *)
(* symbols its indices refer to implements it.                             *)
(***************************************************************************)
BoundTo(r) == IF r.kind = "address" THEN r.val
              ELSE IF syms[r.key].sym.def THEN syms[r.key].sym.owner ELSE 0

Scope == INSTANCE SymbolScope WITH
            Keys  <- Key,
            scope <- {<<e.key, e.sym.owner>> :
                        e \in {x \in UNION {Elements(maps[b]) : b \in Bins} : x.sym.def}},
            bound <- {<<r.key, BoundTo(r)>> : r \in Elements(rels)}

\* Every step of the linker is a step of the abstract scope or leaves it alone.
ImplementsScope == Scope!Spec
=============================================================================
