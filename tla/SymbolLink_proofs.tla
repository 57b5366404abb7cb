--------------------------- MODULE SymbolLink_proofs ---------------------------
(***************************************************************************)
(* Theorems about SymbolLink for every value of its constants: the type    *)
(* invariant, that no key is exposed twice, that the index a relocation    *)
(* carries keeps denoting the symbol it was made for, and that the         *)
(* .gnu.version entry of a versioned symbol is the number .gnu.version_r   *)
(* gives its file and version.  Then what symbol resolution binds to, the  *)
(* first definition in link order: the proof follows a definition through  *)
(* the tables it passes, the symbol maps, the vector of CollectSymbols,    *)
(* src_syms_, syms_ and the relocations.                                   *)
(***************************************************************************)
EXTENDS SymbolLink, TLAPS, SequenceTheorems

-----------------------------------------------------------------------------
(***************************************************************************)
(* Maps and builders.                                                      *)
(***************************************************************************)
\* Assigning one element of a map keeps its key and value types.
LEMMA PutType ==
    ASSUME NEW m, NEW D, NEW R, IsMap(m, D, R), NEW k \in D, NEW v \in R
    PROVE  IsMap(Put(m, k, v), D, R)
BY DEF IsMap, Put

\* The keys of the result of an assignment.
LEMMA PutDomain ==
    ASSUME NEW m, NEW k, NEW v
    PROVE  /\ DOMAIN Put(m, k, v) = DOMAIN m \cup {k}
           /\ Put(m, k, v)[k] = v
           /\ \A j \in DOMAIN m : j # k => Put(m, k, v)[j] = m[j]
BY DEF Put

\* The empty builder is well formed.
LEMMA NewBuilderOK == BuilderOK(NewBuilder)
BY DEF BuilderOK, NewBuilder, IsMap

\* Giving a version its number keeps the builder well formed.
LEMMA NumberedOK ==
    ASSUME NEW b, BuilderOK(b), NEW file \in Filenames, NEW version \in Versions
    PROVE  LET n == Numbered(b, file, version)
           IN  /\ BuilderOK(n)
               /\ <<file, version>> \in DOMAIN n.data
<1> DEFINE p == <<file, version>>
           d == Put(b.data, p, b.vernum)
<1>1. CASE p \in DOMAIN b.data
  BY <1>1 DEF Numbered
<1>2. CASE p \notin DOMAIN b.data
  <2>1. Numbered(b, file, version)
          = [vernum |-> b.vernum + 1, data |-> d, vers |-> b.vers]
    BY <1>2 DEF Numbered
  <2>2. p \in Filenames \X Versions
    OBVIOUS
  <2>3. /\ IsMap(b.data, Filenames \X Versions, Nat)
        /\ b.vernum \in Nat /\ b.vers \in Seq(Nat)
    BY DEF BuilderOK
  <2>4. IsMap(d, Filenames \X Versions, Nat)
    BY <2>2, <2>3, PutType, Zenon
  <2>5. <<file, version>> \in DOMAIN d
    BY DEF Put
  <2> HIDE DEF d
  <2>6. BuilderOK([vernum |-> b.vernum + 1, data |-> d, vers |-> b.vers])
    BY <2>3, <2>4 DEF BuilderOK
  <2> QED BY <2>1, <2>5, <2>6
<1> QED BY <1>1, <1>2

\* Appending a version entry keeps the builder well formed.
LEMMA WithVersymOK ==
    ASSUME NEW b, BuilderOK(b), NEW v \in Nat
    PROVE  BuilderOK(WithVersym(b, v))
<1>1. b.vers \in Seq(Nat)
  BY DEF BuilderOK
<1>2. Append(b.vers, v) \in Seq(Nat)
  BY <1>1, AppendProperties
<1> QED BY <1>2 DEF BuilderOK, WithVersym

\* Version entries are 16-bit numbers.
LEMMA VersymsNat == \A versym \in Versyms : versym \in Nat
<1> DEFINE n == 65535
<1>1. Versyms = 0..n
  BY DEF Versyms
<1>2. n \in Nat
  OBVIOUS
<1> HIDE DEF n
<1> QED BY <1>1, <1>2

\* VersionBuilder::Add keeps the builder well formed whenever its CHECKs pass.
LEMMA AddOK ==
    ASSUME NEW b, BuilderOK(b), NEW versym \in Versyms,
           NEW soname \in Sonames \cup {NoString},
           NEW version \in Versions \cup {NoString},
           NEW bind \in Binds, Addable(versym, soname, version, bind)
    PROVE  BuilderOK(Add(b, versym, soname, version, bind))
<1> DEFINE v == Inferred(versym, bind)
           file == SonameToFilename[soname]
           n == Numbered(b, file, version)
           w == n.data[<<file, version>>]
<1>1. v \in Nat
  <2>1. Inferred(versym, bind) \in {versym, 0, 1}
    BY DEF Inferred, VER_NDX_GLOBAL, VER_NDX_LOCAL
  <2>2. versym \in Nat
    BY VersymsNat
  <2> QED BY <2>1, <2>2
<1>2. CASE IsSpecial(v)
  <2>1. Add(b, versym, soname, version, bind) = WithVersym(b, v)
    BY <1>2 DEF Add
  <2> QED BY <1>1, <2>1, WithVersymOK
<1>3. CASE ~IsSpecial(v)
  <2>1. file \in Filenames /\ version \in Versions
    BY <1>3, NamesAssumption DEF Addable, IsMap
  <2>2. BuilderOK(n) /\ <<file, version>> \in DOMAIN n.data
    BY <2>1, NumberedOK
  <2>3. w \in Nat
    BY <2>2 DEF BuilderOK, IsMap
  <2>4. Add(b, versym, soname, version, bind) = WithVersym(n, w)
    BY <1>3 DEF Add
  <2> QED BY <2>2, <2>3, <2>4, WithVersymOK
<1> QED BY <1>2, <1>3

-----------------------------------------------------------------------------
(***************************************************************************)
(* Types of the values the actions build.                                  *)
(***************************************************************************)
\* The names and the null values belong to their types.
LEMMA Constants ==
    /\ NullSym \in Sym /\ NullKey \in Key /\ VER_NDX_LOCAL \in Versyms
    /\ NoSource \in Src
<1>1. NullSym \in Sym
  BY InputAssumption DEF NullSym, Sym, Binds
<1>2. NullKey \in Key
  BY DEF NullKey, Key
<1>3. VER_NDX_LOCAL \in Versyms
  BY DEF Versyms, VER_NDX_LOCAL
<1> QED BY <1>1, <1>2, <1>3 DEF NoSource, Src

\* GetVersion yields names the tables hold, or two empty strings.
LEMMA GetVersionType ==
    ASSUME NEW versym, NEW b \in Bins
    PROVE  LET v == GetVersion(versym, Verneed[b], Verdef[b])
           IN  /\ v.soname \in Sonames \cup {NoString}
               /\ v.version \in Versions \cup {NoString}
<1> DEFINE needs == IsNeeded(versym, Verneed[b])
           known == ~UnknownFile(versym, Verneed[b])
           defs  == {d \in Verdef[b] : d.ndx = versym}
           x == Needed(versym, Verneed[b])
           y == CHOOSE d \in defs : TRUE
<1>1. needs => x \in Verneed[b] /\ x.version \in Versions
  BY InputAssumption DEF IsNeeded, Needed
<1>1a. needs /\ known => FilenameToSoname[x.file] \in Sonames
  BY NamesAssumption DEF UnknownFile, IsMap
<1>2. defs # {} => y.soname \in Sonames /\ y.version \in Versions
  BY InputAssumption
<1>3. GetVersion(versym, Verneed[b], Verdef[b]) =
        IF versym = NO_VERSION_INFO \/ IsSpecial(versym) \/ ~known THEN Unversioned
        ELSE IF needs THEN [soname |-> FilenameToSoname[x.file], version |-> x.version]
        ELSE IF defs # {} THEN [soname |-> y.soname, version |-> y.version]
        ELSE Unversioned
  BY DEF GetVersion
<1> HIDE DEF needs, known, defs, x, y
<1> QED BY <1>1, <1>1a, <1>2, <1>3 DEF Unversioned

\* An entry of a .dynsym becomes a Syminfo.
LEMMA SyminfoOfType ==
    ASSUME cur \in Bins, NEW r \in DynSyms[cur]
    PROVE  SyminfoOf(r) \in Syminfo
<1>1. r \in RawSym
  BY InputAssumption
<1> DEFINE v == GetVersion(r.versym, Verneed[cur], Verdef[cur])
<1>2. v.soname \in Sonames \cup {NoString} /\ v.version \in Versions \cup {NoString}
  BY GetVersionType
<1>3. SyminfoOf(r).key = [name |-> r.name, soname |-> v.soname, version |-> v.version]
  BY DEF SyminfoOf
<1> HIDE DEF v
<1>4. SyminfoOf(r).key \in Key
  BY <1>1, <1>2, <1>3 DEF Key, RawSym
<1>5. SyminfoOf(r).versym \in Versyms /\ SyminfoOf(r).sym \in Sym
  BY <1>1, InputAssumption DEF SyminfoOf, RawSym, Sym, Bins
<1>6. SyminfoOf(r) = [key |-> SyminfoOf(r).key, versym |-> SyminfoOf(r).versym,
                      sym |-> SyminfoOf(r).sym]
  BY DEF SyminfoOf
<1> QED BY <1>4, <1>5, <1>6 DEF Syminfo

\* Merging two Syminfos yields a Syminfo.
LEMMA MergedType ==
    ASSUME NEW old \in Syminfo, NEW new \in Syminfo
    PROVE  Merged(old, new) \in Syminfo
BY DEF Merged, Syminfo

\* What src_syms_ or src_fallback_syms_ holds for a key is typed.
LEMMA SourceType ==
    ASSUME TypeOK, NEW k \in Key
    PROVE  Source(k) \in Src
BY Constants DEF TypeOK, IsMap, Source

\* The Symbol a relocation sees is typed.
LEMMA SymbolOfType ==
    ASSUME TypeOK, NEW k \in Key
    PROVE  SymbolOf(k) \in [sym : Sym, index : Nat]
<1>1. Source(k).sym \in Sym
  BY SourceType DEF Src
<1>2. Len(exposed) \in Nat
  BY LenProperties DEF TypeOK
<1> QED BY <1>1, <1>2 DEF TypeOK, IsMap, SymbolOf, IsFresh

\* AddSym and the emplace keep the types of both tables.
LEMMA ExposeType ==
    ASSUME TypeOK, NEW k \in Key, Expose(k)
    PROVE  /\ exposed' \in Seq(Syminfo)
           /\ IsMap(syms', Key, [sym : Sym, index : Nat])
<1> DEFINE x == [key |-> k, versym |-> Source(k).versym, sym |-> NullSym]
<1>1. x \in Syminfo
  BY SourceType, Constants DEF Src, Syminfo
<1>2. exposed' = Append(exposed, x)
  BY DEF Expose
<1> HIDE DEF x
<1>3. exposed' \in Seq(Syminfo)
  BY <1>1, <1>2, AppendProperties DEF TypeOK
<1>4. IsMap(syms', Key, [sym : Sym, index : Nat])
  BY SymbolOfType, PutType DEF Expose, TypeOK
<1> QED BY <1>3, <1>4

\* What Resolve pushes is a relocation.
LEMMA ResolvedRelType ==
    ASSUME TypeOK, NEW k \in Key
    PROVE  /\ ResolvedRel(k) \in Seq(Rel)
           /\ NewRel(k, "index", SymbolOf(k).index) \in Seq(Rel)
<1>1. SymbolOf(k).sym.owner \in Nat /\ SymbolOf(k).index \in Nat
  BY SymbolOfType, InputAssumption DEF Sym
<1>2. ASSUME NEW kind \in {"address", "index"}, NEW val \in Nat
      PROVE  NewRel(k, kind, val) \in Seq(Rel)
  <2>1. [bin |-> cur, key |-> k, kind |-> kind, val |-> val] \in Rel
    BY DEF Rel, TypeOK
  <2> QED BY <2>1, AppendProperties DEF TypeOK, NewRel
<1> QED BY <1>1, <1>2 DEF ResolvedRel

-----------------------------------------------------------------------------
(***************************************************************************)
(* The inductive invariant.                                                *)
(***************************************************************************)
\* The stages in which exposed_syms_ and syms_ hold the same keys.
BeforeMerge == {"collect", "setsrc", "public", "relocate", "build"}

\* Until MergePublicSymbols, every exposed symbol is in syms_.
ExposedKnown ==
    phase \in BeforeMerge => \A i \in DOMAIN exposed : exposed[i].key \in DOMAIN syms

\* The index syms_ remembers for a key is its place in exposed_syms_.
IndexRemembered ==
    \A k \in DOMAIN syms :
        /\ syms[k].index < Len(exposed)
        /\ exposed[syms[k].index + 1].key = k

-----------------------------------------------------------------------------
(***************************************************************************)
(* Type correctness.                                                       *)
(***************************************************************************)
\* The initial state is typed.
LEMMA TypeInit == Init => TypeOK
<1> SUFFICES ASSUME Init PROVE TypeOK
  OBVIOUS
<1> USE DEF Init
<1>1. phase \in Phases /\ cur \in Bins /\ pos \in Nat \ {0}
  BY InputAssumption DEF Phases, Bins
<1>2. maps \in [Bins -> Seq(Syminfo)]
  OBVIOUS
<1>3. loaded \in Seq(Syminfo) /\ public \in Seq(Syminfo) /\ rels \in Seq(Rel)
      /\ symtab \in Seq([def : BOOLEAN, owner : 0..NBins])
  OBVIOUS
<1>4. IsMap(src, Key, Src) /\ IsMap(fallback, Names \cup {NoString}, Src)
  BY DEF IsMap
<1>5. IsMap(syms, Key, [sym : Sym, index : Nat])
  BY Constants DEF IsMap
<1>6. exposed \in Seq(Syminfo)
  BY Constants DEF Syminfo
<1>7. BuilderOK(vb)
  BY NewBuilderOK
<1> QED BY <1>1, <1>2, <1>3, <1>4, <1>5, <1>6, <1>7 DEF TypeOK

\* The collecting stage keeps the types.
LEMMA TypeLoad ==
    ASSUME TypeOK, NEW r \in DynSyms[cur], LoadSymbol(r)
    PROVE  TypeOK'
<1> DEFINE e == SyminfoOf(r)
<1>1. e \in Syminfo
  BY SyminfoOfType DEF TypeOK
<1> HIDE DEF e
<1>2. phase' \in Phases
  BY DEF LoadSymbol, TypeOK, Phases
<1>3. maps' \in [Bins -> Seq(Syminfo)]
  <2>1. maps[cur] \in Seq(Syminfo)
    BY DEF TypeOK
  <2>2. Append(maps[cur], e) \in Seq(Syminfo)
    BY <1>1, <2>1, AppendProperties
  <2>3. maps' = maps \/ maps' = [maps EXCEPT ![cur] = Append(@, e)]
    BY DEF LoadSymbol, e
  <2> QED BY <2>2, <2>3 DEF TypeOK
<1>4. loaded' \in Seq(Syminfo)
  <2> DEFINE found == {i \in DOMAIN loaded : loaded[i].key = e.key}
             merged == [i \in DOMAIN loaded |->
                          IF i \in found THEN Merged(loaded[i], e) ELSE loaded[i]]
  <2>1. loaded' \in {loaded, Append(loaded, e), merged}
    BY DEF LoadSymbol, e
  <2>2. Append(loaded, e) \in Seq(Syminfo)
    BY <1>1, AppendProperties DEF TypeOK
  <2>3. merged \in Seq(Syminfo)
    <3>1. loaded \in Seq(Syminfo) /\ Len(loaded) \in Nat /\ DOMAIN loaded = 1..Len(loaded)
      BY LenProperties DEF TypeOK
    <3>2. \A i \in 1..Len(loaded) : loaded[i] \in Syminfo
      BY <3>1, ElementOfSeq
    <3>3. \A i \in 1..Len(loaded) : Merged(loaded[i], e) \in Syminfo
      BY <1>1, <3>2, MergedType
    <3>4. merged \in [1..Len(loaded) -> Syminfo]
      BY <3>1, <3>2, <3>3
    <3> QED BY <3>1, <3>4, IsASeq
  <2> QED BY <2>1, <2>2, <2>3 DEF TypeOK
<1> QED BY <1>2, <1>3, <1>4 DEF LoadSymbol, TypeOK, tables

\* SetSrcSyms keeps the types.
LEMMA TypeSetSrc ==
    ASSUME TypeOK, SetSrcSym
    PROVE  TypeOK'
<1> DEFINE s == loaded[pos]
           v == [versym |-> s.versym, sym |-> s.sym]
<1>1. s \in Syminfo
  BY ElementOfSeq DEF SetSrcSym, TypeOK
<1>2. v \in Src /\ s.key \in Key
  BY <1>1 DEF Syminfo, Src
<1>3. IsMap(src', Key, Src)
  <2>1. src' = src \/ src' = Put(src, s.key, v)
    BY DEF SetSrcSym
  <2> QED BY <1>2, <2>1, PutType DEF TypeOK
<1>4. IsMap(fallback', Names \cup {NoString}, Src)
  <2>1. s.key.name \in Names \cup {NoString}
    BY <1>2 DEF Key
  <2>2. fallback' = fallback \/ fallback' = Put(fallback, s.key.name, v)
    BY DEF SetSrcSym
  <2> HIDE DEF s, v
  <2>3. IsMap(Put(fallback, s.key.name, v), Names \cup {NoString}, Src)
    BY <1>2, <2>1, PutType, Zenon DEF TypeOK
  <2> QED BY <2>2, <2>3 DEF TypeOK
<1> QED BY <1>3, <1>4 DEF SetSrcSym, TypeOK, inputs

\* CopyPublicSymbols keeps the types.
LEMMA TypePublic ==
    ASSUME TypeOK, CopyPublicSymbol
    PROVE  TypeOK'
<1>1. maps[cur] \in Seq(Syminfo)
  BY DEF TypeOK
<1>2. maps[cur][pos] \in Syminfo
  BY <1>1, ElementOfSeq DEF CopyPublicSymbol, TypeOK
<1>3. public' \in Seq(Syminfo)
  BY <1>2, AppendProperties DEF CopyPublicSymbol, TypeOK
<1> QED BY <1>3 DEF CopyPublicSymbol, TypeOK, inputs

\* A relocation step resolves some key.
LEMMA RelocationKey ==
    ASSUME TypeOK, RelocateResolve \/ RelocateCopy
    PROVE  \E k \in Key : Resolve(k) \/ ResolveCopy(k)
<1>1. \A e \in Elements(maps[cur]) : e \in Syminfo
  <2>1. maps[cur] \in Seq(Syminfo)
    BY DEF TypeOK
  <2>2. \A i \in DOMAIN maps[cur] : maps[cur][i] \in Syminfo
    BY <2>1, ElementOfSeq, LenProperties
  <2> QED BY <2>2 DEF Elements
<1>2. \A e \in Elements(maps[cur]) : e.key \in Key
  BY <1>1 DEF Syminfo
<1> QED BY <1>2, Constants DEF RelocateResolve, RelocateCopy

\* Resolve and ResolveCopy write rels_, exposed_syms_ and syms_ only.
LEMMA TypeRelocate ==
    ASSUME TypeOK, RelocateResolve \/ RelocateCopy
    PROVE  TypeOK'
<1>1. PICK k \in Key : Resolve(k) \/ ResolveCopy(k)
  BY RelocationKey
<1>2. phase' \in Phases
  BY <1>1 DEF Resolve, ResolveCopy, TypeOK, Phases
<1>3. rels' \in Seq(Rel)
  <2>1. rels' \in {rels, ResolvedRel(k), NewRel(k, "index", SymbolOf(k).index)}
    BY <1>1 DEF Resolve, ResolveCopy
  <2> QED BY <2>1, ResolvedRelType DEF TypeOK
<1>4. /\ exposed' \in Seq(Syminfo)
      /\ IsMap(syms', Key, [sym : Sym, index : Nat])
  <2>1. CASE Expose(k)
    BY <2>1, ExposeType
  <2>2. CASE UNCHANGED <<exposed, syms>>
    BY <2>2 DEF TypeOK
  <2> QED BY <1>1, <2>1, <2>2 DEF Resolve, ResolveCopy
<1> QED BY <1>2, <1>3, <1>4 DEF RelocateResolve, RelocateCopy, TypeOK, inputs

\* A version added under its CHECKs keeps version_ well formed.
LEMMA AddVersionOK ==
    ASSUME BuilderOK(vb), NEW k \in Key, NEW versym \in Versyms, NEW bind \in Binds,
           CanAddVersion(k, versym, bind), AddVersion(k, versym, bind)
    PROVE  BuilderOK(vb')
<1>1. k.soname \in Sonames \cup {NoString} /\ k.version \in Versions \cup {NoString}
  BY DEF Key
<1> QED BY <1>1, AddOK DEF CanAddVersion, AddVersion

\* Build keeps the types.
LEMMA TypeBuild ==
    ASSUME TypeOK, BuildSymbol
    PROVE  TypeOK'
<1> DEFINE x == exposed[pos]
           s == syms[x.key].sym
           ok == ~IsFresh(x.key) /\ CanAddVersion(x.key, x.versym, s.bind)
<1>1. x \in Syminfo
  BY ElementOfSeq DEF BuildSymbol, TypeOK
<1>2. x.key \in Key /\ x.versym \in Versyms
  BY <1>1 DEF Syminfo
<1>3. CASE ok
  <2>1. s \in Sym
    BY <1>2, <1>3 DEF TypeOK, IsMap, IsFresh
  <2>2. s.bind \in Binds /\ [def |-> s.def, owner |-> s.owner] \in [def : BOOLEAN, owner : 0..NBins]
    BY <2>1 DEF Sym
  <2>3. symtab' = Append(symtab, [def |-> s.def, owner |-> s.owner]) /\ AddVersion(x.key, x.versym, s.bind)
    BY <1>3 DEF BuildSymbol
  <2>4. symtab' \in Seq([def : BOOLEAN, owner : 0..NBins])
    BY <2>2, <2>3, AppendProperties DEF TypeOK
  <2>5. BuilderOK(vb')
    BY <1>2, <1>3, <2>2, <2>3, AddVersionOK DEF TypeOK
  <2> QED BY <1>3, <2>4, <2>5 DEF BuildSymbol, TypeOK, inputs, tables
<1>4. CASE ~ok
  BY <1>4 DEF BuildSymbol, TypeOK, inputs, tables, Phases
<1> QED BY <1>3, <1>4

\* MergePublicSymbols keeps the types.
LEMMA TypeMerge ==
    ASSUME TypeOK, MergePublicSymbol
    PROVE  TypeOK'
<1> DEFINE p == public[pos]
<1>1. p \in Syminfo
  BY ElementOfSeq DEF MergePublicSymbol, TypeOK
<1>2. p.key \in Key /\ p.versym \in Versyms /\ p.sym \in Sym
  BY <1>1 DEF Syminfo
<1>3. p.sym.bind \in Binds /\ [def |-> TRUE, owner |-> p.sym.owner] \in [def : BOOLEAN, owner : 0..NBins]
  BY <1>2 DEF Sym
<1>4. CASE p.key \in ExposedKeys
  BY <1>4 DEF MergePublicSymbol, TypeOK, inputs
<1>5. CASE p.key \notin ExposedKeys /\ CanAddVersion(p.key, p.versym, p.sym.bind)
  <2>0. /\ exposed' = Append(exposed, p)
        /\ symtab' = Append(symtab, [def |-> TRUE, owner |-> p.sym.owner])
        /\ AddVersion(p.key, p.versym, p.sym.bind)
    BY <1>5 DEF MergePublicSymbol
  <2>1. exposed' \in Seq(Syminfo)
    BY <1>1, <2>0, AppendProperties DEF TypeOK
  <2>2. symtab' \in Seq([def : BOOLEAN, owner : 0..NBins])
    BY <1>3, <2>0, AppendProperties DEF TypeOK
  <2>3. BuilderOK(vb')
    BY <1>2, <1>3, <1>5, <2>0, AddVersionOK DEF TypeOK
  <2> QED BY <1>5, <2>1, <2>2, <2>3 DEF MergePublicSymbol, TypeOK, inputs
<1>6. CASE p.key \notin ExposedKeys /\ ~CanAddVersion(p.key, p.versym, p.sym.bind)
  BY <1>6 DEF MergePublicSymbol, TypeOK, inputs, Phases
<1> QED BY <1>4, <1>5, <1>6

\* Every step keeps the types.
LEMMA TypeStep ==
    ASSUME TypeOK, [Next]_vars
    PROVE  TypeOK'
<1>1. ASSUME NEW r \in DynSyms[cur], LoadSymbol(r) PROVE TypeOK'
  BY <1>1, TypeLoad
<1>2. CASE NextLoad
  BY <1>2, InputAssumption DEF NextLoad, TypeOK, tables, Bins, Phases
<1>3. CASE SetSrcSym
  BY <1>3, TypeSetSrc
<1>4. CASE EndSetSrc
  BY <1>4 DEF EndSetSrc, TypeOK, inputs, tables, Phases
<1>5. CASE CopyPublicSymbol
  BY <1>5, TypePublic
<1>6. CASE NextPublic
  BY <1>6, InputAssumption DEF NextPublic, TypeOK, tables, Bins, Phases
<1>7. CASE RelocateResolve \/ RelocateCopy
  BY <1>7, TypeRelocate
<1>8. CASE NextRelocate
  BY <1>8, InputAssumption DEF NextRelocate, TypeOK, tables, Bins, Phases
<1>9. CASE BuildSymbol
  BY <1>9, TypeBuild
<1>10. CASE EndBuild
  BY <1>10 DEF EndBuild, TypeOK, inputs, tables, Phases
<1>11. CASE MergePublicSymbol
  BY <1>11, TypeMerge
<1>12. CASE EndMerge
  BY <1>12 DEF EndMerge, TypeOK, inputs, Phases
<1>13. CASE UNCHANGED vars
  BY <1>13 DEF vars, TypeOK
<1> QED
  BY <1>1, <1>2, <1>3, <1>4, <1>5, <1>6, <1>7, <1>8, <1>9, <1>10, <1>11, <1>12, <1>13
     DEF Next

\* Every variable of the linker keeps its type, whatever the inputs.
THEOREM TypeCorrect == Spec => []TypeOK
<1>1. Init => TypeOK
  BY TypeInit
<1>2. TypeOK /\ [Next]_vars => TypeOK'
  BY TypeStep
<1> QED BY <1>1, <1>2, PTL DEF Spec

-----------------------------------------------------------------------------
(***************************************************************************)
(* The exposed table.  Only two kinds of steps change it: AddSym of a key  *)
(* that is not in syms_, and MergePublicSymbols of a key that is not       *)
(* exposed.                                                                *)
(***************************************************************************)
Table == ExposedKnown /\ IndexRemembered /\ ExposedOnce

\* Elements of a sequence before and after an append.
LEMMA AppendElement ==
    ASSUME NEW T, NEW s \in Seq(T), NEW x \in T
    PROVE  /\ DOMAIN Append(s, x) = DOMAIN s \cup {Len(s) + 1}
           /\ \A i \in DOMAIN s : Append(s, x)[i] = s[i]
           /\ Append(s, x)[Len(s) + 1] = x
           /\ Len(Append(s, x)) = Len(s) + 1
           /\ DOMAIN s = 1..Len(s) /\ Len(s) \in Nat
BY AppendProperties, LenProperties

\* Exposing a fresh key at the next index keeps the table.
LEMMA ExposeTable ==
    ASSUME TypeOK, Table, phase \in BeforeMerge, phase' = phase,
           NEW k \in Key, IsFresh(k), Expose(k)
    PROVE  /\ Table'
           /\ SymbolOf(k).index < Len(exposed')
           /\ exposed'[SymbolOf(k).index + 1].key = k
           /\ Len(exposed) <= Len(exposed')
           /\ \A i \in DOMAIN exposed : exposed'[i] = exposed[i]
<1> DEFINE x == [key |-> k, versym |-> Source(k).versym, sym |-> NullSym]
           n == Len(exposed)
<1>1. x \in Syminfo /\ x.key = k
  BY SourceType, Constants DEF Src, Syminfo
<1>2. exposed' = Append(exposed, x) /\ syms' = Put(syms, k, SymbolOf(k))
  BY DEF Expose
<1>3. SymbolOf(k).index = n
  BY DEF SymbolOf
<1> HIDE DEF x
<1>4. /\ DOMAIN exposed' = DOMAIN exposed \cup {n + 1}
      /\ \A i \in DOMAIN exposed : exposed'[i] = exposed[i]
      /\ exposed'[n + 1].key = k
      /\ Len(exposed') = n + 1
      /\ DOMAIN exposed = 1..n /\ n \in Nat
  BY <1>1, <1>2, AppendElement DEF TypeOK
<1>5. /\ DOMAIN syms' = DOMAIN syms \cup {k}
      /\ syms'[k].index = n
      /\ \A j \in DOMAIN syms : syms'[j] = syms[j]
  <2>1. k \notin DOMAIN syms
    BY DEF IsFresh
  <2> DEFINE y == SymbolOf(k)
  <2>2. syms' = Put(syms, k, y) /\ y.index = n
    BY <1>2, <1>3
  <2> HIDE DEF y, n
  <2>3. /\ DOMAIN syms' = DOMAIN syms \cup {k}
        /\ syms'[k] = y
        /\ \A j \in DOMAIN syms : j # k => syms'[j] = syms[j]
    BY <2>2 DEF Put
  <2> QED BY <2>1, <2>2, <2>3
<1>6. \A i \in DOMAIN exposed : exposed[i].key \in DOMAIN syms /\ exposed[i].key # k
  BY DEF Table, ExposedKnown, IsFresh
<1> HIDE DEF n
<1>7. ExposedKnown'
  BY <1>4, <1>5, <1>6 DEF ExposedKnown
<1>8. IndexRemembered'
  <2>1. ASSUME NEW j \in DOMAIN syms
        PROVE  syms'[j].index < Len(exposed') /\ exposed'[syms'[j].index + 1].key = j
    <3>1. syms[j].index \in Nat /\ syms[j].index < n /\ exposed[syms[j].index + 1].key = j
      BY DEF TypeOK, IsMap, Table, IndexRemembered, n
    <3> QED BY <1>4, <1>5, <3>1
  <2>2. syms'[k].index < Len(exposed') /\ exposed'[syms'[k].index + 1].key = k
    BY <1>4, <1>5
  <2> QED BY <1>5, <2>1, <2>2 DEF IndexRemembered
<1>9. ExposedOnce'
  BY <1>4, <1>6 DEF Table, ExposedOnce
<1> QED BY <1>3, <1>4, <1>7, <1>8, <1>9 DEF Table

\* A step that leaves both tables alone keeps them, unless it goes back to a
\* stage before the merge.
LEMMA SameTable ==
    ASSUME Table, UNCHANGED <<exposed, syms>>, phase' \in BeforeMerge => phase \in BeforeMerge
    PROVE  Table'
BY DEF Table, ExposedKnown, IndexRemembered, ExposedOnce

\* Merging a public symbol whose key is not exposed keeps the table.
LEMMA MergeTable ==
    ASSUME TypeOK, Table, MergePublicSymbol
    PROVE  /\ Table'
           /\ Len(exposed) <= Len(exposed')
           /\ \A i \in DOMAIN exposed : exposed'[i] = exposed[i]
<1> DEFINE p == public[pos]
           n == Len(exposed)
<1>1. p \in Syminfo
  BY ElementOfSeq DEF MergePublicSymbol, TypeOK
<1>2. phase' \notin BeforeMerge /\ UNCHANGED syms
  BY DEF MergePublicSymbol, BeforeMerge
<1>3. CASE UNCHANGED exposed
  BY <1>2, <1>3, SameTable, LenProperties DEF TypeOK
<1>4. CASE p.key \notin ExposedKeys /\ exposed' = Append(exposed, p)
  <2>1. /\ DOMAIN exposed' = DOMAIN exposed \cup {n + 1}
        /\ \A i \in DOMAIN exposed : exposed'[i] = exposed[i]
        /\ exposed'[n + 1] = p
        /\ Len(exposed') = n + 1
        /\ DOMAIN exposed = 1..n /\ n \in Nat
    BY <1>1, <1>4, AppendElement DEF TypeOK
  <2>2. \A i \in DOMAIN exposed : exposed[i].key # p.key
    BY <1>4 DEF ExposedKeys, Elements
  <2> HIDE DEF p, n
  <2>3. ExposedOnce'
    BY <2>1, <2>2 DEF Table, ExposedOnce
  <2>4. IndexRemembered'
    <3>1. ASSUME NEW j \in DOMAIN syms
          PROVE  syms[j].index < n + 1 /\ exposed'[syms[j].index + 1].key = j
      <4>1. syms[j].index \in Nat /\ syms[j].index < n /\ exposed[syms[j].index + 1].key = j
        BY DEF TypeOK, IsMap, Table, IndexRemembered, n
      <4> QED BY <2>1, <4>1
    <3> QED BY <1>2, <2>1, <3>1 DEF IndexRemembered
  <2>5. ExposedKnown'
    BY <1>2 DEF ExposedKnown
  <2> QED BY <2>1, <2>3, <2>4, <2>5 DEF Table, n
<1> QED BY <1>3, <1>4 DEF MergePublicSymbol

-----------------------------------------------------------------------------
(***************************************************************************)
(* Indices in relocations.                                                 *)
(***************************************************************************)
\* Old relocations keep denoting their keys while the table only grows.
LEMMA OldRels ==
    ASSUME TypeOK, IndexDenotesKey, NEW r \in Elements(rels), r.kind = "index",
           Len(exposed) <= Len(exposed'), exposed' \in Seq(Syminfo),
           \A i \in DOMAIN exposed : exposed'[i] = exposed[i]
    PROVE  r.val < Len(exposed') /\ exposed'[r.val + 1].key = r.key
<1>1. r \in Rel
  BY ElementOfSeq, LenProperties DEF TypeOK, Elements
<1>2. r.val \in Nat /\ r.val < Len(exposed) /\ exposed[r.val + 1].key = r.key
  BY <1>1 DEF Rel, IndexDenotesKey
<1>3. DOMAIN exposed = 1..Len(exposed) /\ Len(exposed) \in Nat /\ Len(exposed') \in Nat
  BY LenProperties DEF TypeOK
<1>4. r.val + 1 \in DOMAIN exposed
  BY <1>2, <1>3
<1> QED BY <1>2, <1>3, <1>4

\* A step that adds no relocation and only extends the table.
LEMMA SameRels ==
    ASSUME TypeOK, TypeOK', IndexDenotesKey, UNCHANGED rels,
           Len(exposed) <= Len(exposed'),
           \A i \in DOMAIN exposed : exposed'[i] = exposed[i]
    PROVE  IndexDenotesKey'
BY OldRels, SMTT(30) DEF IndexDenotesKey, TypeOK, Elements

\* A step that adds one relocation is sound if its index is.
LEMMA NewRelSound ==
    ASSUME TypeOK, TypeOK', IndexDenotesKey,
           NEW k \in Key, NEW kind \in {"address", "index"}, NEW val \in Nat,
           rels' = NewRel(k, kind, val),
           kind = "index" => val < Len(exposed') /\ exposed'[val + 1].key = k,
           Len(exposed) <= Len(exposed'),
           \A i \in DOMAIN exposed : exposed'[i] = exposed[i]
    PROVE  IndexDenotesKey'
<1> DEFINE x == [bin |-> cur, key |-> k, kind |-> kind, val |-> val]
<1>1. x \in Rel
  BY DEF Rel, TypeOK
<1>2. /\ rels' = Append(rels, x)
      /\ x.kind = kind /\ x.val = val /\ x.key = k
  BY DEF NewRel
<1> HIDE DEF x
<1>3. Elements(rels') = Elements(rels) \cup {x}
  BY <1>1, <1>2, AppendElement, SMTT(30) DEF TypeOK, Elements
<1>4. ASSUME NEW r \in Elements(rels), r.kind = "index"
      PROVE  r.val < Len(exposed') /\ exposed'[r.val + 1].key = r.key
  BY <1>4, OldRels, SMTT(30) DEF TypeOK
<1> QED BY <1>2, <1>3, <1>4 DEF IndexDenotesKey

\* A relocation step: the table is kept and the new relocation is sound.
LEMMA RelocateKeeps ==
    ASSUME TypeOK, TypeOK', Table, IndexDenotesKey, RelocateResolve \/ RelocateCopy
    PROVE  Table' /\ IndexDenotesKey'
<1>1. PICK k \in Key : Resolve(k) \/ ResolveCopy(k)
  BY RelocationKey
<1>2. phase \in BeforeMerge
  BY DEF RelocateResolve, RelocateCopy, Relocating, BeforeMerge
<1>3. CASE UNCHANGED <<rels, exposed, syms>>
  <2>1. Table'
    BY <1>2, <1>3, SameTable
  <2>2. IndexDenotesKey'
    BY <1>3 DEF IndexDenotesKey
  <2> QED BY <2>1, <2>2
<1>4. CASE phase' = phase
  <2> DEFINE index == SymbolOf(k).index
             owner == SymbolOf(k).sym.owner
             indexed == rels' = NewRel(k, "index", index)
             addressed == rels' = NewRel(k, "address", owner)
             same == UNCHANGED <<exposed, syms>>
  <2>1. \/ ~IsFresh(k) /\ same /\ (indexed \/ addressed)
        \/ IsFresh(k) /\ Expose(k) /\ indexed
        \/ IsFresh(k) /\ same /\ addressed
        \/ UNCHANGED <<rels, exposed, syms>>
    BY <1>1 DEF Resolve, ResolveCopy, ResolvedRel
  <2>2. index \in Nat /\ owner \in Nat
    BY SymbolOfType, InputAssumption DEF Sym
  <2>3. ASSUME same
        PROVE  /\ Table'
               /\ Len(exposed) <= Len(exposed')
               /\ \A i \in DOMAIN exposed : exposed'[i] = exposed[i]
    BY <1>2, <2>3, SameTable, LenProperties DEF TypeOK
  <2>4. CASE ~IsFresh(k) /\ same
    <3>1. index < Len(exposed') /\ exposed'[index + 1].key = k
      BY <2>4 DEF IsFresh, SymbolOf, Table, IndexRemembered
    <3> HIDE DEF index, owner
    <3>2. CASE indexed
      BY <2>2, <2>3, <2>4, <3>1, <3>2, NewRelSound
    <3>3. CASE addressed
      BY <2>2, <2>3, <2>4, <3>3, NewRelSound
    <3> QED BY <1>3, <2>1, <2>4, <3>2, <3>3
  <2>5. CASE IsFresh(k) /\ Expose(k) /\ indexed
    <3>1. /\ Table'
          /\ index < Len(exposed') /\ exposed'[index + 1].key = k
          /\ Len(exposed) <= Len(exposed')
          /\ \A i \in DOMAIN exposed : exposed'[i] = exposed[i]
      BY <1>2, <1>4, <2>5, ExposeTable
    <3> HIDE DEF index
    <3> QED BY <2>2, <2>5, <3>1, NewRelSound
  <2>6. CASE same /\ addressed
    <3> HIDE DEF owner
    <3> QED BY <2>2, <2>3, <2>6, NewRelSound
  <2> QED BY <1>3, <2>1, <2>4, <2>5, <2>6
<1> QED BY <1>1, <1>3, <1>4 DEF Resolve, ResolveCopy

-----------------------------------------------------------------------------
IndInv == TypeOK /\ Table /\ IndexDenotesKey

\* The inductive invariant holds initially.
LEMMA IndInit == Init => IndInv
<1> SUFFICES ASSUME Init PROVE IndInv
  OBVIOUS
<1>1. TypeOK
  BY TypeInit
<1>2. Len(exposed) = 1 /\ DOMAIN exposed = {1} /\ exposed[1].key = NullKey
  BY DEF Init
<1>3. DOMAIN syms = {NullKey} /\ syms[NullKey].index = 0
  BY DEF Init
<1>4. Elements(rels) = {}
  BY DEF Init, Elements
<1>5. Table
  BY <1>2, <1>3 DEF Table, ExposedKnown, IndexRemembered, ExposedOnce
<1> QED BY <1>1, <1>4, <1>5 DEF IndInv, IndexDenotesKey

\* Every step keeps the inductive invariant.
LEMMA IndStep ==
    ASSUME IndInv, [Next]_vars
    PROVE  IndInv'
<1> USE DEF IndInv
<1>1. TypeOK'
  BY TypeStep
<1>2. ASSUME UNCHANGED <<exposed, syms, rels>>,
             phase' \in BeforeMerge => phase \in BeforeMerge
      PROVE  IndInv'
  <2>1. Table'
    BY <1>2, SameTable
  <2>2. IndexDenotesKey'
    BY <1>2 DEF IndexDenotesKey
  <2> QED BY <1>1, <2>1, <2>2
<1>3. ASSUME NEW r \in DynSyms[cur], LoadSymbol(r) PROVE IndInv'
  BY <1>2, <1>3 DEF LoadSymbol, tables, BeforeMerge
<1>4. CASE NextLoad
  BY <1>2, <1>4 DEF NextLoad, tables, BeforeMerge
<1>5. CASE SetSrcSym
  BY <1>2, <1>5 DEF SetSrcSym
<1>6. CASE EndSetSrc
  BY <1>2, <1>6 DEF EndSetSrc, tables, BeforeMerge
<1>7. CASE CopyPublicSymbol
  BY <1>2, <1>7 DEF CopyPublicSymbol
<1>8. CASE NextPublic
  BY <1>2, <1>8 DEF NextPublic, tables, BeforeMerge
<1>9. CASE RelocateResolve \/ RelocateCopy
  BY <1>1, <1>9, RelocateKeeps
<1>10. CASE NextRelocate
  BY <1>2, <1>10 DEF NextRelocate, tables, BeforeMerge
<1>11. CASE BuildSymbol
  BY <1>2, <1>11 DEF BuildSymbol, tables, BeforeMerge
<1>12. CASE EndBuild
  BY <1>2, <1>12 DEF EndBuild, tables, BeforeMerge
<1>13. CASE MergePublicSymbol
  <2>1. UNCHANGED rels
    BY <1>13 DEF MergePublicSymbol
  <2> QED BY <1>1, <1>13, <2>1, MergeTable, SameRels
<1>14. CASE EndMerge
  BY <1>2, <1>14 DEF EndMerge, BeforeMerge
<1>15. CASE UNCHANGED vars
  BY <1>2, <1>15 DEF vars
<1> QED
  BY <1>3, <1>4, <1>5, <1>6, <1>7, <1>8, <1>9, <1>10, <1>11, <1>12, <1>13, <1>14, <1>15
     DEF Next

\* The inductive invariant holds in every reachable state.
LEMMA Inductive == Spec => []IndInv
<1> QED BY IndInit, IndStep, PTL DEF Spec

\* No key is exposed twice, so the CHECK of MergePublicSymbols never fires.
THEOREM ExposedOnceHolds == Spec => []ExposedOnce
<1>1. IndInv => ExposedOnce
  BY DEF IndInv, Table
<1> QED BY <1>1, Inductive, PTL

\* The symbol index written into a relocation denotes the relocation's symbol in
\* every later state, whatever is exposed after it.
THEOREM IndexDenotesKeyHolds == Spec => []IndexDenotesKey
<1>1. IndInv => IndexDenotesKey
  BY DEF IndInv
<1> QED BY <1>1, Inductive, PTL

-----------------------------------------------------------------------------
(***************************************************************************)
(* VersionBuilder::Add.                                                    *)
(***************************************************************************)
\* version_ gives every (file, version) a number of its own, above the special
\* ones and below the next free one.
NumbersApart(b) ==
    /\ b.vernum >= 2
    /\ \A p \in DOMAIN b.data : b.data[p] >= 2 /\ b.data[p] < b.vernum
    /\ \A p, q \in DOMAIN b.data : b.data[p] = b.data[q] => p = q

\* The entry v names the version of the key k: a special index if it has none,
\* else the number of its file and version.
EntryNames(b, k, v) ==
    IF k.version = NoString THEN IsSpecial(v)
    ELSE LET p == <<SonameToFilename[k.soname], k.version>>
         IN  p \in DOMAIN b.data /\ b.data[p] = v

\* The empty builder has given no number.
LEMMA NewBuilderApart == NumbersApart(NewBuilder)
BY DEF NumbersApart, NewBuilder

\* A version gets a fresh number or keeps the one it has; no other version's
\* number changes.
LEMMA NumberedApart ==
    ASSUME NEW b, BuilderOK(b), NumbersApart(b),
           NEW file \in Filenames, NEW version \in Versions
    PROVE  LET n == Numbered(b, file, version)
           IN  /\ NumbersApart(n)
               /\ n.vers = b.vers
               /\ DOMAIN b.data \subseteq DOMAIN n.data
               /\ \A p \in DOMAIN b.data : n.data[p] = b.data[p]
<1> DEFINE p == <<file, version>>
           d == Put(b.data, p, b.vernum)
<1>1. CASE p \in DOMAIN b.data
  BY <1>1 DEF Numbered
<1>2. CASE p \notin DOMAIN b.data
  <2>1. Numbered(b, file, version)
          = [vernum |-> b.vernum + 1, data |-> d, vers |-> b.vers]
    BY <1>2 DEF Numbered
  <2>2. /\ b.vernum \in Nat
        /\ \A q \in DOMAIN b.data : b.data[q] \in Nat
    BY DEF BuilderOK, IsMap
  <2> HIDE DEF p
  <2>3. /\ DOMAIN d = DOMAIN b.data \cup {p}
        /\ d[p] = b.vernum
        /\ \A q \in DOMAIN b.data : d[q] = b.data[q]
    BY <1>2 DEF Put
  <2> HIDE DEF d
  <2>4. NumbersApart([vernum |-> b.vernum + 1, data |-> d, vers |-> b.vers])
    BY <1>2, <2>2, <2>3 DEF NumbersApart
  <2> QED BY <2>1, <2>3, <2>4
<1> QED BY <1>1, <1>2

\* Add appends one entry, and it names the version it was called with; the
\* entries it finds keep naming theirs.
LEMMA AddNames ==
    ASSUME NEW b, BuilderOK(b), NumbersApart(b),
           NEW k \in Key, NEW versym \in Versyms, NEW bind \in Binds,
           Addable(versym, k.soname, k.version, bind)
    PROVE  LET n == Add(b, versym, k.soname, k.version, bind)
           IN  /\ NumbersApart(n)
               /\ Len(n.vers) = Len(b.vers) + 1
               /\ \A i \in DOMAIN b.vers : n.vers[i] = b.vers[i]
               /\ EntryNames(n, k, n.vers[Len(b.vers) + 1])
               /\ \A j, v : EntryNames(b, j, v) => EntryNames(n, j, v)
<1> DEFINE v == Inferred(versym, bind)
           file == SonameToFilename[k.soname]
           m == Numbered(b, file, k.version)
           n == Add(b, versym, k.soname, k.version, bind)
<1> SUFFICES /\ NumbersApart(n)
             /\ Len(n.vers) = Len(b.vers) + 1
             /\ \A i \in DOMAIN b.vers : n.vers[i] = b.vers[i]
             /\ EntryNames(n, k, n.vers[Len(b.vers) + 1])
             /\ \A j, u : EntryNames(b, j, u) => EntryNames(n, j, u)
  OBVIOUS
<1>1. v \in Nat
  <2>1. v \in {versym, 0, 1}
    BY DEF Inferred, VER_NDX_GLOBAL, VER_NDX_LOCAL
  <2> QED BY <2>1, VersymsNat
<1>2. b.vers \in Seq(Nat)
  BY DEF BuilderOK
<1>3. ASSUME NEW w \in Nat
      PROVE  /\ Len(Append(b.vers, w)) = Len(b.vers) + 1
             /\ \A i \in DOMAIN b.vers : Append(b.vers, w)[i] = b.vers[i]
             /\ Append(b.vers, w)[Len(b.vers) + 1] = w
  BY <1>2, AppendElement
<1>4. CASE IsSpecial(v)
  <2>1. n = [vernum |-> b.vernum, data |-> b.data, vers |-> Append(b.vers, v)]
    BY <1>4 DEF Add, WithVersym
  <2>2. k.version = NoString
    BY <1>4 DEF Addable
  <2> HIDE DEF v, n
  <2> QED BY <1>1, <1>3, <1>4, <2>1, <2>2 DEF NumbersApart, EntryNames
<1>5. CASE ~IsSpecial(v)
  <2> DEFINE p == <<file, k.version>>
             w == m.data[p]
  <2>1. file \in Filenames /\ k.version \in Versions /\ k.version # NoString
    BY <1>5, NamesAssumption DEF Addable, Key, IsMap
  <2>2. BuilderOK(m) /\ p \in DOMAIN m.data
    BY <2>1, NumberedOK
  <2>3. w \in Nat
    BY <2>2 DEF BuilderOK, IsMap
  <2>4. /\ NumbersApart(m) /\ m.vers = b.vers
        /\ DOMAIN b.data \subseteq DOMAIN m.data
        /\ \A q \in DOMAIN b.data : m.data[q] = b.data[q]
    BY <2>1, NumberedApart
  <2>5. n = [vernum |-> m.vernum, data |-> m.data, vers |-> Append(m.vers, w)]
    BY <1>5 DEF Add, WithVersym
  <2> HIDE DEF v, n, m, w
  <2>6. NumbersApart(n)
    BY <2>4, <2>5 DEF NumbersApart
  <2>7. EntryNames(n, k, w)
    BY <2>1, <2>2, <2>5 DEF EntryNames, w
  <2>8. \A j, u : EntryNames(b, j, u) => EntryNames(n, j, u)
    BY <2>4, <2>5 DEF EntryNames
  <2> QED BY <1>3, <2>3, <2>4, <2>5, <2>6, <2>7, <2>8
<1> QED BY <1>4, <1>5
-----------------------------------------------------------------------------
(***************************************************************************)
(* The inductive invariant.                                                *)
(***************************************************************************)
\* How far Build and MergePublicSymbols are: symtab_ holds an element for every
\* exposed symbol before pos while Build runs, for all of them after it.
Progress ==
    /\ Len(symtab) <= Len(exposed)
    /\ phase \in {"collect", "setsrc", "public", "relocate"} => Len(symtab) = 0
    /\ phase = "relocate" => pos = 1
    /\ phase = "build" => pos = Len(symtab) + 1
    /\ phase \in {"merge", "done"} => Len(symtab) = Len(exposed)

\* The entries made so far name the versions of the symbols they are for.
EntriesName ==
    /\ Len(vb.vers) = Len(symtab)
    /\ \A i \in DOMAIN vb.vers : EntryNames(vb, exposed[i].key, vb.vers[i])

VersionInv == Progress /\ NumbersApart(vb) /\ EntriesName

\* Every exposed symbol stays where it is, whichever stage the step belongs to.
LEMMA ExposedGrows ==
    ASSUME IndInv, [Next]_vars
    PROVE  /\ Len(exposed) \in Nat /\ DOMAIN exposed = 1..Len(exposed)
           /\ Len(exposed) <= Len(exposed')
           /\ \A i \in DOMAIN exposed : exposed'[i] = exposed[i]
<1> USE DEF IndInv
<1>0. Len(exposed) \in Nat /\ DOMAIN exposed = 1..Len(exposed)
  BY LenProperties DEF TypeOK
<1>1. CASE UNCHANGED exposed
  BY <1>0, <1>1
<1>2. CASE RelocateResolve \/ RelocateCopy
  <2>1. PICK k \in Key : Resolve(k) \/ ResolveCopy(k)
    BY <1>2, RelocationKey
  <2>2. CASE IsFresh(k) /\ Expose(k) /\ phase' = phase
    <3>1. phase \in BeforeMerge
      BY <1>2 DEF RelocateResolve, RelocateCopy, Relocating, BeforeMerge
    <3> QED BY <1>0, <2>2, <3>1, ExposeTable
  <2> QED BY <1>1, <2>1, <2>2 DEF Resolve, ResolveCopy
<1>3. CASE MergePublicSymbol
  BY <1>0, <1>3, MergeTable
<1> QED
  BY <1>1, <1>2, <1>3
     DEF Next, vars, tables, inputs, LoadSymbol, NextLoad, SetSrcSym, EndSetSrc,
         CopyPublicSymbol, NextPublic, NextRelocate, BuildSymbol, EndBuild, EndMerge

\* A step that makes no entry keeps those there are.
LEMMA SameEntries ==
    ASSUME IndInv, [Next]_vars, VersionInv, UNCHANGED <<symtab, vb>>
    PROVE  EntriesName' /\ NumbersApart(vb)'
<1>1. /\ DOMAIN vb.vers = 1..Len(vb.vers) /\ Len(vb.vers) \in Nat
      /\ Len(vb.vers) <= Len(exposed)
  BY LenProperties DEF IndInv, TypeOK, BuilderOK, VersionInv, EntriesName, Progress
<1>2. \A i \in DOMAIN vb.vers : exposed'[i] = exposed[i]
  BY <1>1, ExposedGrows
<1> QED BY <1>2 DEF VersionInv, EntriesName

\* A step of Build or MergePublicSymbols makes the entry of the symbol it
\* appends to symtab_, which is exposed at that place.
LEMMA NewEntry ==
    ASSUME IndInv, IndInv', [Next]_vars, VersionInv,
           NEW k \in Key, NEW versym \in Versyms, NEW bind \in Binds,
           CanAddVersion(k, versym, bind), AddVersion(k, versym, bind),
           Len(symtab') = Len(symtab) + 1,
           Len(symtab) < Len(exposed'), exposed'[Len(symtab) + 1].key = k
    PROVE  EntriesName' /\ NumbersApart(vb)'
<1> DEFINE n == Len(vb.vers)
<1>1. BuilderOK(vb) /\ NumbersApart(vb) /\ n = Len(symtab)
  BY DEF IndInv, TypeOK, VersionInv, EntriesName
<1>2. /\ NumbersApart(vb')
      /\ Len(vb'.vers) = n + 1
      /\ \A i \in DOMAIN vb.vers : vb'.vers[i] = vb.vers[i]
      /\ EntryNames(vb', k, vb'.vers[n + 1])
      /\ \A j, v : EntryNames(vb, j, v) => EntryNames(vb', j, v)
  <2>1. /\ Addable(versym, k.soname, k.version, bind)
        /\ vb' = Add(vb, versym, k.soname, k.version, bind)
    BY DEF CanAddVersion, AddVersion
  <2> QED BY <1>1, <2>1, AddNames
<1>3. /\ DOMAIN vb.vers = 1..n /\ n \in Nat
      /\ DOMAIN vb'.vers = 1..(n + 1)
  BY <1>2, LenProperties DEF IndInv, TypeOK, BuilderOK
<1>4. n <= Len(exposed)
  BY <1>1 DEF VersionInv, Progress
<1> HIDE DEF n
<1>5. ASSUME NEW i \in 1..n
      PROVE  EntryNames(vb', exposed'[i].key, vb'.vers[i])
  <2>1. exposed'[i] = exposed[i]
    BY <1>3, <1>4, ExposedGrows
  <2>2. EntryNames(vb, exposed[i].key, vb.vers[i])
    BY <1>3 DEF VersionInv, EntriesName
  <2> QED BY <1>2, <1>3, <2>1, <2>2
<1>6. EntryNames(vb', exposed'[n + 1].key, vb'.vers[n + 1])
  BY <1>1, <1>2
<1>7. \A i \in DOMAIN vb'.vers : EntryNames(vb', exposed'[i].key, vb'.vers[i])
  BY <1>3, <1>5, <1>6
<1> QED BY <1>1, <1>2, <1>7 DEF EntriesName

\* Build: the element of symtab_ and the entry are those of exposed[pos].
LEMMA BuildNames ==
    ASSUME IndInv, IndInv', VersionInv, BuildSymbol
    PROVE  VersionInv'
<1> DEFINE x == exposed[pos]
           s == syms[x.key].sym
           ok == ~IsFresh(x.key) /\ CanAddVersion(x.key, x.versym, s.bind)
<1>0. /\ [Next]_vars /\ UNCHANGED exposed
      /\ phase = "build" /\ pos = Len(symtab) + 1 /\ pos <= Len(exposed)
      /\ Len(symtab) \in Nat /\ Len(exposed) \in Nat
  BY LenProperties DEF Next, BuildSymbol, tables, VersionInv, Progress, IndInv, TypeOK
<1>1. x \in Syminfo
  <2>1. exposed \in Seq(Syminfo) /\ pos \in 1..Len(exposed)
    BY <1>0 DEF IndInv, TypeOK
  <2> QED BY <2>1, ElementOfSeq
<1>2. x.key \in Key /\ x.versym \in Versyms
  BY <1>1 DEF Syminfo
<1>3. CASE ok
  <2>1. s \in Sym
    BY <1>2, <1>3 DEF IndInv, TypeOK, IsMap, IsFresh
  <2>2. s.bind \in Binds /\ [def |-> s.def, owner |-> s.owner] \in [def : BOOLEAN, owner : 0..NBins]
    BY <2>1 DEF Sym
  <2>3. /\ symtab' = Append(symtab, [def |-> s.def, owner |-> s.owner])
        /\ AddVersion(x.key, x.versym, s.bind)
        /\ pos' = pos + 1 /\ phase' = phase
    BY <1>3 DEF BuildSymbol
  <2>4. Len(symtab') = Len(symtab) + 1
    <3>1. symtab \in Seq([def : BOOLEAN, owner : 0..NBins])
      BY <1>0 DEF IndInv, TypeOK
    <3>2. symtab' = Append(symtab, [def |-> s.def, owner |-> s.owner])
      BY <2>3
    <3> QED BY <2>2, <3>1, <3>2, AppendProperties
  <2>5. EntriesName' /\ NumbersApart(vb)'
    <3> DEFINE k == x.key
               v == x.versym
               bind == s.bind
    <3>1. /\ k \in Key /\ v \in Versyms /\ bind \in Binds
          /\ CanAddVersion(k, v, bind) /\ AddVersion(k, v, bind)
      BY <1>2, <1>3, <2>2, <2>3
    <3>2. Len(symtab) < Len(exposed') /\ exposed'[Len(symtab) + 1].key = k
      BY <1>0
    <3> HIDE DEF k, v, bind
    <3> QED BY <1>0, <2>4, <3>1, <3>2, NewEntry
  <2>6. Progress'
    BY <1>0, <2>3, <2>4 DEF Progress
  <2> QED BY <2>5, <2>6 DEF VersionInv
<1>4. CASE ~ok
  <2>1. phase' = "aborted" /\ UNCHANGED <<symtab, vb, pos>>
    BY <1>4 DEF BuildSymbol
  <2>2. Progress'
    BY <1>0, <2>1 DEF Progress
  <2> QED BY <1>0, <2>1, <2>2, SameEntries DEF VersionInv
<1> QED BY <1>3, <1>4

\* MergePublicSymbols exposes a symbol and makes its element and entry at once.
LEMMA MergeNames ==
    ASSUME IndInv, IndInv', VersionInv, MergePublicSymbol
    PROVE  VersionInv'
<1> DEFINE p == public[pos]
           ok == CanAddVersion(p.key, p.versym, p.sym.bind)
<1>0. /\ [Next]_vars /\ phase = "merge" /\ Len(symtab) = Len(exposed)
      /\ Len(symtab) \in Nat
  BY LenProperties DEF Next, MergePublicSymbol, VersionInv, Progress, IndInv, TypeOK
<1>1. p \in Syminfo
  BY ElementOfSeq DEF MergePublicSymbol, IndInv, TypeOK
<1>2. p.key \in Key /\ p.versym \in Versyms /\ p.sym \in Sym
  BY <1>1 DEF Syminfo
<1>3. CASE p.key \notin ExposedKeys /\ ok
  <2>1. p.sym.bind \in Binds /\ [def |-> TRUE, owner |-> p.sym.owner] \in [def : BOOLEAN, owner : 0..NBins]
    BY <1>2 DEF Sym
  <2>2. /\ exposed' = Append(exposed, p)
        /\ symtab' = Append(symtab, [def |-> TRUE, owner |-> p.sym.owner])
        /\ AddVersion(p.key, p.versym, p.sym.bind)
        /\ phase' = phase
    BY <1>3 DEF MergePublicSymbol
  <2>3. Len(symtab') = Len(symtab) + 1
    BY <2>1, <2>2, AppendProperties DEF IndInv, TypeOK
  <2>4. Len(exposed') = Len(exposed) + 1 /\ exposed'[Len(exposed) + 1] = p
    BY <1>1, <2>2, AppendElement DEF IndInv, TypeOK
  <2>5. EntriesName' /\ NumbersApart(vb)'
    BY <1>0, <1>2, <1>3, <2>1, <2>2, <2>3, <2>4, NewEntry
  <2>6. Progress'
    BY <1>0, <2>2, <2>3, <2>4 DEF Progress
  <2> QED BY <2>5, <2>6 DEF VersionInv
<1>4. CASE ~(p.key \notin ExposedKeys /\ ok)
  <2>1. UNCHANGED <<exposed, symtab, vb>> /\ phase' \in {"merge", "aborted"}
    BY <1>0, <1>4 DEF MergePublicSymbol
  <2>2. Progress'
    BY <1>0, <2>1 DEF Progress
  <2> QED BY <1>0, <2>1, <2>2, SameEntries DEF VersionInv
<1> QED BY <1>3, <1>4

\* The empty tables satisfy the invariant.
LEMMA VersionInit == Init => VersionInv
<1> SUFFICES ASSUME Init PROVE VersionInv
  OBVIOUS
<1>1. /\ phase = "collect" /\ Len(symtab) = 0 /\ Len(exposed) = 1
      /\ vb = NewBuilder /\ vb.vers = <<>>
  BY DEF Init, NewBuilder
<1>2. Progress
  BY <1>1 DEF Progress
<1>3. EntriesName
  BY <1>1 DEF EntriesName
<1> QED BY <1>1, <1>2, <1>3, NewBuilderApart DEF VersionInv

\* Every step keeps the invariant.
LEMMA VersionStep ==
    ASSUME IndInv, IndInv', VersionInv, [Next]_vars
    PROVE  VersionInv'
<1>1. ASSUME UNCHANGED <<symtab, vb>>, Progress' PROVE VersionInv'
  BY <1>1, SameEntries DEF VersionInv
<1>2. /\ Len(exposed) <= Len(exposed') /\ Len(exposed) \in Nat
      /\ Len(symtab) \in Nat /\ Progress
  BY ExposedGrows, LenProperties DEF VersionInv, IndInv, TypeOK
<1>2a. Len(exposed') \in Nat
  BY LenProperties DEF IndInv, TypeOK
<1>3. ASSUME NEW r \in DynSyms[cur], LoadSymbol(r) PROVE VersionInv'
  BY <1>1, <1>2, <1>2a, <1>3 DEF LoadSymbol, Progress
<1>4. CASE NextLoad
  BY <1>1, <1>2, <1>2a, <1>4 DEF NextLoad, Progress
<1>5. CASE SetSrcSym
  BY <1>1, <1>2, <1>2a, <1>5 DEF SetSrcSym, Progress
<1>6. CASE EndSetSrc
  BY <1>1, <1>2, <1>2a, <1>6 DEF EndSetSrc, Progress
<1>7. CASE CopyPublicSymbol
  BY <1>1, <1>2, <1>2a, <1>7 DEF CopyPublicSymbol, Progress
<1>8. CASE NextPublic
  BY <1>1, <1>2, <1>2a, <1>8 DEF NextPublic, Progress
<1>9. CASE RelocateResolve \/ RelocateCopy
  <2>1. phase = "relocate" /\ UNCHANGED <<pos, symtab, vb>>
    BY <1>9 DEF RelocateResolve, RelocateCopy, Relocating
  <2>2. phase' \in {"relocate", "aborted"}
    BY <1>9, <2>1 DEF RelocateResolve, RelocateCopy, Resolve, ResolveCopy
  <2> QED BY <1>1, <1>2, <1>2a, <2>1, <2>2 DEF Progress
<1>10. CASE NextRelocate
  BY <1>1, <1>2, <1>2a, <1>10 DEF NextRelocate, Progress
<1>11. CASE BuildSymbol
  BY <1>11, BuildNames
<1>12. CASE EndBuild
  BY <1>1, <1>2, <1>2a, <1>12 DEF EndBuild, Progress, tables
<1>13. CASE MergePublicSymbol
  BY <1>13, MergeNames
<1>14. CASE EndMerge
  BY <1>1, <1>2, <1>2a, <1>14 DEF EndMerge, Progress
<1>15. CASE UNCHANGED vars
  BY <1>1, <1>2, <1>15 DEF vars, Progress
<1> QED
  BY <1>3, <1>4, <1>5, <1>6, <1>7, <1>8, <1>9, <1>10, <1>11, <1>12, <1>13, <1>14, <1>15
     DEF Next

\* The invariant holds in every reachable state.
LEMMA VersionInductive == Spec => []VersionInv
<1>1. IndInv /\ VersionInv /\ [Next]_vars => VersionInv'
  BY IndStep, VersionStep
<1> QED BY <1>1, VersionInit, Inductive, PTL DEF Spec

\* The .gnu.version array runs parallel to .dynsym, its entry for a versioned
\* symbol is the number .gnu.version_r gives exactly that file and version, and
\* no number stands for two versions, whatever the inputs
\* (version_builder.cc:19-63).
THEOREM VersymNamesVersionHolds == Spec => []VersymNamesVersion
<1>1. IndInv /\ VersionInv => VersymNamesVersion
  <2> SUFFICES ASSUME IndInv, VersionInv PROVE VersymNamesVersion
    OBVIOUS
  <2>1. \A p \in DOMAIN vb.data : vb.data[p] \in Nat /\ vb.data[p] >= 2
    BY DEF IndInv, TypeOK, BuilderOK, IsMap, VersionInv, NumbersApart
  <2>2. \A p \in DOMAIN vb.data : ~IsSpecial(vb.data[p])
    BY <2>1 DEF IsSpecial, VER_NDX_LOCAL, VER_NDX_GLOBAL
  <2>3. \A p, q \in DOMAIN vb.data : vb.data[p] = vb.data[q] => p = q
    BY DEF VersionInv, NumbersApart
  <2>4. Len(vb.vers) = Len(symtab)
    BY DEF VersionInv, EntriesName
  <2>5. \A i \in DOMAIN vb.vers : EntryNames(vb, exposed[i].key, vb.vers[i])
    BY DEF VersionInv, EntriesName
  <2> QED BY <2>2, <2>3, <2>4, <2>5 DEF VersymNamesVersion, EntryNames
<1> QED BY <1>1, VersionInductive, Inductive, PTL

-----------------------------------------------------------------------------
(***************************************************************************)
(* Definitions in the symbol maps m that have been read.                   *)
(***************************************************************************)
\* The binaries that define k.
DefinersIn(m, k) == {b \in Bins : \E e \in Elements(m[b]) : e.key = k /\ e.sym.def}

\* The symbol s is what linking should make of k: the first definition, or no
\* definition when there is none.  s has the fields def and owner.
BoundRight(m, k, s) ==
    IF s.def THEN s.owner \in DefinersIn(m, k) /\ \A c \in DefinersIn(m, k) : s.owner <= c
    ELSE DefinersIn(m, k) = {}

\* Some entry read so far has the key k and the version entry v.
FromInput(m, k, v) ==
    \E b \in Bins : \E e \in Elements(m[b]) : e.key = k /\ e.versym = v

\* What GetVersion says of the version entry v of binary b.
VersionIn(b, v) == GetVersion(v, Verneed[b], Verdef[b])

\* An entry of binary b is as SyminfoOf makes it.
EntryOf(b, e) ==
    /\ e \in Syminfo
    /\ e.sym.owner = b
    /\ e.key.name \in Names
    /\ e.key.soname = VersionIn(b, e.versym).soname
    /\ e.key.version = VersionIn(b, e.versym).version
    /\ \E r \in DynSyms[b] : /\ r.name = e.key.name /\ r.def = e.sym.def
                            /\ r.tls = e.sym.tls /\ r.bind = e.sym.bind

-----------------------------------------------------------------------------
(***************************************************************************)
(* The invariants, one per table.                                          *)
(***************************************************************************)
Read == phase \in Phases \ {"collect", "setsrc"}    \* src_syms_ is complete
Sound == phase # "aborted"

\* The symbol maps hold the entries of their binaries; those of binaries not
\* reached yet are empty; and a map holds a key once, or Link has aborted.
MapsOK ==
    /\ \A b \in Bins : \A e \in Elements(maps[b]) : EntryOf(b, e)
    /\ phase = "collect" => \A b \in Bins : b > cur => maps[b] = <<>>
    /\ Sound => \A b \in Bins : \A e, f \in Elements(maps[b]) : e.key = f.key => e = f

\* The vector of CollectSymbols has one element for every key read, bound to
\* its first definition among the binaries read so far.
VectorOK(m, l) ==
    /\ \A i, j \in DOMAIN l : l[i].key = l[j].key => i = j
    /\ \A b \in Bins : \A e \in Elements(m[b]) : \E i \in DOMAIN l : l[i].key = e.key
    /\ \A i \in DOMAIN l : BoundRight(m, l[i].key, l[i].sym)
                           /\ FromInput(m, l[i].key, l[i].versym)

LoadedOK == Sound => VectorOK(maps, loaded)

\* src_syms_ takes over the elements of the vector before pos, unchanged.
SrcOK ==
    /\ phase = "collect" => pos = 1 /\ DOMAIN src = {}
    /\ \A k \in DOMAIN src : \E i \in DOMAIN loaded :
          /\ loaded[i].key = k
          /\ src[k] = [versym |-> loaded[i].versym, sym |-> loaded[i].sym]
          /\ phase = "setsrc" => i < pos
    /\ phase = "setsrc" => \A i \in DOMAIN loaded : i < pos => loaded[i].key \in DOMAIN src
    /\ Read /\ Sound => \A i \in DOMAIN loaded : loaded[i].key \in DOMAIN src

\* A Symbol of syms_ is the null symbol or the one src_syms_ has for its key.
SymsOK ==
    /\ NullKey \in DOMAIN syms /\ syms[NullKey].sym = NullSym
    /\ ~Read => DOMAIN syms = {NullKey}
    /\ \A k \in DOMAIN syms \ {NullKey} : k \in DOMAIN src /\ syms[k].sym = src[k].sym

\* A Symbol of syms_ is the first definition of its key.
SymsBound == \A k \in DOMAIN syms : BoundRight(maps, k, syms[k].sym)

\* A relocation bound to an address has the first definition of its key, which
\* is not a TLS symbol; the symbol of any other is in syms_.
RelOK(m, ks, r) ==
    IF r.kind = "address"
    THEN /\ BoundRight(m, r.key, [def |-> TRUE, owner |-> r.val])
         /\ \E e \in Elements(m[r.bin]) : e.key = r.key /\ ~e.sym.tls
    ELSE r.key \in ks

RelsOK ==
    /\ phase \in {"collect", "setsrc", "public"} => rels = <<>>
    /\ \A r \in Elements(rels) : RelOK(maps, DOMAIN syms, r)

BindInv == MapsOK /\ LoadedOK /\ SrcOK /\ SymsOK /\ SymsBound /\ RelsOK

-----------------------------------------------------------------------------
(***************************************************************************)
(* LoadDynSymtab: an entry is added to the map of one binary, and to the   *)
(* vector.                                                                 *)
(***************************************************************************)
\* The vector after LoadDynSymtab has merged the entry e into it.
Vector(l, e) ==
    LET found == {i \in DOMAIN l : l[i].key = e.key}
    IN  IF found = {} THEN Append(l, e)
        ELSE [i \in DOMAIN l |-> IF i \in found THEN Merged(l[i], e) ELSE l[i]]

\* The maps after the entry e of binary c has been read.
LEMMA AddedEntry ==
    ASSUME NEW m \in [Bins -> Seq(Syminfo)], NEW c \in Bins, NEW e \in Syminfo
    PROVE  LET n == [m EXCEPT ![c] = Append(@, e)]
           IN  /\ Elements(n[c]) = Elements(m[c]) \cup {e}
               /\ \A b \in Bins : b # c => n[b] = m[b]
<1>1. m[c] \in Seq(Syminfo)
  OBVIOUS
<1>2. Elements(Append(m[c], e)) = Elements(m[c]) \cup {e}
  BY <1>1, AppendElement, SMTT(30) DEF Elements
<1> QED BY <1>2

\* Only the key of the new entry can gain a definer.
LEMMA OtherDefiners ==
    ASSUME NEW m \in [Bins -> Seq(Syminfo)], NEW c \in Bins, NEW e \in Syminfo,
           NEW k \in Key, k # e.key
    PROVE  DefinersIn([m EXCEPT ![c] = Append(@, e)], k) = DefinersIn(m, k)
<1> DEFINE n == [m EXCEPT ![c] = Append(@, e)]
<1>1. /\ Elements(n[c]) = Elements(m[c]) \cup {e}
      /\ \A b \in Bins : b # c => n[b] = m[b]
  BY AddedEntry
<1> HIDE DEF n
<1>2. \A b \in Bins : b \in DefinersIn(n, k) <=> b \in DefinersIn(m, k)
  BY <1>1 DEF DefinersIn
<1>3. DefinersIn(n, k) = DefinersIn(m, k)
  BY <1>2 DEF DefinersIn
<1> QED BY <1>3 DEF n

\* And it gains the binary of the new entry, if that is a definition.
LEMMA AddedDefiner ==
    ASSUME NEW m \in [Bins -> Seq(Syminfo)], NEW c \in Bins, NEW e \in Syminfo
    PROVE  DefinersIn([m EXCEPT ![c] = Append(@, e)], e.key)
             = IF e.sym.def THEN DefinersIn(m, e.key) \cup {c} ELSE DefinersIn(m, e.key)
<1> DEFINE n == [m EXCEPT ![c] = Append(@, e)]
<1>1. /\ Elements(n[c]) = Elements(m[c]) \cup {e}
      /\ \A b \in Bins : b # c => n[b] = m[b]
  BY AddedEntry
<1> HIDE DEF n
<1>2. \A b \in Bins \ {c} : b \in DefinersIn(n, e.key) <=> b \in DefinersIn(m, e.key)
  BY <1>1 DEF DefinersIn
<1>3. DefinersIn(n, e.key) \subseteq Bins /\ DefinersIn(m, e.key) \subseteq Bins
  BY DEF DefinersIn
<1>4. CASE e.sym.def
  <2>1. c \in DefinersIn(n, e.key)
    BY <1>1, <1>4 DEF DefinersIn
  <2>2. DefinersIn(n, e.key) = DefinersIn(m, e.key) \cup {c}
    BY <1>2, <1>3, <2>1
  <2> QED BY <1>4, <2>2 DEF n
<1>5. CASE ~e.sym.def
  <2>1. c \in DefinersIn(n, e.key) <=> c \in DefinersIn(m, e.key)
    BY <1>1, <1>5 DEF DefinersIn
  <2>2. \A b \in Bins : b \in DefinersIn(n, e.key) <=> b \in DefinersIn(m, e.key)
    BY <1>2, <2>1
  <2>3. DefinersIn(n, e.key) = DefinersIn(m, e.key)
    BY <2>2 DEF DefinersIn
  <2> QED BY <1>5, <2>3 DEF n
<1> QED BY <1>4, <1>5

\* An entry that came from some input still does.
LEMMA AddedFromInput ==
    ASSUME NEW m \in [Bins -> Seq(Syminfo)], NEW c \in Bins, NEW e \in Syminfo,
           NEW k, NEW v, FromInput(m, k, v)
    PROVE  FromInput([m EXCEPT ![c] = Append(@, e)], k, v)
BY AddedEntry DEF FromInput

\* No binary after c can define a key while c is being read.
LEMMA DefinersUpTo ==
    ASSUME NEW m, NEW c \in Bins, \A b \in Bins : b > c => m[b] = <<>>, NEW k
    PROVE  \A d \in DefinersIn(m, k) : d <= c /\ d \in Bins
<1> SUFFICES ASSUME NEW d \in DefinersIn(m, k) PROVE d <= c /\ d \in Bins
  OBVIOUS
<1>1. d \in Bins /\ Elements(m[d]) # {}
  BY DEF DefinersIn
<1>2. ~(d > c)
  BY <1>1 DEF Elements
<1> QED BY <1>1, <1>2, InputAssumption DEF Bins

\* The elements of a sequence have the type of the sequence.
LEMMA SeqElements ==
    ASSUME NEW T, NEW s \in Seq(T)
    PROVE  /\ DOMAIN s = 1..Len(s) /\ Len(s) \in Nat
           /\ \A i \in DOMAIN s : s[i] \in T
           /\ \A x \in Elements(s) : x \in T
<1>1. DOMAIN s = 1..Len(s) /\ Len(s) \in Nat
  BY LenProperties
<1>2. \A i \in DOMAIN s : s[i] \in T
  BY <1>1, ElementOfSeq
<1> QED BY <1>1, <1>2 DEF Elements

\* The vector keeps one rightly bound element per key when an entry is read.
LEMMA VectorLoad ==
    ASSUME NEW m \in [Bins -> Seq(Syminfo)], NEW l \in Seq(Syminfo), VectorOK(m, l),
           NEW c \in Bins, \A b \in Bins : b > c => m[b] = <<>>,
           NEW e \in Syminfo, e.sym.owner = c
    PROVE  VectorOK([m EXCEPT ![c] = Append(@, e)], Vector(l, e))
<1> DEFINE found == {i \in DOMAIN l : l[i].key = e.key}
           merged == [i \in DOMAIN l |-> IF i \in found THEN Merged(l[i], e) ELSE l[i]]
<1> SUFFICES ASSUME NEW n, n = [m EXCEPT ![c] = Append(@, e)]
             PROVE  VectorOK(n, IF found = {} THEN Append(l, e) ELSE merged)
  BY DEF Vector
<1>1. /\ Elements(n[c]) = Elements(m[c]) \cup {e}
      /\ \A b \in Bins : b # c => n[b] = m[b]
  BY AddedEntry
<1>2. DefinersIn(n, e.key)
        = IF e.sym.def THEN DefinersIn(m, e.key) \cup {c} ELSE DefinersIn(m, e.key)
  BY AddedDefiner
<1>2a. \A k \in Key : \A s : k # e.key /\ BoundRight(m, k, s) => BoundRight(n, k, s)
  <2> SUFFICES ASSUME NEW k \in Key, NEW s, k # e.key, BoundRight(m, k, s) PROVE BoundRight(n, k, s)
    OBVIOUS
  <2>1. DefinersIn([m EXCEPT ![c] = Append(@, e)], k) = DefinersIn(m, k)
    BY OtherDefiners, ZenonT(40)
  <2> QED BY <2>1 DEF BoundRight
<1>3. \A k, v : FromInput(m, k, v) => FromInput(n, k, v)
  BY AddedFromInput
<1>4. FromInput(n, e.key, e.versym)
  BY <1>1 DEF FromInput
<1>6. \A i \in DOMAIN l : l[i] \in Syminfo
  BY SeqElements
<1>7. \A b \in Bins : \A x \in Elements(n[b]) :
          x = e \/ \E i \in DOMAIN l : l[i].key = x.key
  BY <1>1 DEF VectorOK
<1>8. CASE found = {}
  <2> DEFINE a == Append(l, e)
  <2>1. /\ DOMAIN a = DOMAIN l \cup {Len(l) + 1}
        /\ \A i \in DOMAIN l : a[i] = l[i] /\ l[i].key # e.key
        /\ a[Len(l) + 1] = e
    BY <1>8, AppendElement
  <2> HIDE DEF a
  <2>2. DefinersIn(m, e.key) = {}
    BY <1>8 DEF VectorOK, DefinersIn
  <2>3. BoundRight(n, e.key, e.sym)
    <3>1. DefinersIn(n, e.key) = IF e.sym.def THEN {c} ELSE {}
      BY <1>2, <2>2
    <3>2. c <= c
      BY DEF Bins
    <3> QED BY <3>1, <3>2 DEF BoundRight
  <2>4. ASSUME NEW i \in DOMAIN l
        PROVE  BoundRight(n, a[i].key, a[i].sym) /\ FromInput(n, a[i].key, a[i].versym)
    BY <1>2a, <1>3, <1>6, <2>1 DEF VectorOK, Syminfo
  <2>5. \A i, j \in DOMAIN a : a[i].key = a[j].key => i = j
    BY <2>1 DEF VectorOK
  <2>6. \A b \in Bins : \A x \in Elements(n[b]) : \E i \in DOMAIN a : a[i].key = x.key
    <3> SUFFICES ASSUME NEW b \in Bins, NEW x \in Elements(n[b])
                 PROVE  \E i \in DOMAIN a : a[i].key = x.key
      OBVIOUS
    <3>1. CASE x = e
      BY <2>1, <3>1
    <3>2. CASE \E i \in DOMAIN l : l[i].key = x.key
      BY <2>1, <3>2
    <3> QED BY <1>7, <3>1, <3>2
  <2>7. VectorOK(n, a)
    BY <1>4, <2>1, <2>3, <2>4, <2>5, <2>6 DEF VectorOK
  <2> QED BY <1>8, <2>7 DEF a
<1>9. CASE found # {}
  <2>1. /\ DOMAIN merged = DOMAIN l
        /\ \A i \in DOMAIN l : /\ merged[i].key = l[i].key /\ merged[i].versym = l[i].versym
                               /\ l[i].key # e.key => merged[i] = l[i]
                               /\ l[i].key = e.key => merged[i] = Merged(l[i], e)
    BY <1>6 DEF Merged, Syminfo
  <2> HIDE DEF merged
  <2>2. ASSUME NEW i \in DOMAIN l, l[i].key = e.key
        PROVE  BoundRight(n, merged[i].key, merged[i].sym)
    <3> DEFINE old == l[i]
               D == DefinersIn(m, e.key)
    <3>1. BoundRight(m, e.key, old.sym)
      BY <2>2 DEF VectorOK
    <3>2. DefinersIn(n, e.key) = IF e.sym.def THEN D \cup {c} ELSE D
      BY <1>2
    <3>3. merged[i].key = e.key /\ merged[i] = Merged(old, e)
      BY <2>1, <2>2
    <3>4. old \in Syminfo
      BY <1>6
    <3>5. old.sym.def \in BOOLEAN /\ e.sym.def \in BOOLEAN
      BY <3>4 DEF Syminfo, Sym
    <3>6. merged[i].sym = IF e.sym.def /\ ~old.sym.def THEN e.sym
                          ELSE IF Prio(e.sym) > Prio(old.sym) THEN e.sym ELSE old.sym
      BY <3>3, <3>4, <3>5 DEF Merged, Prio, Syminfo
    <3>7. Prio(e.sym) > Prio(old.sym) => ~old.sym.def
      BY <3>5 DEF Prio
    <3>8. \A d \in D : d <= c
      BY DefinersUpTo
    <3>9. c <= c
      BY DEF Bins
    <3> HIDE DEF old, D
    <3>10. CASE old.sym.def
      BY <3>1, <3>2, <3>3, <3>6, <3>7, <3>8, <3>10 DEF BoundRight, D
    <3>11. CASE ~old.sym.def
      <4>1. D = {}
        BY <3>1, <3>11 DEF BoundRight, D
      <4>2. CASE e.sym.def
        BY <3>2, <3>3, <3>6, <3>9, <3>11, <4>1, <4>2 DEF BoundRight
      <4>3. CASE ~e.sym.def
        BY <3>2, <3>3, <3>6, <3>11, <4>1, <4>3 DEF BoundRight
      <4> QED BY <4>2, <4>3
    <3> QED BY <3>10, <3>11
  <2>3. ASSUME NEW i \in DOMAIN l, l[i].key # e.key
        PROVE  BoundRight(n, merged[i].key, merged[i].sym)
    BY <1>2a, <1>6, <2>1, <2>3 DEF VectorOK, Syminfo
  <2>4. \A i \in DOMAIN l : FromInput(n, merged[i].key, merged[i].versym)
    BY <1>3, <2>1 DEF VectorOK
  <2>5. \A i, j \in DOMAIN merged : merged[i].key = merged[j].key => i = j
    BY <2>1 DEF VectorOK
  <2>6. \A b \in Bins : \A x \in Elements(n[b]) : \E i \in DOMAIN merged : merged[i].key = x.key
    BY <1>7, <1>9, <2>1, SMTT(40)
  <2>7. VectorOK(n, merged)
    BY <2>1, <2>2, <2>3, <2>4, <2>5, <2>6 DEF VectorOK
  <2> QED BY <1>9, <2>7 DEF merged
<1> QED BY <1>8, <1>9

-----------------------------------------------------------------------------
(***************************************************************************)
(* The steps, sorted by the tables they write.                             *)
(***************************************************************************)
\* A step that leaves the maps, the vector, src_syms_, syms_ and rels_ alone.
Passes ==
    /\ UNCHANGED <<maps, loaded, src, syms, rels>>
    /\ phase \in {"public", "relocate", "build", "merge"}
    /\ phase' \in Phases \ {"collect", "setsrc"}
    /\ phase' = "public" => phase = "public"

LEMMA StepKinds ==
    ASSUME TypeOK, [Next]_vars
    PROVE  \/ \E r \in DynSyms[cur] : LoadSymbol(r)
           \/ NextLoad \/ SetSrcSym \/ EndSetSrc
           \/ RelocateResolve \/ RelocateCopy
           \/ Passes
           \/ UNCHANGED vars
<1>1. CopyPublicSymbol => Passes
  BY DEF CopyPublicSymbol, Passes, inputs, Phases
<1>2. NextPublic => Passes
  BY DEF NextPublic, Passes, tables, Phases
<1>3. NextRelocate => Passes
  BY DEF NextRelocate, Passes, tables, Phases
<1>4. BuildSymbol => Passes
  BY DEF BuildSymbol, Passes, tables, inputs, Phases
<1>5. EndBuild => Passes
  BY DEF EndBuild, Passes, tables, inputs, Phases
<1>6. MergePublicSymbol => Passes
  BY DEF MergePublicSymbol, Passes, inputs, Phases
<1>7. EndMerge => Passes
  BY DEF EndMerge, Passes, inputs, Phases
<1> QED BY <1>1, <1>2, <1>3, <1>4, <1>5, <1>6, <1>7 DEF Next

\* The entry LoadSymbol adds is one of its binary.
LEMMA SyminfoIsEntry ==
    ASSUME cur \in Bins, NEW r \in DynSyms[cur]
    PROVE  EntryOf(cur, SyminfoOf(r)) /\ SyminfoOf(r).versym = r.versym
<1>1. SyminfoOf(r) \in Syminfo
  BY SyminfoOfType
<1>2. r.name \in Names
  BY InputAssumption DEF RawSym
<1>3. /\ SyminfoOf(r).sym.owner = cur /\ SyminfoOf(r).versym = r.versym
      /\ SyminfoOf(r).key.name = r.name
      /\ SyminfoOf(r).key.soname = VersionIn(cur, r.versym).soname
      /\ SyminfoOf(r).key.version = VersionIn(cur, r.versym).version
      /\ r.def = SyminfoOf(r).sym.def /\ r.tls = SyminfoOf(r).sym.tls
      /\ r.bind = SyminfoOf(r).sym.bind
  BY DEF SyminfoOf, VersionIn
<1> QED BY <1>1, <1>2, <1>3 DEF EntryOf

\* Every step keeps what is known of the symbol maps.
LEMMA MapsStep ==
    ASSUME TypeOK, MapsOK, [Next]_vars
    PROVE  MapsOK'
<1>1. ASSUME NEW r \in DynSyms[cur], LoadSymbol(r) PROVE MapsOK'
  <2> DEFINE e == SyminfoOf(r)
  <2>1. cur \in Bins /\ maps \in [Bins -> Seq(Syminfo)] /\ phase = "collect"
    BY <1>1 DEF TypeOK, LoadSymbol
  <2>2. EntryOf(cur, e) /\ e \in Syminfo
    BY <2>1, SyminfoIsEntry, SyminfoOfType
  <2>3. maps' = [maps EXCEPT ![cur] = Append(@, e)] /\ cur' = cur
    BY <1>1 DEF LoadSymbol
  <2>4. phase' # "aborted" => \A d \in Elements(maps[cur]) : d.key # e.key
    BY <1>1 DEF LoadSymbol
  <2> HIDE DEF e
  <2>5. /\ Elements(maps'[cur]) = Elements(maps[cur]) \cup {e}
        /\ \A b \in Bins : b # cur => maps'[b] = maps[b]
    BY <2>1, <2>2, <2>3, AddedEntry
  <2>6. \A b \in Bins : \A x \in Elements(maps'[b]) : EntryOf(b, x)
    BY <2>2, <2>5 DEF MapsOK
  <2>7. \A b \in Bins : b > cur => maps'[b] = <<>>
    <3>1. ~(cur > cur)
      BY <2>1 DEF Bins
    <3> QED BY <2>1, <2>5, <3>1 DEF MapsOK
  <2>8. Sound' => \A b \in Bins : \A x, y \in Elements(maps'[b]) : x.key = y.key => x = y
    BY <2>1, <2>4, <2>5 DEF MapsOK, Sound
  <2> QED BY <2>3, <2>6, <2>7, <2>8 DEF MapsOK
<1>2. CASE NextLoad
  <2>1. \A b \in Bins : b > cur + 1 => b > cur
    BY DEF TypeOK, Bins
  <2>2. UNCHANGED maps /\ phase = "collect" /\ (phase' = "collect" => cur' = cur + 1)
    BY <1>2 DEF NextLoad
  <2> QED BY <2>1, <2>2 DEF MapsOK, Sound
<1>3. CASE UNCHANGED maps /\ (Sound' => Sound) /\ phase' # "collect"
  BY <1>3 DEF MapsOK
<1>4. CASE SetSrcSym \/ EndSetSrc
  BY <1>3, <1>4 DEF SetSrcSym, EndSetSrc, inputs, Sound
<1>5. CASE RelocateResolve \/ RelocateCopy
  BY <1>3, <1>5 DEF RelocateResolve, RelocateCopy, Relocating, Resolve, ResolveCopy, inputs, Sound
<1>6. CASE Passes
  BY <1>3, <1>6 DEF Passes, Sound
<1>7. CASE UNCHANGED vars
  BY <1>7 DEF vars, MapsOK, Sound
<1> QED BY <1>1, <1>2, <1>4, <1>5, <1>6, <1>7, StepKinds

\* Every step keeps the vector of CollectSymbols bound to first definitions.
LEMMA LoadedStep ==
    ASSUME TypeOK, TypeOK', MapsOK, LoadedOK, [Next]_vars
    PROVE  LoadedOK'
<1>1. ASSUME NEW r \in DynSyms[cur], LoadSymbol(r) PROVE LoadedOK'
  <2> DEFINE e == SyminfoOf(r)
  <2> SUFFICES ASSUME Sound' PROVE VectorOK(maps', loaded')
    BY DEF LoadedOK
  <2>1. cur \in Bins /\ maps \in [Bins -> Seq(Syminfo)] /\ phase = "collect"
        /\ loaded \in Seq(Syminfo) /\ maps' \in [Bins -> Seq(Syminfo)]
    BY <1>1 DEF TypeOK, LoadSymbol
  <2>2. EntryOf(cur, e) /\ e \in Syminfo
    BY <2>1, SyminfoIsEntry, SyminfoOfType
  <2>3. e.sym.owner = cur
    BY <2>2 DEF EntryOf
  <2>4. maps' = [maps EXCEPT ![cur] = Append(@, e)] /\ loaded' = Vector(loaded, e)
    BY <1>1 DEF LoadSymbol, Sound, Vector
  <2>5. VectorOK(maps, loaded) /\ \A b \in Bins : b > cur => maps[b] = <<>>
    BY <2>1 DEF LoadedOK, MapsOK, Sound
  <2> HIDE DEF e
  <2>6. VectorOK([maps EXCEPT ![cur] = Append(@, e)], Vector(loaded, e))
    BY <2>1, <2>2, <2>3, <2>5, VectorLoad
  <2> QED BY <2>4, <2>6
<1>2. CASE UNCHANGED <<maps, loaded>> /\ (Sound' => Sound)
  BY <1>2 DEF LoadedOK
<1>3. CASE NextLoad \/ SetSrcSym \/ EndSetSrc
  BY <1>2, <1>3 DEF NextLoad, SetSrcSym, EndSetSrc, inputs, Sound
<1>4. CASE RelocateResolve \/ RelocateCopy
  BY <1>2, <1>4 DEF RelocateResolve, RelocateCopy, Relocating, inputs, Sound
<1>5. CASE Passes
  BY <1>2, <1>5 DEF Passes, Sound
<1>6. CASE UNCHANGED vars
  BY <1>2, <1>6 DEF vars, Sound
<1> QED BY <1>1, <1>3, <1>4, <1>5, <1>6, StepKinds

-----------------------------------------------------------------------------
(***************************************************************************)
(* SetSrcSyms, and what the later stages may rely on.                      *)
(***************************************************************************)
\* Every step keeps src_syms_ a copy of the elements of the vector before pos.
LEMMA SrcStep ==
    ASSUME TypeOK, TypeOK', LoadedOK, SrcOK, [Next]_vars
    PROVE  SrcOK'
<1>0. /\ DOMAIN loaded = 1..Len(loaded) /\ Len(loaded) \in Nat
      /\ pos \in Nat \ {0}
  BY LenProperties DEF TypeOK
<1>1. ASSUME NEW r \in DynSyms[cur], LoadSymbol(r) PROVE SrcOK'
  <2>1. /\ phase = "collect" /\ phase' \in {"collect", "aborted"}
        /\ UNCHANGED <<src, pos>> /\ DOMAIN src = {} /\ pos = 1
    BY <1>1 DEF LoadSymbol, tables, SrcOK
  <2> QED BY <2>1 DEF SrcOK, Sound, Read
<1>2. CASE NextLoad
  <2>1. /\ UNCHANGED <<src, pos, loaded>> /\ DOMAIN src = {} /\ pos = 1
        /\ phase' \in {"collect", "setsrc"}
    BY <1>2 DEF NextLoad, tables, SrcOK
  <2> QED BY <1>0, <2>1 DEF SrcOK, Read
<1>3. CASE SetSrcSym
  <2> DEFINE s == loaded[pos]
             v == [versym |-> s.versym, sym |-> s.sym]
  <2>1. /\ phase = "setsrc" /\ phase' = phase /\ pos \in DOMAIN loaded
        /\ UNCHANGED loaded /\ pos' = pos + 1
    BY <1>0, <1>3 DEF SetSrcSym
  <2>2. \A i, j \in DOMAIN loaded : loaded[i].key = loaded[j].key => i = j
    BY <2>1 DEF LoadedOK, VectorOK, Sound
  <2>3. \A k \in DOMAIN src : \E i \in DOMAIN loaded :
            /\ loaded[i].key = k
            /\ src[k] = [versym |-> loaded[i].versym, sym |-> loaded[i].sym]
            /\ i < pos
    BY <2>1 DEF SrcOK
  <2>4. s.key \notin DOMAIN src
    BY <1>0, <2>1, <2>2, <2>3
  <2>5. src' = Put(src, s.key, v)
    BY <1>3, <2>4 DEF SetSrcSym, Replaceable
  <2> HIDE DEF v
  <2>6. /\ DOMAIN src' = DOMAIN src \cup {s.key}
        /\ src'[s.key] = v
        /\ \A k \in DOMAIN src : src'[k] = src[k]
    BY <2>4, <2>5 DEF Put
  <2>7. ASSUME NEW k \in DOMAIN src'
        PROVE  \E i \in DOMAIN loaded :
                  /\ loaded[i].key = k
                  /\ src'[k] = [versym |-> loaded[i].versym, sym |-> loaded[i].sym]
                  /\ i < pos'
    <3>1. CASE k \in DOMAIN src
      <4>1. \A i \in DOMAIN loaded : i < pos => i < pos'
        BY <1>0, <2>1
      <4> QED BY <2>3, <2>6, <3>1, <4>1
    <3>2. CASE k = s.key
      BY <1>0, <2>1, <2>6, <3>2 DEF v
    <3> QED BY <2>6, <3>1, <3>2
  <2>8. \A i \in DOMAIN loaded : i < pos' => loaded[i].key \in DOMAIN src'
    <3>1. \A i \in DOMAIN loaded : i < pos' => i < pos \/ i = pos
      BY <1>0, <2>1
    <3> QED BY <2>1, <2>6, <3>1 DEF SrcOK
  <2> QED BY <2>1, <2>7, <2>8 DEF SrcOK, Read
<1>4. CASE EndSetSrc
  <2>1. /\ phase = "setsrc" /\ phase' = "public" /\ UNCHANGED <<src, loaded>>
        /\ \A i \in DOMAIN loaded : i < pos
    BY <1>0, <1>4 DEF EndSetSrc, tables
  <2> QED BY <2>1 DEF SrcOK, Read, Sound
<1>5. CASE RelocateResolve \/ RelocateCopy
  <2>1. /\ UNCHANGED <<src, loaded, pos>> /\ phase = "relocate"
        /\ phase' \in {"relocate", "aborted"}
    BY <1>5 DEF RelocateResolve, RelocateCopy, Relocating, Resolve, ResolveCopy
  <2> QED BY <2>1 DEF SrcOK, Read, Sound, Phases
<1>6. CASE Passes
  BY <1>6 DEF Passes, SrcOK, Read, Sound, Phases
<1>7. CASE UNCHANGED vars
  BY <1>7 DEF vars, SrcOK, Read, Sound
<1> QED BY <1>1, <1>2, <1>3, <1>4, <1>5, <1>6, <1>7, StepKinds

\* Once SetSrcSyms is done, every key read is in src_syms_, with its first
\* definition, and the null key is not.
LEMMA SourceRight ==
    ASSUME MapsOK, LoadedOK, SrcOK, Read, Sound
    PROVE  /\ \A b \in Bins : \A e \in Elements(maps[b]) : e.key \in DOMAIN src
           /\ \A k \in DOMAIN src : /\ BoundRight(maps, k, src[k].sym)
                                    /\ FromInput(maps, k, src[k].versym)
           /\ NullKey \notin DOMAIN src
<1>1. VectorOK(maps, loaded)
  BY DEF LoadedOK
<1>2. \A i \in DOMAIN loaded : loaded[i].key \in DOMAIN src
  BY DEF SrcOK
<1>3. \A b \in Bins : \A e \in Elements(maps[b]) : e.key \in DOMAIN src
  BY <1>1, <1>2 DEF VectorOK
<1>4. ASSUME NEW k \in DOMAIN src
      PROVE  BoundRight(maps, k, src[k].sym) /\ FromInput(maps, k, src[k].versym)
  <2>1. PICK i \in DOMAIN loaded :
            /\ loaded[i].key = k
            /\ src[k] = [versym |-> loaded[i].versym, sym |-> loaded[i].sym]
    BY DEF SrcOK
  <2>2. src[k].versym = loaded[i].versym /\ src[k].sym = loaded[i].sym
    BY <2>1
  <2> QED BY <1>1, <2>1, <2>2 DEF VectorOK
<1>5. NullKey \notin DOMAIN src
  <2>1. ASSUME NullKey \in DOMAIN src PROVE FALSE
    <3>1. PICK b \in Bins : \E e \in Elements(maps[b]) : e.key = NullKey
      BY <1>4, <2>1 DEF FromInput
    <3> QED BY <3>1, InputAssumption DEF MapsOK, EntryOf, NullKey
  <2> QED BY <2>1
<1> QED BY <1>3, <1>4, <1>5

\* No binary defines the null key.
LEMMA NullUndefined ==
    ASSUME NEW m, \A b \in Bins : \A e \in Elements(m[b]) : EntryOf(b, e)
    PROVE  BoundRight(m, NullKey, NullSym)
<1>1. \A b \in Bins : \A e \in Elements(m[b]) : e.key # NullKey
  BY InputAssumption DEF EntryOf, NullKey
<1>2. DefinersIn(m, NullKey) = {}
  BY <1>1 DEF DefinersIn
<1>3. ~NullSym.def
  BY DEF NullSym
<1> QED BY <1>2, <1>3 DEF BoundRight

-----------------------------------------------------------------------------
(***************************************************************************)
(* Resolve and ResolveCopy.                                                *)
(***************************************************************************)
\* The keys relocations of the current binary can name.
Nameable(k) == k = NullKey \/ \E e \in Elements(maps[cur]) : e.key = k

\* The Symbol a relocation sees is the first definition of its key.
LEMMA SymbolOfRight ==
    ASSUME TypeOK, MapsOK, LoadedOK, SrcOK, SymsOK, SymsBound, Read, Sound,
           NEW k \in Key, Nameable(k)
    PROVE  /\ BoundRight(maps, k, SymbolOf(k).sym)
           /\ IsFresh(k) => /\ k \in DOMAIN src /\ k # NullKey
                            /\ SymbolOf(k).sym = src[k].sym
<1>1. CASE ~IsFresh(k)
  BY <1>1 DEF SymbolOf, IsFresh, SymsBound
<1>2. CASE IsFresh(k)
  <2>1. k # NullKey
    BY <1>2 DEF IsFresh, SymsOK
  <2>2. k \in DOMAIN src
    BY <2>1, SourceRight DEF Nameable, TypeOK
  <2>3. SymbolOf(k).sym = src[k].sym
    BY <1>2, <2>2 DEF SymbolOf, Source
  <2> QED BY <2>1, <2>2, <2>3, SourceRight
<1> QED BY <1>1, <1>2

\* A relocation step resolves a key the current binary names: Resolve that of
\* an entry that is not a TLS symbol, ResolveCopy any.
LEMMA RelocationNames ==
    ASSUME TypeOK, RelocateResolve \/ RelocateCopy
    PROVE  \E k \in Key :
              /\ Nameable(k)
              /\ \/ Resolve(k) /\ \E e \in Elements(maps[cur]) : e.key = k /\ ~e.sym.tls
                 \/ ResolveCopy(k)
<1>1. \A e \in Elements(maps[cur]) : e.key \in Key
  <2>1. maps[cur] \in Seq(Syminfo)
    BY DEF TypeOK
  <2>2. \A e \in Elements(maps[cur]) : e \in Syminfo
    BY <2>1, SeqElements
  <2> QED BY <2>2 DEF Syminfo
<1> QED BY <1>1, Constants DEF RelocateResolve, RelocateCopy, Nameable

\* What a relocation step does to syms_ and rels_: it pushes one relocation
\* against a nameable key, bound by the Symbol of that key, and remembers a
\* Symbol it exposes; or it aborts.
LEMMA RelocationStep ==
    ASSUME TypeOK, RelocateResolve \/ RelocateCopy
    PROVE  \/ UNCHANGED <<rels, syms>> /\ phase' = "aborted"
           \/ \E k \in Key :
                /\ Nameable(k) /\ phase' = phase
                /\ \/ UNCHANGED syms
                   \/ IsFresh(k) /\ syms' = Put(syms, k, SymbolOf(k))
                /\ \/ /\ rels' = NewRel(k, "address", SymbolOf(k).sym.owner)
                      /\ SymbolOf(k).sym.def
                      /\ \E e \in Elements(maps[cur]) : e.key = k /\ ~e.sym.tls
                   \/ /\ rels' = NewRel(k, "index", SymbolOf(k).index)
                      /\ k \in DOMAIN syms'
<1>1. PICK k \in Key :
          /\ Nameable(k)
          /\ \/ Resolve(k) /\ \E e \in Elements(maps[cur]) : e.key = k /\ ~e.sym.tls
             \/ ResolveCopy(k)
  BY RelocationNames
<1>2. /\ Expose(k) => syms' = Put(syms, k, SymbolOf(k)) /\ k \in DOMAIN syms'
      /\ UNCHANGED syms /\ ~IsFresh(k) => k \in DOMAIN syms'
  BY DEF Expose, IsFresh, Put
<1>3. CASE Resolve(k) /\ \E e \in Elements(maps[cur]) : e.key = k /\ ~e.sym.tls
  <2>1. CASE SymbolOf(k).sym.def
    BY <1>1, <1>3, <2>1 DEF Resolve, ResolvedRel
  <2>2. CASE ~SymbolOf(k).sym.def
    <3>1. rels' = NewRel(k, "index", SymbolOf(k).index) /\ phase' = phase
      BY <1>3, <2>2 DEF Resolve, ResolvedRel
    <3>2. IF IsFresh(k) THEN Expose(k) ELSE UNCHANGED syms
      BY <1>3, <2>2 DEF Resolve
    <3> QED BY <1>1, <1>2, <3>1, <3>2
  <2> QED BY <2>1, <2>2
<1>4. CASE ResolveCopy(k)
  <2>1. CASE IsFresh(k) /\ ~HasSource(k)
    BY <1>4, <2>1 DEF ResolveCopy
  <2>2. CASE ~(IsFresh(k) /\ ~HasSource(k))
    <3>1. rels' = NewRel(k, "index", SymbolOf(k).index) /\ phase' = phase
      BY <1>4, <2>2 DEF ResolveCopy
    <3>2. IF IsFresh(k) THEN Expose(k) ELSE UNCHANGED syms
      BY <1>4, <2>2 DEF ResolveCopy
    <3> QED BY <1>1, <1>2, <3>1, <3>2
  <2> QED BY <2>1, <2>2
<1> QED BY <1>1, <1>3, <1>4

\* A relocation pushed onto rels_ is its only new element.
LEMMA RelAppended ==
    ASSUME TypeOK, NEW k \in Key, NEW kind \in {"address", "index"}, NEW val \in Nat,
           rels' = NewRel(k, kind, val)
    PROVE  /\ [bin |-> cur, key |-> k, kind |-> kind, val |-> val] \in Rel
           /\ Elements(rels') = Elements(rels)
                \cup {[bin |-> cur, key |-> k, kind |-> kind, val |-> val]}
<1> DEFINE x == [bin |-> cur, key |-> k, kind |-> kind, val |-> val]
<1>1. x \in Rel
  BY DEF Rel, TypeOK
<1>2. rels' = Append(rels, x)
  BY DEF NewRel
<1> HIDE DEF x
<1>3. Elements(rels') = Elements(rels) \cup {x}
  BY <1>1, <1>2, AppendElement, SMTT(30) DEF TypeOK, Elements
<1> QED BY <1>1, <1>3 DEF x

\* Every step keeps syms_ a copy of the entries of src_syms_ it was made from.
LEMMA SymsStep ==
    ASSUME TypeOK, MapsOK, LoadedOK, SrcOK, SymsOK, SymsBound, [Next]_vars
    PROVE  SymsOK'
<1>1. CASE (\E r \in DynSyms[cur] : LoadSymbol(r)) \/ NextLoad \/ SetSrcSym \/ EndSetSrc
  <2>1. UNCHANGED syms /\ phase \in {"collect", "setsrc"}
    BY <1>1 DEF LoadSymbol, NextLoad, SetSrcSym, EndSetSrc, tables
  <2>2. DOMAIN syms = {NullKey}
    BY <2>1 DEF SymsOK, Read
  <2> QED BY <2>1, <2>2 DEF SymsOK
<1>2. CASE RelocateResolve \/ RelocateCopy
  <2>1. phase = "relocate" /\ phase' \in {"relocate", "aborted"} /\ UNCHANGED src
    BY <1>2 DEF RelocateResolve, RelocateCopy, Relocating, Resolve, ResolveCopy
  <2>2. CASE UNCHANGED syms
    BY <2>1, <2>2 DEF SymsOK, Read, Phases
  <2>3. ASSUME NEW k \in Key, Nameable(k), IsFresh(k), syms' = Put(syms, k, SymbolOf(k))
        PROVE  SymsOK'
    <3>1. k \in DOMAIN src /\ k # NullKey /\ SymbolOf(k).sym = src[k].sym
      BY <2>1, <2>3, SymbolOfRight DEF Read, Sound, Phases
    <3>2. /\ DOMAIN syms' = DOMAIN syms \cup {k}
          /\ syms'[k] = SymbolOf(k)
          /\ \A j \in DOMAIN syms : syms'[j] = syms[j]
      BY <2>3 DEF Put, IsFresh
    <3> QED BY <2>1, <3>1, <3>2 DEF SymsOK, Read, Phases
  <2> QED BY <1>2, <2>2, <2>3, RelocationStep
<1>3. CASE Passes
  BY <1>3 DEF Passes, SymsOK, Read, Phases
<1>4. CASE UNCHANGED vars
  BY <1>4 DEF vars, SymsOK, Read
<1> QED BY <1>1, <1>2, <1>3, <1>4, StepKinds

\* Every step keeps the Symbols of syms_ first definitions of their keys.
LEMMA SymsBoundStep ==
    ASSUME TypeOK, MapsOK, MapsOK', LoadedOK, SrcOK, SymsOK, SymsBound, [Next]_vars
    PROVE  SymsBound'
<1>1. CASE (\E r \in DynSyms[cur] : LoadSymbol(r)) \/ NextLoad \/ SetSrcSym \/ EndSetSrc
  <2>1. UNCHANGED syms /\ phase \in {"collect", "setsrc"}
    BY <1>1 DEF LoadSymbol, NextLoad, SetSrcSym, EndSetSrc, tables
  <2>2. DOMAIN syms = {NullKey} /\ syms[NullKey].sym = NullSym
    BY <2>1 DEF SymsOK, Read
  <2>3. BoundRight(maps', NullKey, NullSym)
    BY NullUndefined DEF MapsOK
  <2> QED BY <2>1, <2>2, <2>3 DEF SymsBound
<1>2. CASE UNCHANGED <<maps, syms>>
  BY <1>2 DEF SymsBound
<1>3. CASE RelocateResolve \/ RelocateCopy
  <2>1. phase = "relocate" /\ UNCHANGED maps
    BY <1>3 DEF RelocateResolve, RelocateCopy, Relocating, inputs
  <2>2. ASSUME NEW k \in Key, Nameable(k), IsFresh(k), syms' = Put(syms, k, SymbolOf(k))
        PROVE  SymsBound'
    <3>1. BoundRight(maps, k, SymbolOf(k).sym)
      BY <2>1, <2>2, SymbolOfRight DEF Read, Sound, Phases
    <3>2. /\ DOMAIN syms' = DOMAIN syms \cup {k}
          /\ syms'[k] = SymbolOf(k)
          /\ \A j \in DOMAIN syms : syms'[j] = syms[j]
      BY <2>2 DEF Put, IsFresh
    <3> QED BY <2>1, <3>1, <3>2 DEF SymsBound
  <2> QED BY <1>2, <1>3, <2>1, <2>2, RelocationStep
<1>4. CASE Passes
  BY <1>2, <1>4 DEF Passes
<1>5. CASE UNCHANGED vars
  BY <1>2, <1>5 DEF vars
<1> QED BY <1>1, <1>3, <1>4, <1>5, StepKinds

\* Every step keeps the relocations bound to first definitions.
LEMMA RelsStep ==
    ASSUME TypeOK, MapsOK, LoadedOK, SrcOK, SymsOK, SymsBound, RelsOK, [Next]_vars
    PROVE  RelsOK'
<1>1. CASE (\E r \in DynSyms[cur] : LoadSymbol(r)) \/ NextLoad \/ SetSrcSym \/ EndSetSrc
  <2>1. UNCHANGED rels /\ phase \in {"collect", "setsrc"}
    BY <1>1 DEF LoadSymbol, NextLoad, SetSrcSym, EndSetSrc
  <2>2. rels = <<>> /\ Elements(rels) = {}
    BY <2>1 DEF RelsOK, Elements
  <2> QED BY <2>1, <2>2 DEF RelsOK
<1>2. CASE RelocateResolve \/ RelocateCopy
  <2>1. phase = "relocate" /\ phase' \in {"relocate", "aborted"} /\ UNCHANGED maps
    BY <1>2 DEF RelocateResolve, RelocateCopy, Relocating, Resolve, ResolveCopy, inputs
  <2>2. CASE UNCHANGED <<rels, syms>>
    BY <2>1, <2>2 DEF RelsOK
  <2>3. ASSUME NEW k \in Key, Nameable(k),
               \/ UNCHANGED syms
               \/ IsFresh(k) /\ syms' = Put(syms, k, SymbolOf(k)),
               \/ /\ rels' = NewRel(k, "address", SymbolOf(k).sym.owner)
                  /\ SymbolOf(k).sym.def
                  /\ \E e \in Elements(maps[cur]) : e.key = k /\ ~e.sym.tls
               \/ /\ rels' = NewRel(k, "index", SymbolOf(k).index)
                  /\ k \in DOMAIN syms'
        PROVE  RelsOK'
    <3> DEFINE s == SymbolOf(k)
    <3>1. BoundRight(maps, k, s.sym)
      BY <2>1, <2>3, SymbolOfRight DEF Read, Sound, Phases
    <3>2. s.index \in Nat /\ s.sym.owner \in Nat
      BY SymbolOfType, InputAssumption DEF Sym
    <3>3. DOMAIN syms \subseteq DOMAIN syms'
      BY <2>3 DEF Put
    <3>4. \A r \in Elements(rels) : RelOK(maps, DOMAIN syms', r)
      BY <3>3 DEF RelsOK, RelOK
    <3> HIDE DEF s
    <3>5. CASE /\ rels' = NewRel(k, "address", s.sym.owner)
               /\ s.sym.def
               /\ \E e \in Elements(maps[cur]) : e.key = k /\ ~e.sym.tls
      <4> DEFINE x == [bin |-> cur, key |-> k, kind |-> "address", val |-> s.sym.owner]
      <4>1. Elements(rels') = Elements(rels) \cup {x}
        BY <3>2, <3>5, RelAppended
      <4>2. /\ s.sym.owner \in DefinersIn(maps, k)
            /\ \A c \in DefinersIn(maps, k) : s.sym.owner <= c
        BY <3>1, <3>5 DEF BoundRight
      <4>3. x.kind = "address" /\ x.key = k /\ x.val = s.sym.owner /\ x.bin = cur
        OBVIOUS
      <4> HIDE DEF x
      <4>4. RelOK(maps, DOMAIN syms', x)
        BY <3>5, <4>2, <4>3 DEF RelOK, BoundRight
      <4> QED BY <2>1, <3>4, <4>1, <4>4 DEF RelsOK
    <3>6. CASE rels' = NewRel(k, "index", s.index) /\ k \in DOMAIN syms'
      <4> DEFINE x == [bin |-> cur, key |-> k, kind |-> "index", val |-> s.index]
      <4>1. Elements(rels') = Elements(rels) \cup {x}
        BY <3>2, <3>6, RelAppended
      <4>2. x.kind = "index" /\ x.key = k
        OBVIOUS
      <4> HIDE DEF x
      <4>3. RelOK(maps, DOMAIN syms', x)
        BY <3>6, <4>2 DEF RelOK
      <4> QED BY <2>1, <3>4, <4>1, <4>3 DEF RelsOK
    <3> QED BY <2>3, <3>5, <3>6 DEF s
  <2> QED BY <1>2, <2>2, <2>3, RelocationStep
<1>3. CASE Passes
  BY <1>3 DEF Passes, RelsOK
<1>4. CASE UNCHANGED vars
  BY <1>4 DEF vars, RelsOK
<1> QED BY <1>1, <1>2, <1>3, <1>4, StepKinds

-----------------------------------------------------------------------------
(***************************************************************************)
(* The theorems.                                                           *)
(***************************************************************************)
\* The empty tables satisfy the invariant.
LEMMA BindInit == Init => BindInv
<1> SUFFICES ASSUME Init PROVE BindInv
  OBVIOUS
<1>1. /\ phase = "collect" /\ pos = 1 /\ loaded = <<>> /\ rels = <<>>
      /\ \A b \in Bins : maps[b] = <<>>
      /\ DOMAIN src = {} /\ DOMAIN syms = {NullKey} /\ syms[NullKey].sym = NullSym
  BY DEF Init
<1>2. \A b \in Bins : Elements(maps[b]) = {}
  BY <1>1 DEF Elements
<1>3. MapsOK
  BY <1>1, <1>2 DEF MapsOK
<1>4. LoadedOK
  BY <1>1, <1>2 DEF LoadedOK, VectorOK
<1>5. SrcOK
  BY <1>1 DEF SrcOK, Read
<1>6. SymsOK
  BY <1>1 DEF SymsOK
<1>7. SymsBound
  BY <1>1, <1>3, NullUndefined DEF SymsBound, MapsOK
<1>8. RelsOK
  BY <1>1 DEF RelsOK, Elements
<1> QED BY <1>3, <1>4, <1>5, <1>6, <1>7, <1>8 DEF BindInv

\* Every step keeps the invariant.
LEMMA BindStep ==
    ASSUME TypeOK, TypeOK', BindInv, [Next]_vars
    PROVE  BindInv'
<1>1. MapsOK'
  BY MapsStep DEF BindInv
<1>2. LoadedOK'
  BY LoadedStep DEF BindInv
<1>3. SrcOK'
  BY SrcStep DEF BindInv
<1>4. SymsOK'
  BY SymsStep DEF BindInv
<1>5. SymsBound'
  BY <1>1, SymsBoundStep DEF BindInv
<1>6. RelsOK'
  BY RelsStep DEF BindInv
<1> QED BY <1>1, <1>2, <1>3, <1>4, <1>5, <1>6 DEF BindInv

LEMMA BindInductive == Spec => []BindInv
<1>1. TypeOK /\ TypeOK' /\ BindInv /\ [Next]_vars => BindInv'
  BY BindStep
<1> QED BY <1>1, BindInit, TypeCorrect, PTL DEF Spec

\* The least definer of a key is the one FirstDefiner chooses.
LEMMA LeastDefiner ==
    ASSUME NEW k, NEW b \in DefinersIn(maps, k), \A c \in DefinersIn(maps, k) : b <= c
    PROVE  Definers(k) # {} /\ b = FirstDefiner(k)
<1>1. Definers(k) = DefinersIn(maps, k)
  BY DEF Definers, DefinersIn
<1> DEFINE d == FirstDefiner(k)
<1>2. d \in Definers(k) /\ \A c \in Definers(k) : d <= c
  BY <1>1 DEF FirstDefiner
<1>3. b \in Int /\ d \in Int
  BY <1>1, <1>2, InputAssumption DEF DefinersIn, Bins
<1> HIDE DEF d
<1>4. b <= d /\ d <= b
  BY <1>1, <1>2
<1>5. b = d
  BY <1>3, <1>4
<1> QED BY <1>1, <1>5 DEF d

\* Whatever the linked binaries contain, a relocation fixed to an address is
\* fixed to the first definition of its key in link order, and one that keeps an
\* index to an undefined symbol has no definition in any linked binary
\* (sold.h:312-316, symtab_builder.cc:73-130).
THEOREM BindsFirstDefinitionHolds == Spec => []BindsFirstDefinition
<1>1. TypeOK /\ BindInv => BindsFirstDefinition
  <2> SUFFICES ASSUME TypeOK, BindInv, NEW r \in Elements(rels)
               PROVE  IF r.kind = "address"
                      THEN Definers(r.key) # {} /\ r.val = FirstDefiner(r.key)
                      ELSE ~syms[r.key].sym.def => Definers(r.key) = {}
    BY DEF BindsFirstDefinition
  <2>1. RelOK(maps, DOMAIN syms, r)
    BY DEF BindInv, RelsOK
  <2>2. CASE r.kind = "address"
    <3>1. r.val \in DefinersIn(maps, r.key) /\ \A c \in DefinersIn(maps, r.key) : r.val <= c
      BY <2>1, <2>2 DEF RelOK, BoundRight
    <3> QED BY <2>2, <3>1, LeastDefiner
  <2>3. CASE r.kind # "address"
    <3>1. BoundRight(maps, r.key, syms[r.key].sym)
      BY <2>1, <2>3 DEF RelOK, BindInv, SymsBound
    <3> QED BY <2>3, <3>1 DEF BoundRight, Definers, DefinersIn
  <2> QED BY <2>2, <2>3
<1> QED BY <1>1, BindInductive, TypeCorrect, PTL

-----------------------------------------------------------------------------
(***************************************************************************)
(* SymbolLink implements SymbolScope.                                      *)
(***************************************************************************)
\* The abstract variables in terms of the linker's, as the instance has them.
ScopeIn(m) == {<<e.key, e.sym.owner>> :
                 e \in {x \in UNION {Elements(m[b]) : b \in Bins} : x.sym.def}}
BoundVal(sy, r) == IF r.kind = "address" THEN r.val
                   ELSE IF sy[r.key].sym.def THEN sy[r.key].sym.owner ELSE 0
BoundIn(sy, rs) == {<<r.key, BoundVal(sy, r)>> : r \in Elements(rs)}

\* The first definer of k, or 0 if it has none.
FirstIn(m, k) == IF DefinersIn(m, k) = {} THEN 0
                 ELSE CHOOSE b \in DefinersIn(m, k) : \A c \in DefinersIn(m, k) : b <= c

\* The abstract definers of a key are the binaries whose maps define it.
LEMMA ScopeDefiners ==
    ASSUME NEW m, \A b \in Bins : \A e \in Elements(m[b]) : EntryOf(b, e), NEW k
    PROVE  {b \in 1..NBins : <<k, b>> \in ScopeIn(m)} = DefinersIn(m, k)
<1>1. ASSUME NEW b \in Bins, <<k, b>> \in ScopeIn(m) PROVE b \in DefinersIn(m, k)
  <2>1. PICK c \in Bins : \E e \in Elements(m[c]) :
            e.sym.def /\ <<k, b>> = <<e.key, e.sym.owner>>
    BY <1>1 DEF ScopeIn
  <2>2. PICK e \in Elements(m[c]) : e.sym.def /\ e.key = k /\ e.sym.owner = b
    BY <2>1
  <2>3. e.sym.owner = c
    BY DEF EntryOf
  <2> QED BY <2>2, <2>3 DEF DefinersIn
<1>2. ASSUME NEW b \in DefinersIn(m, k) PROVE <<k, b>> \in ScopeIn(m)
  <2>1. b \in Bins /\ \E e \in Elements(m[b]) : e.key = k /\ e.sym.def
    BY DEF DefinersIn
  <2>2. PICK e \in Elements(m[b]) : e.key = k /\ e.sym.def
    BY <2>1
  <2>3. e.sym.owner = b /\ e \in UNION {Elements(m[c]) : c \in Bins}
    BY <2>1 DEF EntryOf
  <2> QED BY <2>2, <2>3 DEF ScopeIn
<1> QED BY <1>1, <1>2 DEF DefinersIn, Bins

\* What a rightly bound Symbol stands for is the abstract First of its key.
LEMMA FirstOfBound ==
    ASSUME NEW m, NEW k, NEW s, BoundRight(m, k, s), s.def \in BOOLEAN
    PROVE  (IF s.def THEN s.owner ELSE 0) = FirstIn(m, k)
<1> DEFINE D == DefinersIn(m, k)
           d == CHOOSE b \in D : \A c \in D : b <= c
<1>1. CASE s.def
  <2>1. s.owner \in D /\ \A c \in D : s.owner <= c
    BY <1>1 DEF BoundRight
  <2>2. d \in D /\ \A c \in D : d <= c
    BY <2>1
  <2>3. s.owner \in Int /\ d \in Int
    BY <2>1, <2>2, InputAssumption DEF DefinersIn, Bins
  <2> HIDE DEF D, d
  <2>4. s.owner = d
    BY <2>1, <2>2, <2>3
  <2>5. D # {}
    BY <2>1
  <2> QED BY <1>1, <2>4, <2>5 DEF D, d, FirstIn
<1>2. CASE ~s.def
  BY <1>2 DEF BoundRight, FirstIn
<1> QED BY <1>1, <1>2

\* The maps m with the entry e read into the map of binary c.
WithEntry(m, c, e) == [m EXCEPT ![c] = Append(@, e)]

\* Reading an entry declares its definition, if it is one.
LEMMA LoadDeclares ==
    ASSUME NEW m \in [Bins -> Seq(Syminfo)], NEW c \in Bins, NEW e \in Syminfo,
           e.sym.owner = c
    PROVE  ScopeIn(WithEntry(m, c, e))
             = IF e.sym.def THEN ScopeIn(m) \cup {<<e.key, c>>} ELSE ScopeIn(m)
<1> DEFINE n == [m EXCEPT ![c] = Append(@, e)]
           new == IF e.sym.def THEN ScopeIn(m) \cup {<<e.key, c>>} ELSE ScopeIn(m)
<1>1. /\ Elements(n[c]) = Elements(m[c]) \cup {e}
      /\ \A b \in Bins : b # c => n[b] = m[b]
  BY AddedEntry
<1> HIDE DEF n
<1>2. ASSUME NEW p \in ScopeIn(n) PROVE p \in new
  <2>1. PICK x \in {y \in UNION {Elements(n[b]) : b \in Bins} : y.sym.def} :
            p = <<x.key, x.sym.owner>>
    BY DEF ScopeIn
  <2>2. PICK b \in Bins : x \in Elements(n[b])
    BY <2>1
  <2>3. x = e \/ x \in Elements(m[b])
    BY <1>1, <2>2
  <2>4. CASE x = e
    BY <2>1, <2>4
  <2>5. CASE x \in Elements(m[b])
    <3>1. p \in ScopeIn(m)
      BY <2>1, <2>5 DEF ScopeIn
    <3> QED BY <3>1
  <2> QED BY <2>3, <2>4, <2>5
<1>3. ASSUME NEW p \in ScopeIn(m) PROVE p \in ScopeIn(n)
  <2>1. PICK x \in {y \in UNION {Elements(m[b]) : b \in Bins} : y.sym.def} :
            p = <<x.key, x.sym.owner>>
    BY DEF ScopeIn
  <2>2. PICK b \in Bins : x \in Elements(m[b])
    BY <2>1
  <2>3. x \in Elements(n[b])
    BY <1>1, <2>2
  <2> QED BY <2>1, <2>3 DEF ScopeIn
<1>4. e.sym.def => <<e.key, c>> \in ScopeIn(n)
  <2>1. e \in Elements(n[c])
    BY <1>1
  <2> QED BY <2>1 DEF ScopeIn
<1>5. ScopeIn(n) = new
  BY <1>2, <1>3, <1>4
<1> QED BY <1>5 DEF n, WithEntry

\* A relocation step binds one key, to its abstract First, or aborts.
LEMMA RelocateBinds ==
    ASSUME TypeOK, BindInv, RelocateResolve \/ RelocateCopy
    PROVE  \/ UNCHANGED <<rels, syms>>
           \/ \E k \in Key : BoundIn(syms', rels')
                               = BoundIn(syms, rels) \cup {<<k, FirstIn(maps, k)>>}
<1>1. ASSUME NEW k \in Key, Nameable(k),
             \/ UNCHANGED syms
             \/ IsFresh(k) /\ syms' = Put(syms, k, SymbolOf(k)),
             \/ /\ rels' = NewRel(k, "address", SymbolOf(k).sym.owner)
                /\ SymbolOf(k).sym.def
             \/ /\ rels' = NewRel(k, "index", SymbolOf(k).index)
                /\ k \in DOMAIN syms'
      PROVE  BoundIn(syms', rels') = BoundIn(syms, rels) \cup {<<k, FirstIn(maps, k)>>}
  <2> DEFINE s == SymbolOf(k)
             val == IF s.sym.def THEN s.sym.owner ELSE 0
  <2>1. phase = "relocate"
    BY DEF RelocateResolve, RelocateCopy, Relocating
  <2>2. BoundRight(maps, k, s.sym)
    BY <1>1, <2>1, SymbolOfRight DEF BindInv, Read, Sound, Phases
  <2>3. s.index \in Nat /\ s.sym.owner \in Nat /\ s.sym.def \in BOOLEAN
    BY SymbolOfType, InputAssumption DEF Sym
  <2>4. val = FirstIn(maps, k)
    BY <2>2, <2>3, FirstOfBound
  <2>5. \A j \in DOMAIN syms : j \in DOMAIN syms' /\ syms'[j] = syms[j]
    BY <1>1 DEF Put, IsFresh
  <2>6. k \in DOMAIN syms' => syms'[k] = s
    BY <1>1 DEF Put, IsFresh, SymbolOf
  <2>7. ASSUME NEW r \in Elements(rels) PROVE BoundVal(syms', r) = BoundVal(syms, r)
    <3>1. r.kind # "address" => r.key \in DOMAIN syms
      BY DEF BindInv, RelsOK, RelOK
    <3> QED BY <2>5, <3>1 DEF BoundVal
  <2> HIDE DEF s
  <2>8. PICK x : Elements(rels') = Elements(rels) \cup {x} /\ x.key = k
                 /\ BoundVal(syms', x) = val
    <3>1. CASE rels' = NewRel(k, "address", s.sym.owner) /\ s.sym.def
      <4> DEFINE x == [bin |-> cur, key |-> k, kind |-> "address", val |-> s.sym.owner]
      <4>1. Elements(rels') = Elements(rels) \cup {x}
        BY <2>3, <3>1, RelAppended
      <4>2. BoundVal(syms', x) = val /\ x.key = k
        BY <3>1 DEF BoundVal
      <4> QED BY <4>1, <4>2
    <3>2. CASE rels' = NewRel(k, "index", s.index) /\ k \in DOMAIN syms'
      <4> DEFINE x == [bin |-> cur, key |-> k, kind |-> "index", val |-> s.index]
      <4>1. Elements(rels') = Elements(rels) \cup {x}
        BY <2>3, <3>2, RelAppended
      <4>2. BoundVal(syms', x) = val /\ x.key = k
        BY <2>6, <3>2 DEF BoundVal
      <4> QED BY <4>1, <4>2
    <3> QED BY <1>1, <3>1, <3>2 DEF s
  <2>9. BoundIn(syms', rels') = BoundIn(syms, rels) \cup {<<k, val>>}
    <3>1. {<<r.key, BoundVal(syms', r)>> : r \in Elements(rels)} = BoundIn(syms, rels)
      BY <2>7 DEF BoundIn
    <3> HIDE DEF val
    <3>2. BoundIn(syms', rels')
            = {<<r.key, BoundVal(syms', r)>> : r \in Elements(rels)}
                \cup {<<x.key, BoundVal(syms', x)>>}
      BY <2>8 DEF BoundIn
    <3> QED BY <2>8, <3>1, <3>2
  <2> QED BY <2>4, <2>9
<1> QED BY <1>1, RelocationStep

\* Symbol resolution implements the abstract scope: reading the binaries only
\* declares definitions, in link order and before any reference is bound, and
\* every relocation binds one key to its first definition or to none
\* (CollectSymbols and Relocate, sold.cc).
THEOREM ImplementsScopeHolds == Spec => ImplementsScope
<1>1. Init => Scope!Init
  <2>1. Init => /\ \A b \in Bins : Elements(maps[b]) = {}
                /\ Elements(rels) = {}
    BY DEF Init, Elements
  <2> QED BY <2>1 DEF Scope!Init
<1>2. ASSUME TypeOK, BindInv, [Next]_vars
      PROVE  [Scope!Next]_(Scope!vars)
  <2> DEFINE sc == ScopeIn(maps)
             bd == BoundIn(syms, rels)
  <2>1. Scope!vars = <<sc, bd>> /\ Scope!vars' = <<sc', bd'>>
    BY DEF Scope!vars, ScopeIn, BoundIn, BoundVal, BoundTo
  <2>2. ASSUME NEW k \in Key, NEW b \in Bins, bd = {}, bd' = bd, sc' = sc \cup {<<k, b>>},
               \A d \in sc : d[2] <= b
        PROVE  Scope!Next
    <3>1. Scope!Declare(k, b)
      BY <2>2 DEF Scope!Declare, ScopeIn, BoundIn, BoundVal, BoundTo
    <3> QED BY <3>1 DEF Scope!Next, Bins
  <2>3. ASSUME NEW k \in Key, sc' = sc, bd' = bd \cup {<<k, FirstIn(maps, k)>>}
        PROVE  Scope!Next
    <3>1. Scope!Definers(k) = DefinersIn(maps, k)
      <4>1. {b \in 1..NBins : <<k, b>> \in ScopeIn(maps)} = DefinersIn(maps, k)
        BY <1>2, ScopeDefiners DEF BindInv, MapsOK
      <4>2. Scope!Definers(k) = {b \in 1..NBins : <<k, b>> \in ScopeIn(maps)}
        BY DEF Scope!Definers, ScopeIn
      <4> QED BY <4>1, <4>2
    <3>2. Scope!First(k) = FirstIn(maps, k)
      BY <3>1 DEF Scope!First, FirstIn
    <3>3. Scope!Bind(k)
      BY <2>3, <3>2 DEF Scope!Bind, ScopeIn, BoundIn, BoundVal, BoundTo
    <3> QED BY <3>3 DEF Scope!Next
  <2>4. CASE UNCHANGED <<maps, syms, rels>>
    BY <2>1, <2>4
  <2> HIDE DEF sc, bd
  <2>5. ASSUME NEW r \in DynSyms[cur], LoadSymbol(r) PROVE [Scope!Next]_(Scope!vars)
    <3> DEFINE e == SyminfoOf(r)
    <3>1. /\ cur \in Bins /\ maps \in [Bins -> Seq(Syminfo)] /\ phase = "collect"
          /\ maps' = [maps EXCEPT ![cur] = Append(@, e)] /\ UNCHANGED <<syms, rels>>
      BY <1>2, <2>5 DEF TypeOK, LoadSymbol, tables
    <3>2. EntryOf(cur, e) /\ e \in Syminfo
      BY <3>1, SyminfoIsEntry, SyminfoOfType
    <3>3. e.sym.owner = cur /\ e.key \in Key
      BY <3>2 DEF EntryOf, Syminfo
    <3> HIDE DEF e
    <3>4. sc' = IF e.sym.def THEN sc \cup {<<e.key, cur>>} ELSE sc
      <4>1. ScopeIn(WithEntry(maps, cur, e))
              = IF e.sym.def THEN ScopeIn(maps) \cup {<<e.key, cur>>} ELSE ScopeIn(maps)
        <5>1. cur \in Bins /\ maps \in [Bins -> Seq(Syminfo)] /\ e \in Syminfo
          BY <3>1, <3>2
        <5>2. e.sym.owner = cur
          BY <3>3
        <5> QED BY <5>1, <5>2, LoadDeclares
      <4> QED BY <3>1, <4>1 DEF sc, WithEntry
    <3>5. rels = <<>> /\ bd = {} /\ bd' = bd
      BY <1>2, <3>1 DEF BindInv, RelsOK, bd, BoundIn, Elements
    <3>6. \A d \in sc : d[2] <= cur
      <4> SUFFICES ASSUME NEW d \in sc PROVE d[2] <= cur
        OBVIOUS
      <4>1. PICK b \in Bins : \E x \in Elements(maps[b]) : d = <<x.key, x.sym.owner>>
        BY DEF sc, ScopeIn
      <4>2. d[2] = b
        BY <1>2, <4>1 DEF BindInv, MapsOK, EntryOf
      <4>3. ~(b > cur)
        BY <1>2, <3>1, <4>1 DEF BindInv, MapsOK, Elements
      <4> QED BY <3>1, <4>2, <4>3, InputAssumption DEF Bins
    <3> QED BY <2>1, <2>2, <3>1, <3>3, <3>4, <3>5, <3>6
  <2>6. CASE RelocateResolve \/ RelocateCopy
    <3>1. UNCHANGED maps /\ sc' = sc
      BY <2>6 DEF RelocateResolve, RelocateCopy, inputs, sc
    <3>2. CASE UNCHANGED <<rels, syms>>
      BY <2>4, <3>1, <3>2
    <3>3. CASE \E k \in Key : bd' = bd \cup {<<k, FirstIn(maps, k)>>}
      BY <2>3, <3>1, <3>3
    <3> QED BY <1>2, <2>6, <3>2, <3>3, RelocateBinds DEF bd
  <2>7. CASE NextLoad \/ SetSrcSym \/ EndSetSrc
    BY <2>4, <2>7 DEF NextLoad, SetSrcSym, EndSetSrc, tables, inputs
  <2>8. CASE Passes \/ UNCHANGED vars
    BY <2>4, <2>8 DEF Passes, vars
  <2> QED BY <1>2, <2>5, <2>6, <2>7, <2>8, StepKinds
<1>3. Spec => Scope!Spec
  BY <1>1, <1>2, TypeCorrect, BindInductive, PTL DEF Spec, Scope!Spec
<1> QED BY <1>3 DEF ImplementsScope

-----------------------------------------------------------------------------
(***************************************************************************)
(* The symbol table of the output, for every value of the constants: it    *)
(* has every public definition of the main binary, each of its symbols is  *)
(* what the inputs say of its key, and linking fails only on a version     *)
(* entry no table explains.                                                *)
(***************************************************************************)

-----------------------------------------------------------------------------
(***************************************************************************)
(* The invariants.                                                         *)
(***************************************************************************)
\* What IsPublic says of an entry while the stage is at binary b.
IsPublicIn(b, e) ==
    IF b = 1 THEN e.sym.bind \in {"global", "weak"} /\ e.sym.def ELSE e.sym.tls

\* public_syms_ holds public entries of the binaries, in link order.
PublicOK ==
    /\ phase = "setsrc" => cur = 1
    /\ phase \in {"collect", "setsrc"} => public = <<>>
    /\ \A i \in DOMAIN public :
          LET b == public[i].sym.owner
          IN  /\ b \in Bins /\ public[i] \in Elements(maps[b]) /\ IsPublicIn(b, public[i])
              /\ phase = "public" => b <= cur
    /\ \A i, j \in DOMAIN public : i < j => public[i].sym.owner <= public[j].sym.owner

\* CopyPublicSymbols has copied the entries it has passed, at the end all.
CopiedOK ==
    /\ phase = "public" =>
          \A b \in Bins : \A i \in DOMAIN maps[b] :
              (b < cur \/ (b = cur /\ i < pos)) /\ IsPublicIn(b, maps[b][i])
                  => maps[b][i] \in Elements(public)
    /\ phase \in {"relocate", "build", "merge"} =>
          \A b \in Bins : \A e \in Elements(maps[b]) :
              IsPublicIn(b, e) => e \in Elements(public)

\* A binary whose relocations have been read has one for every reference.
ReferencedOK ==
    phase \in {"relocate", "build", "merge"} =>
        \A b \in Bins : (phase = "relocate" => b < cur) =>
            \A e \in Elements(maps[b]) :
                ~e.sym.def => \E r \in Elements(rels) : r.bin = b /\ r.key = e.key

\* MergePublicSymbols has exposed the keys of the public symbols it has passed;
\* at the end those of the main binary are exposed.
MergedOK ==
    /\ phase = "merge" => \A i \in DOMAIN public : i < pos => public[i].key \in ExposedKeys
    /\ phase = "done" => \A e \in Elements(maps[1]) :
                             IsPublicIn(1, e) => e.key \in ExposedKeys

\* A symbol of the table that the main binary exports is the main binary's.
MainSyms ==
    \A i \in DOMAIN symtab : \A e \in Elements(maps[1]) :
        IsPublicIn(1, e) /\ e.key = exposed[i].key => symtab[i].owner = 1

\* A symbol of the table is the first definition of its key.
TableRight == \A i \in DOMAIN symtab : BoundRight(maps, exposed[i].key, symtab[i])

\* An exposed symbol is the null symbol or an entry of some input.
ExposedFrom ==
    \A i \in DOMAIN exposed :
        \/ exposed[i].key = NullKey /\ exposed[i].versym = VER_NDX_LOCAL
        \/ FromInput(maps, exposed[i].key, exposed[i].versym)

-----------------------------------------------------------------------------
(***************************************************************************)
(* What a step can do to the tables.                                       *)
(***************************************************************************)
\* The symbol maps are read in the first stage and never change after it.
LEMMA AfterCollect ==
    ASSUME TypeOK, [Next]_vars, phase # "collect"
    PROVE  UNCHANGED maps /\ phase' # "collect"
<1>1. CASE SetSrcSym \/ EndSetSrc
  BY <1>1 DEF SetSrcSym, EndSetSrc, inputs
<1>2. CASE RelocateResolve \/ RelocateCopy
  BY <1>2 DEF RelocateResolve, RelocateCopy, Relocating, Resolve, ResolveCopy, inputs
<1>3. CASE Passes
  BY <1>3 DEF Passes
<1>4. CASE UNCHANGED vars
  BY <1>4 DEF vars
<1> QED BY <1>1, <1>2, <1>3, <1>4, StepKinds DEF LoadSymbol, NextLoad

\* No relocation is taken back.
LEMMA RelsGrow ==
    ASSUME TypeOK, [Next]_vars
    PROVE  \A r \in Elements(rels) : r \in Elements(rels')
<1>1. CASE RelocateResolve \/ RelocateCopy
  <2>1. ASSUME NEW k \in Key,
               \/ rels' = NewRel(k, "address", SymbolOf(k).sym.owner)
               \/ rels' = NewRel(k, "index", SymbolOf(k).index)
        PROVE  Elements(rels) \subseteq Elements(rels')
    <3>1. SymbolOf(k).sym.owner \in Nat /\ SymbolOf(k).index \in Nat
      BY SymbolOfType, InputAssumption DEF Sym
    <3> QED BY <2>1, <3>1, RelAppended
  <2> QED BY <1>1, <2>1, RelocationStep
<1>2. CASE UNCHANGED rels
  BY <1>2
<1> QED BY <1>1, <1>2, StepKinds
        DEF LoadSymbol, NextLoad, SetSrcSym, EndSetSrc, Passes, vars

\* No exposed key is taken back.
LEMMA KeysGrow ==
    ASSUME IndInv, [Next]_vars
    PROVE  ExposedKeys \subseteq ExposedKeys'
<1>1. DOMAIN exposed' = 1..Len(exposed') /\ Len(exposed') \in Nat
  <2>1. TypeOK'
    BY TypeStep DEF IndInv
  <2> QED BY <2>1, LenProperties DEF TypeOK
<1>2. \A i \in DOMAIN exposed : i \in DOMAIN exposed' /\ exposed'[i] = exposed[i]
  BY <1>1, ExposedGrows
<1> QED BY <1>2 DEF ExposedKeys, Elements

\* The entry CopyPublicSymbols is at is one of the current binary.
LEMMA CurrentEntry ==
    ASSUME TypeOK, MapsOK, NEW i \in DOMAIN maps[cur]
    PROVE  /\ maps[cur][i] \in Elements(maps[cur]) /\ maps[cur][i] \in Syminfo
           /\ maps[cur][i].sym.owner = cur
           /\ IsPublic(maps[cur][i]) = IsPublicIn(cur, maps[cur][i])
<1>1. cur \in Bins /\ maps[cur][i] \in Elements(maps[cur])
  BY DEF TypeOK, Elements
<1>2. EntryOf(cur, maps[cur][i])
  BY <1>1 DEF MapsOK
<1> QED BY <1>1, <1>2 DEF EntryOf, IsPublic, IsPublicIn

-----------------------------------------------------------------------------
(***************************************************************************)
(* CopyPublicSymbols.                                                      *)
(***************************************************************************)
\* A step after CopyPublicSymbols leaves public_syms_ alone or clears it.
LEMMA PublicKept ==
    ASSUME TypeOK, [Next]_vars, phase \notin {"collect", "setsrc", "public"}
    PROVE  /\ phase' \notin {"collect", "setsrc", "public"}
           /\ UNCHANGED public \/ public' = <<>>
<1>1. CASE RelocateResolve \/ RelocateCopy
  BY <1>1 DEF RelocateResolve, RelocateCopy, Relocating, Resolve, ResolveCopy
<1>2. CASE NextRelocate
  BY <1>2 DEF NextRelocate, tables
<1>3. CASE BuildSymbol \/ EndBuild
  BY <1>3 DEF BuildSymbol, EndBuild, tables
<1>4. CASE MergePublicSymbol \/ EndMerge
  BY <1>4 DEF MergePublicSymbol, EndMerge
<1>5. CASE UNCHANGED vars
  BY <1>5 DEF vars
<1> QED BY <1>1, <1>2, <1>3, <1>4, <1>5
        DEF Next, LoadSymbol, NextLoad, SetSrcSym, EndSetSrc, CopyPublicSymbol, NextPublic

\* Every step keeps public_syms_ in link order.
LEMMA PublicStep ==
    ASSUME TypeOK, MapsOK, PublicOK, [Next]_vars
    PROVE  PublicOK'
<1>1. CASE (\E r \in DynSyms[cur] : LoadSymbol(r)) \/ NextLoad \/ SetSrcSym \/ EndSetSrc
  <2>1. /\ public = <<>> /\ public' = <<>>
        /\ phase' = "setsrc" => cur' = 1
    BY <1>1 DEF LoadSymbol, NextLoad, SetSrcSym, EndSetSrc, tables, inputs, PublicOK
  <2> QED BY <2>1 DEF PublicOK
<1>2. CASE CopyPublicSymbol
  <2> DEFINE e == maps[cur][pos]
  <2>1. phase = "public" /\ UNCHANGED <<phase, cur, maps>> /\ cur \in Bins
    BY <1>2 DEF CopyPublicSymbol, inputs, TypeOK
  <2>2. pos \in DOMAIN maps[cur]
    <3>1. maps[cur] \in Seq(Syminfo)
      BY DEF TypeOK
    <3> QED BY <1>2, <3>1, LenProperties DEF CopyPublicSymbol, TypeOK
  <2>3. e \in Elements(maps[cur]) /\ e \in Syminfo /\ e.sym.owner = cur
        /\ IsPublic(e) = IsPublicIn(cur, e)
    BY <2>2, CurrentEntry
  <2>4. public' = IF IsPublic(e) THEN Append(public, e) ELSE public
    BY <1>2 DEF CopyPublicSymbol
  <2> HIDE DEF e
  <2>5. CASE ~IsPublic(e)
    BY <2>1, <2>4, <2>5 DEF PublicOK
  <2>6. CASE IsPublic(e)
    <3> DEFINE n == Len(public) + 1
    <3>1. /\ DOMAIN public' = DOMAIN public \cup {n}
          /\ \A i \in DOMAIN public : public'[i] = public[i] /\ i < n /\ n \in Int /\ i \in Int
          /\ public'[n] = e
      BY <2>3, <2>4, <2>6, AppendElement DEF TypeOK
    <3> HIDE DEF n
    <3>2. \A i \in DOMAIN public : public[i].sym.owner <= cur
      BY <2>1 DEF PublicOK
    <3>3. cur <= cur
      BY <2>1 DEF Bins
    <3>4. ASSUME NEW i \in DOMAIN public', NEW j \in DOMAIN public', i < j
          PROVE  public'[i].sym.owner <= public'[j].sym.owner
      <4>1. CASE j = n
        BY <2>3, <3>1, <3>2, <3>3, <4>1
      <4>2. CASE j # n
        <5>1. j \in DOMAIN public /\ j < n /\ i # n
          BY <3>1, <3>4, <4>2
        <5> QED BY <3>1, <3>4, <5>1 DEF PublicOK
      <4> QED BY <4>1, <4>2
    <3>5. ASSUME NEW i \in DOMAIN public'
          PROVE  LET b == public'[i].sym.owner
                 IN  /\ b \in Bins /\ public'[i] \in Elements(maps'[b])
                     /\ IsPublicIn(b, public'[i])
                     /\ phase' = "public" => b <= cur'
      <4>1. CASE i = n
        BY <2>1, <2>3, <2>6, <3>1, <3>3, <4>1
      <4>2. CASE i # n
        BY <2>1, <3>1, <4>2 DEF PublicOK
      <4> QED BY <4>1, <4>2
    <3> QED BY <2>1, <3>4, <3>5 DEF PublicOK
  <2> QED BY <2>5, <2>6
<1>3. CASE NextPublic
  <2>1. /\ UNCHANGED <<public, maps>> /\ phase = "public" /\ phase' \in {"public", "relocate"}
        /\ phase' = "public" => cur' = cur + 1
    BY <1>3 DEF NextPublic, tables
  <2>2. \A b \in Bins : b <= cur => b <= cur + 1
    BY DEF TypeOK, Bins
  <2> QED BY <2>1, <2>2 DEF PublicOK
<1>4. CASE phase \notin {"collect", "setsrc", "public"}
  BY <1>4, AfterCollect, PublicKept DEF PublicOK
<1>5. CASE UNCHANGED vars
  BY <1>5 DEF vars, PublicOK
<1> QED BY <1>1, <1>2, <1>3, <1>4, <1>5
        DEF Next, RelocateResolve, RelocateCopy, Relocating, NextRelocate,
            BuildSymbol, EndBuild, MergePublicSymbol, EndMerge

\* Every step keeps the copied entries in public_syms_.
LEMMA CopiedStep ==
    ASSUME TypeOK, MapsOK, PublicOK, CopiedOK, [Next]_vars
    PROVE  CopiedOK'
<1>0. \A b \in Bins : DOMAIN maps[b] = 1..Len(maps[b]) /\ Len(maps[b]) \in Nat
  <2>1. \A b \in Bins : maps[b] \in Seq(Syminfo)
    BY DEF TypeOK
  <2> QED BY <2>1, LenProperties
<1>1. CASE (\E r \in DynSyms[cur] : LoadSymbol(r)) \/ NextLoad \/ SetSrcSym
  <2>1. phase' \in {"collect", "setsrc", "aborted"}
    BY <1>1 DEF LoadSymbol, NextLoad, SetSrcSym
  <2> QED BY <2>1 DEF CopiedOK
<1>2. CASE EndSetSrc
  <2>1. phase' = "public" /\ cur' = 1 /\ pos' = 1 /\ UNCHANGED maps
    BY <1>2 DEF EndSetSrc, inputs, PublicOK
  <2>2. \A b \in Bins : ~(b < 1) /\ \A i \in DOMAIN maps[b] : ~(i < 1)
    BY <1>0, InputAssumption DEF Bins
  <2> QED BY <2>1, <2>2 DEF CopiedOK
<1>3. CASE CopyPublicSymbol
  <2> DEFINE e == maps[cur][pos]
  <2>1. phase = "public" /\ phase' = "public" /\ UNCHANGED <<cur, maps>> /\ cur \in Bins
        /\ pos \in DOMAIN maps[cur] /\ pos' = pos + 1 /\ pos \in Nat
    BY <1>0, <1>3 DEF CopyPublicSymbol, inputs, TypeOK
  <2>2. e \in Syminfo /\ IsPublic(e) = IsPublicIn(cur, e)
    BY <2>1, CurrentEntry
  <2>3. public' = IF IsPublic(e) THEN Append(public, e) ELSE public
    BY <1>3 DEF CopyPublicSymbol
  <2> HIDE DEF e
  <2>4. /\ Elements(public) \subseteq Elements(public')
        /\ IsPublicIn(cur, e) => e \in Elements(public')
    <3>1. CASE IsPublic(e)
      <4>1. /\ DOMAIN public' = DOMAIN public \cup {Len(public) + 1}
            /\ \A i \in DOMAIN public : public'[i] = public[i]
            /\ public'[Len(public) + 1] = e
        BY <2>2, <2>3, <3>1, AppendElement DEF TypeOK
      <4> QED BY <4>1 DEF Elements
    <3>2. CASE ~IsPublic(e)
      BY <2>2, <2>3, <3>2
    <3> QED BY <3>1, <3>2
  <2>5. ASSUME NEW b \in Bins, NEW i \in DOMAIN maps[b],
               b < cur \/ (b = cur /\ i < pos + 1), IsPublicIn(b, maps[b][i])
        PROVE  maps[b][i] \in Elements(public')
    <3>1. CASE b < cur \/ (b = cur /\ i < pos)
      BY <2>1, <2>4, <2>5, <3>1 DEF CopiedOK
    <3>2. CASE b = cur /\ i = pos
      BY <2>4, <2>5, <3>2 DEF e
    <3>3. i \in Nat
      BY <1>0
    <3>4. i < pos + 1 => i < pos \/ i = pos
      BY <2>1, <3>3
    <3> QED BY <2>5, <3>1, <3>2, <3>4
  <2> QED BY <2>1, <2>5 DEF CopiedOK
<1>4. CASE NextPublic
  <2>1. /\ UNCHANGED <<public, maps>> /\ phase = "public" /\ pos' = 1
        /\ \/ phase' = "public" /\ cur' = cur + 1
           \/ phase' = "relocate" /\ ~(cur < NBins)
        /\ pos > Len(maps[cur]) /\ cur \in Bins /\ pos \in Nat
    BY <1>4 DEF NextPublic, tables, TypeOK
  <2>2. ASSUME NEW b \in Bins, b <= cur, NEW i \in DOMAIN maps[b], IsPublicIn(b, maps[b][i])
        PROVE  maps[b][i] \in Elements(public)
    <3>1. b < cur \/ (b = cur /\ i < pos)
      BY <1>0, <2>1, <2>2, InputAssumption DEF Bins
    <3> QED BY <2>1, <2>2, <3>1 DEF CopiedOK
  <2>3. CASE phase' = "public" /\ cur' = cur + 1
    <3>1. \A b \in Bins : \A i \in DOMAIN maps[b] :
              b < cur + 1 \/ (b = cur + 1 /\ i < 1) => b <= cur
      BY <1>0, <2>1 DEF Bins
    <3> QED BY <2>1, <2>2, <2>3, <3>1 DEF CopiedOK
  <2>4. CASE phase' = "relocate" /\ ~(cur < NBins)
    <3>1. \A b \in Bins : b <= cur
      BY <2>1, <2>4, InputAssumption DEF Bins
    <3> QED BY <2>1, <2>2, <2>4, <3>1 DEF CopiedOK, Elements
  <2> QED BY <2>1, <2>3, <2>4
<1>5. CASE phase \notin {"collect", "setsrc", "public"} /\ ~EndMerge
  <2>1. UNCHANGED maps /\ phase' \notin {"collect", "setsrc", "public"}
    BY <1>5, AfterCollect, PublicKept
  <2>2. UNCHANGED public
        /\ (phase' \in {"relocate", "build", "merge"} => phase \in {"relocate", "build", "merge"})
    BY <1>5 DEF Next, vars, LoadSymbol, NextLoad, SetSrcSym, EndSetSrc, CopyPublicSymbol,
                NextPublic, RelocateResolve, RelocateCopy, Relocating, NextRelocate,
                BuildSymbol, EndBuild, MergePublicSymbol, tables, inputs
  <2> QED BY <2>1, <2>2 DEF CopiedOK
<1>6. CASE EndMerge
  BY <1>6 DEF EndMerge, CopiedOK
<1>7. CASE UNCHANGED vars
  BY <1>7 DEF vars, CopiedOK
<1> QED BY <1>1, <1>2, <1>3, <1>4, <1>5, <1>6, <1>7
        DEF Next, RelocateResolve, RelocateCopy, Relocating, NextRelocate,
            BuildSymbol, EndBuild, MergePublicSymbol

-----------------------------------------------------------------------------
(***************************************************************************)
(* Relocate and MergePublicSymbols.                                        *)
(***************************************************************************)
\* Every step keeps the references of the binaries passed relocated.
LEMMA ReferencedStep ==
    ASSUME TypeOK, ReferencedOK, [Next]_vars
    PROVE  ReferencedOK'
<1> DEFINE Refers(b, rs) ==
        \A e \in Elements(maps[b]) :
            ~e.sym.def => \E r \in Elements(rs) : r.bin = b /\ r.key = e.key
<1>1. ASSUME phase \in {"relocate", "build", "merge"}, NEW b \in Bins, Refers(b, rels)
      PROVE  UNCHANGED maps /\ Refers(b, rels')
  BY <1>1, RelsGrow, AfterCollect
<1>2. CASE phase \in {"relocate", "build", "merge"}
           /\ (phase' \in {"relocate", "build", "merge"}
                 => \/ phase' = phase /\ cur' = cur
                    \/ phase' # "relocate" /\ phase # "relocate")
  BY <1>1, <1>2 DEF ReferencedOK
<1>3. CASE NextRelocate
  <2>1. phase = "relocate" /\ Refers(cur, rels) /\ cur \in Bins
        /\ \/ phase' = "relocate" /\ cur' = cur + 1
           \/ phase' = "build" /\ ~(cur < NBins)
    BY <1>3 DEF NextRelocate, AllReferenced, TypeOK
  <2>2. \A b \in Bins : (phase' = "relocate" => b < cur') => b < cur \/ b = cur
    BY <2>1, InputAssumption DEF Bins
  <2>3. \A b \in Bins : (phase' = "relocate" => b < cur') => Refers(b, rels)
    BY <2>1, <2>2 DEF ReferencedOK
  <2> QED BY <1>1, <2>1, <2>3 DEF ReferencedOK
<1>4. CASE NextPublic
  <2>1. phase' \in {"public", "relocate"} /\ (phase' = "relocate" => cur' = 1)
    BY <1>4 DEF NextPublic
  <2>2. \A b \in Bins : ~(b < 1)
    BY InputAssumption DEF Bins
  <2> QED BY <2>1, <2>2 DEF ReferencedOK
<1>5. CASE RelocateResolve \/ RelocateCopy
  <2>1. phase = "relocate" /\ phase' \in {"relocate", "aborted"} /\ cur' = cur
    BY <1>5 DEF RelocateResolve, RelocateCopy, Relocating, Resolve, ResolveCopy, inputs
  <2> QED BY <1>2, <2>1
<1>6. CASE BuildSymbol \/ EndBuild \/ MergePublicSymbol \/ EndMerge
  BY <1>2, <1>6 DEF BuildSymbol, EndBuild, MergePublicSymbol, EndMerge
<1>7. CASE (\E r \in DynSyms[cur] : LoadSymbol(r)) \/ NextLoad \/ SetSrcSym \/ EndSetSrc
           \/ CopyPublicSymbol
  <2>1. phase' \notin {"relocate", "build", "merge"}
    BY <1>7 DEF LoadSymbol, NextLoad, SetSrcSym, EndSetSrc, CopyPublicSymbol
  <2> QED BY <2>1 DEF ReferencedOK
<1>8. CASE UNCHANGED vars
  BY <1>8 DEF vars, ReferencedOK
<1> QED BY <1>3, <1>4, <1>5, <1>6, <1>7, <1>8 DEF Next

\* Every step keeps the keys of the merged symbols exposed.
LEMMA MergedStep ==
    ASSUME IndInv, IndInv', CopiedOK, MergedOK, [Next]_vars
    PROVE  MergedOK'
<1>0. DOMAIN public = 1..Len(public) /\ Len(public) \in Nat /\ pos \in Nat
  BY LenProperties DEF IndInv, TypeOK
<1>1. CASE EndBuild
  <2>1. phase' \in {"merge", "aborted"} /\ pos' = 1 /\ UNCHANGED public
    BY <1>1 DEF EndBuild, tables
  <2> QED BY <1>0, <2>1 DEF MergedOK
<1>2. CASE MergePublicSymbol
  <2>1. phase = "merge" /\ phase' \in {"merge", "aborted"} /\ UNCHANGED public /\ pos \in DOMAIN public
    BY <1>0, <1>2 DEF MergePublicSymbol, IndInv, TypeOK
  <2>2. ExposedKeys \subseteq ExposedKeys'
    BY KeysGrow
  <2>3. phase' = "merge" => pos' = pos + 1 /\ public[pos].key \in ExposedKeys'
    <3>1. CASE public[pos].key \in ExposedKeys
      BY <1>2, <2>2, <3>1 DEF MergePublicSymbol
    <3>2. CASE public[pos].key \notin ExposedKeys /\ exposed' = Append(exposed, public[pos])
      <4>1. public[pos] \in Syminfo
        BY <2>1, SeqElements DEF IndInv, TypeOK
      <4>2. public[pos] \in Elements(exposed')
        BY <3>2, <4>1, AppendElement DEF IndInv, TypeOK, Elements
      <4> QED BY <1>2, <3>2, <4>2 DEF MergePublicSymbol, ExposedKeys
    <3> QED BY <1>2, <2>1, <3>1, <3>2 DEF MergePublicSymbol
  <2>4. \A i \in DOMAIN public : i < pos + 1 => i < pos \/ i = pos
    BY <1>0
  <2> QED BY <2>1, <2>2, <2>3, <2>4 DEF MergedOK
<1>3. CASE EndMerge
  <2>1. phase = "merge" /\ phase' = "done" /\ pos > Len(public)
        /\ UNCHANGED <<maps, exposed>>
    BY <1>3 DEF EndMerge, inputs
  <2>2. \A p \in Elements(public) : p.key \in ExposedKeys
    BY <1>0, <2>1 DEF MergedOK, Elements
  <2>3. 1 \in Bins
    BY InputAssumption DEF Bins
  <2> QED BY <2>1, <2>2, <2>3 DEF MergedOK, CopiedOK, ExposedKeys
<1>4. CASE UNCHANGED vars
  BY <1>4 DEF vars, MergedOK, ExposedKeys
<1>5. CASE ~(EndBuild \/ MergePublicSymbol \/ EndMerge) /\ ~UNCHANGED vars
  <2>1. phase' \notin {"merge", "done"}
    BY <1>5 DEF Next, LoadSymbol, NextLoad, SetSrcSym, EndSetSrc, CopyPublicSymbol,
                NextPublic, RelocateResolve, RelocateCopy, Relocating, Resolve, ResolveCopy,
                NextRelocate, BuildSymbol
  <2> QED BY <2>1 DEF MergedOK
<1> QED BY <1>1, <1>2, <1>3, <1>4, <1>5

-----------------------------------------------------------------------------
(***************************************************************************)
(* symtab_: how its elements come about.                                   *)
(***************************************************************************)
\* The element s that a step of Build or MergePublicSymbols makes for the key k:
\* the Symbol of syms_, or a public symbol whose key is not exposed yet.
Builds(k, s) == k \in DOMAIN syms /\ s.def = syms[k].sym.def /\ s.owner = syms[k].sym.owner

Merges(k, s) ==
    /\ phase = "merge" /\ pos \in DOMAIN public
    /\ public[pos].key = k /\ k \notin ExposedKeys
    /\ s.def = TRUE /\ s.owner = public[pos].sym.owner

\* An element of symtab_ stays, and so does what it is for.
LEMMA OldSyms ==
    ASSUME IndInv, VersionInv, [Next]_vars, NEW i \in DOMAIN symtab
    PROVE  UNCHANGED maps /\ exposed'[i] = exposed[i]
<1>1. /\ DOMAIN symtab = 1..Len(symtab) /\ Len(symtab) \in Nat
      /\ Len(symtab) <= Len(exposed)
      /\ phase = "collect" => Len(symtab) = 0
  BY LenProperties DEF IndInv, TypeOK, VersionInv, Progress
<1>2. phase # "collect" /\ i \in DOMAIN exposed
  BY <1>1, ExposedGrows
<1> QED BY <1>2, AfterCollect, ExposedGrows DEF IndInv

\* symtab_ grows after the symbol maps have been read.
LEMMA SymtabGrows ==
    ASSUME IndInv, [Next]_vars, ~UNCHANGED symtab
    PROVE  UNCHANGED maps
<1>1. phase # "collect"
  BY DEF Next, vars, LoadSymbol, NextLoad, SetSrcSym, EndSetSrc, CopyPublicSymbol,
         NextPublic, RelocateResolve, RelocateCopy, NextRelocate, EndBuild, EndMerge,
         BuildSymbol, MergePublicSymbol
<1> QED BY <1>1, AfterCollect DEF IndInv

\* A step that adds to symtab_ adds one element, for the exposed symbol there.
LEMMA NewSym ==
    ASSUME IndInv, VersionInv, [Next]_vars
    PROVE  \/ UNCHANGED symtab
           \/ \E s : /\ DOMAIN symtab' = DOMAIN symtab \cup {Len(symtab) + 1}
                     /\ \A i \in DOMAIN symtab : symtab'[i] = symtab[i]
                     /\ symtab'[Len(symtab) + 1] = s
                     /\ LET k == exposed'[Len(symtab) + 1].key
                        IN  k \in Key /\ (Builds(k, s) \/ Merges(k, s))
<1> DEFINE T == [def : BOOLEAN, owner : 0..NBins]
           n == Len(symtab) + 1
<1>0. symtab \in Seq(T) /\ Len(symtab) \in Nat /\ pos \in Nat \ {0}
  BY LenProperties DEF IndInv, TypeOK
<1>1. ASSUME NEW s \in T, symtab' = Append(symtab, s), NEW k \in Key,
             exposed'[n].key = k, Builds(k, s) \/ Merges(k, s)
      PROVE  \E t : /\ DOMAIN symtab' = DOMAIN symtab \cup {n}
                    /\ \A i \in DOMAIN symtab : symtab'[i] = symtab[i]
                    /\ symtab'[n] = t
                    /\ LET j == exposed'[n].key IN j \in Key /\ (Builds(j, t) \/ Merges(j, t))
  <2>1. /\ DOMAIN symtab' = DOMAIN symtab \cup {n}
        /\ \A i \in DOMAIN symtab : symtab'[i] = symtab[i]
        /\ symtab'[n] = s
    BY <1>0, <1>1, AppendElement
  <2> QED BY <1>1, <2>1
<1>2. CASE BuildSymbol
  <2> DEFINE x == exposed[pos]
             t == syms[x.key].sym
             s == [def |-> t.def, owner |-> t.owner]
  <2>1. pos = n /\ UNCHANGED exposed /\ pos \in 1..Len(exposed)
    BY <1>0, <1>2 DEF BuildSymbol, VersionInv, Progress, tables
  <2>2. x \in Syminfo
    BY <2>1, ElementOfSeq DEF IndInv, TypeOK
  <2>3. x.key \in Key
    BY <2>2 DEF Syminfo
  <2>4. CASE x.key \in DOMAIN syms /\ symtab' = Append(symtab, s)
    <3>1. t \in Sym
      BY <2>3, <2>4 DEF IndInv, TypeOK, IsMap
    <3>2. s \in T /\ s.def = t.def /\ s.owner = t.owner
      BY <3>1 DEF Sym
    <3>3. Builds(x.key, s)
      BY <2>4, <3>2 DEF Builds
    <3>4. exposed'[n].key = x.key
      BY <2>1
    <3> QED BY <1>1, <2>3, <2>4, <3>2, <3>3, <3>4
  <2>5. CASE UNCHANGED symtab
    BY <2>5
  <2> QED BY <1>2, <2>4, <2>5 DEF BuildSymbol, IsFresh
<1>3. CASE MergePublicSymbol
  <2> DEFINE p == public[pos]
             s == [def |-> TRUE, owner |-> p.sym.owner]
  <2>1. phase = "merge" /\ pos \in DOMAIN public /\ Len(exposed) + 1 = n
    BY <1>0, <1>3, LenProperties DEF MergePublicSymbol, IndInv, TypeOK, VersionInv, Progress
  <2>2. p \in Syminfo
    BY <2>1, SeqElements DEF IndInv, TypeOK
  <2>3. p.key \in Key /\ s \in T
    BY <2>2 DEF Syminfo, Sym
  <2>4. CASE p.key \notin ExposedKeys /\ exposed' = Append(exposed, p) /\ symtab' = Append(symtab, s)
    <3>1. exposed'[n].key = p.key
      BY <2>1, <2>2, <2>4, AppendElement DEF IndInv, TypeOK
    <3>2. Merges(p.key, s)
      BY <2>1, <2>4 DEF Merges
    <3> QED BY <1>1, <2>3, <2>4, <3>1, <3>2
  <2>5. CASE UNCHANGED symtab
    BY <2>5
  <2> QED BY <1>3, <2>4, <2>5 DEF MergePublicSymbol
<1>4. CASE UNCHANGED symtab
  BY <1>4
<1> QED BY <1>2, <1>3, <1>4
        DEF Next, vars, LoadSymbol, NextLoad, SetSrcSym, EndSetSrc, CopyPublicSymbol,
            NextPublic, RelocateResolve, RelocateCopy, NextRelocate, EndBuild, EndMerge

\* A merged symbol comes after the public symbols of the binaries before its own,
\* whose keys are exposed by then.
LEMMA EarlierExposed ==
    ASSUME IndInv, MapsOK, PublicOK, CopiedOK, MergedOK,
           NEW k, NEW s, Merges(k, s),
           NEW b \in Bins, b < s.owner, NEW e \in Elements(maps[b]), IsPublicIn(b, e)
    PROVE  e.key # k
<1>1. PICK j \in DOMAIN public : public[j] = e
  BY DEF Merges, CopiedOK, Elements
<1>2. e.sym.owner = b
  BY DEF MapsOK, EntryOf
<1>3. DOMAIN public = 1..Len(public) /\ Len(public) \in Nat
  BY LenProperties DEF IndInv, TypeOK
<1>4. s.owner \in Bins
  BY DEF Merges, PublicOK
<1>5. ~(s.owner <= b)
  BY <1>4, InputAssumption DEF Bins
<1>6. ~(pos <= j)
  <2>1. ASSUME pos < j PROVE FALSE
    BY <1>1, <1>2, <1>5, <2>1 DEF Merges, PublicOK
  <2>2. ASSUME pos = j PROVE FALSE
    <3>1. b <= b
      BY DEF Bins
    <3> QED BY <1>1, <1>2, <1>5, <2>2, <3>1 DEF Merges
  <2> QED BY <1>3, <2>1, <2>2 DEF Merges
<1>7. j < pos
  BY <1>3, <1>6 DEF Merges
<1> QED BY <1>1, <1>7 DEF Merges, MergedOK

\* Every step keeps the symbols the main binary exports the main binary's.
LEMMA MainSymsStep ==
    ASSUME IndInv, VersionInv, BindInv, PublicOK, CopiedOK, MergedOK, MainSyms, [Next]_vars
    PROVE  MainSyms'
<1>1. ASSUME NEW i \in DOMAIN symtab, symtab'[i] = symtab[i],
             NEW e \in Elements(maps'[1]), IsPublicIn(1, e), e.key = exposed'[i].key
      PROVE  symtab'[i].owner = 1
  BY <1>1, OldSyms DEF MainSyms
<1>2. ASSUME NEW k \in Key, NEW s, Builds(k, s) \/ Merges(k, s), UNCHANGED maps,
             NEW e \in Elements(maps[1]), IsPublicIn(1, e), e.key = k
      PROVE  s.owner = 1
  <2>1. e.sym.def /\ 1 \in Bins
    BY <1>2, InputAssumption DEF IsPublicIn, Bins
  <2>2. CASE Builds(k, s)
    <3>1. BoundRight(maps, k, syms[k].sym)
      BY <2>2 DEF Builds, BindInv, SymsBound
    <3>2. 1 \in DefinersIn(maps, k)
      BY <1>2, <2>1 DEF DefinersIn
    <3>3. s.owner \in Bins /\ s.owner <= 1
      BY <2>2, <3>1, <3>2 DEF Builds, BoundRight, DefinersIn
    <3> QED BY <3>3, InputAssumption DEF Bins
  <2>3. CASE Merges(k, s)
    <3>1. s.owner \in Bins
      BY <2>3 DEF Merges, PublicOK
    <3>2. ~(1 < s.owner)
      BY <1>2, <2>1, <2>3, EarlierExposed DEF BindInv
    <3> QED BY <3>1, <3>2, InputAssumption DEF Bins
  <2> QED BY <1>2, <2>2, <2>3
<1>3. CASE UNCHANGED symtab
  BY <1>1, <1>3 DEF MainSyms
<1>4. CASE ~UNCHANGED symtab
  <2>1. PICK s : /\ DOMAIN symtab' = DOMAIN symtab \cup {Len(symtab) + 1}
                 /\ \A i \in DOMAIN symtab : symtab'[i] = symtab[i]
                 /\ symtab'[Len(symtab) + 1] = s
                 /\ exposed'[Len(symtab) + 1].key \in Key
                 /\ \/ Builds(exposed'[Len(symtab) + 1].key, s)
                    \/ Merges(exposed'[Len(symtab) + 1].key, s)
    BY <1>4, NewSym
  <2>2. UNCHANGED maps
    BY <1>4, SymtabGrows
  <2> QED BY <1>1, <1>2, <2>1, <2>2 DEF MainSyms
<1> QED BY <1>3, <1>4

\* The invariants hold of the empty tables.
LEMMA TableInit ==
    Init => PublicOK /\ CopiedOK /\ ReferencedOK /\ MergedOK /\ MainSyms
BY DEF Init, PublicOK, CopiedOK, ReferencedOK, MergedOK, MainSyms

TableInv == PublicOK /\ CopiedOK /\ ReferencedOK /\ MergedOK /\ MainSyms

\* It holds in every reachable state.
LEMMA TableInductive == Spec => []TableInv
<1>1. IndInv /\ IndInv' /\ VersionInv /\ BindInv /\ TableInv /\ [Next]_vars => TableInv'
  BY PublicStep, CopiedStep, ReferencedStep, MergedStep, MainSymsStep
     DEF TableInv, IndInv, BindInv
<1> QED BY <1>1, TableInit, Inductive, VersionInductive, BindInductive, PTL DEF Spec, TableInv

\* Whatever the inputs, every global or weak definition of the main binary is in
\* the output table and its symbol there is the main binary's own
\* (symtab_builder.cc:204-250, sold.cc CopyPublicSymbols).
THEOREM MainExportedHolds == Spec => []MainExported
<1>1. IndInv /\ VersionInv /\ TableInv => MainExported
  <2> SUFFICES ASSUME IndInv, VersionInv, TableInv, phase = "done",
                      NEW e \in Elements(maps[1]), e.sym.def, e.sym.bind # "local"
               PROVE  \E i \in DOMAIN symtab : exposed[i].key = e.key /\ symtab[i].owner = 1
    BY DEF MainExported
  <2>1. IsPublicIn(1, e)
    <3>1. maps[1] \in Seq(Syminfo)
      BY InputAssumption DEF IndInv, TypeOK, Bins
    <3>2. e \in Syminfo
      BY <3>1, SeqElements
    <3> QED BY <3>2 DEF Syminfo, Sym, Binds, IsPublicIn
  <2>2. PICK i \in DOMAIN exposed : exposed[i].key = e.key
    BY <2>1 DEF TableInv, MergedOK, ExposedKeys, Elements
  <2>3. i \in DOMAIN symtab
    BY LenProperties DEF IndInv, TypeOK, VersionInv, Progress
  <2> QED BY <2>1, <2>2, <2>3 DEF TableInv, MainSyms
<1> QED BY <1>1, Inductive, VersionInductive, TableInductive, PTL

-----------------------------------------------------------------------------
(***************************************************************************)
(* The table and the inputs.                                               *)
(***************************************************************************)
\* A merged symbol is a definition: an undefined TLS symbol has a relocation,
\* which exposed it.
LEMMA MergedDefines ==
    ASSUME IndInv, BindInv, PublicOK, ReferencedOK, NEW k, NEW s, Merges(k, s)
    PROVE  public[pos].sym.def
<1> DEFINE p == public[pos]
           b == p.sym.owner
<1>1. p.key = k /\ b \in Bins /\ p \in Elements(maps[b]) /\ IsPublicIn(b, p) /\ phase = "merge"
  BY DEF Merges, PublicOK
<1> HIDE DEF p
<1>2. ASSUME ~p.sym.def PROVE FALSE
  <2>1. p.sym.tls
    BY <1>1, <1>2 DEF IsPublicIn
  <2>2. PICK r \in Elements(rels) : r.bin = b /\ r.key = k
    BY <1>1, <1>2 DEF ReferencedOK
  <2>3. r \in Rel
    BY SeqElements DEF IndInv, TypeOK
  <2>4. RelOK(maps, DOMAIN syms, r)
    BY DEF BindInv, RelsOK
  <2>5. CASE r.kind = "address"
    <3>1. \E e \in Elements(maps[b]) : e.key = p.key /\ ~e.sym.tls
      BY <1>1, <2>2, <2>4, <2>5 DEF RelOK
    <3>2. \A e \in Elements(maps[b]) : e.key = p.key => e = p
      BY <1>1 DEF BindInv, MapsOK, Sound
    <3> QED BY <2>1, <3>1, <3>2
  <2>6. CASE r.kind = "index"
    <3>1. r.val \in Nat /\ r.val < Len(exposed) /\ exposed[r.val + 1].key = k
      BY <2>2, <2>3, <2>6 DEF IndInv, IndexDenotesKey, Rel
    <3>2. r.val + 1 \in DOMAIN exposed
      BY <3>1, LenProperties DEF IndInv, TypeOK
    <3> QED BY <3>1, <3>2 DEF Merges, ExposedKeys, Elements
  <2> QED BY <2>3, <2>5, <2>6 DEF Rel
<1> QED BY <1>2 DEF p

\* A merged symbol is the first definition of its key, if names tell TLS symbols
\* from others.
LEMMA MergedRight ==
    ASSUME TlsByName, IndInv, BindInv, PublicOK, CopiedOK, ReferencedOK, MergedOK,
           NEW k, NEW s, Merges(k, s)
    PROVE  BoundRight(maps, k, s)
<1> DEFINE p == public[pos]
           b == s.owner
<1>1. /\ p.key = k /\ b \in Bins /\ p \in Elements(maps[b]) /\ IsPublicIn(b, p)
      /\ p.sym.def /\ s.def = TRUE
  BY MergedDefines DEF Merges, PublicOK
<1> HIDE DEF p
<1>2. b \in DefinersIn(maps, k)
  BY <1>1 DEF DefinersIn
<1>3. ASSUME NEW c \in DefinersIn(maps, k), c < b PROVE FALSE
  <2>1. PICK e \in Elements(maps[c]) : e.key = k /\ e.sym.def
    BY DEF DefinersIn
  <2>2. c \in Bins /\ b # 1
    BY <1>1, <1>3, InputAssumption DEF DefinersIn, Bins
  <2>3. EntryOf(b, p) /\ EntryOf(c, e)
    BY <1>1, <2>2 DEF BindInv, MapsOK
  <2>4. p.sym.tls
    BY <1>1, <2>2 DEF IsPublicIn
  <2>5. PICK r \in DynSyms[b] : r.name = k.name /\ r.def = p.sym.def /\ r.tls = p.sym.tls
    BY <1>1, <2>3 DEF EntryOf
  <2>6. PICK t \in DynSyms[c] : /\ t.name = k.name /\ t.def = e.sym.def
                                /\ t.tls = e.sym.tls /\ t.bind = e.sym.bind
    BY <2>1, <2>3 DEF EntryOf
  <2>7. t.tls /\ (c = 1 => t.bind # "local")
    BY <1>1, <2>1, <2>2, <2>4, <2>5, <2>6, ZenonT(40) DEF TlsByName
  <2>8. e.sym.bind \in Binds
    BY <2>3 DEF EntryOf, Syminfo, Sym
  <2>9. IsPublicIn(c, e)
    BY <2>1, <2>6, <2>7, <2>8 DEF IsPublicIn, Binds
  <2> QED BY <1>3, <2>1, <2>2, <2>9, EarlierExposed DEF BindInv
<1>4. \A c \in DefinersIn(maps, k) : b <= c
  <2>1. \A c \in DefinersIn(maps, k) : c < b \/ b <= c
    BY <1>1, InputAssumption DEF DefinersIn, Bins
  <2> QED BY <1>3, <2>1
<1> QED BY <1>1, <1>2, <1>4 DEF BoundRight

\* Every step keeps the symbols of the table first definitions.
LEMMA TableRightStep ==
    ASSUME TlsByName, IndInv, VersionInv, BindInv, TableInv, TableRight, [Next]_vars
    PROVE  TableRight'
<1>1. ASSUME NEW i \in DOMAIN symtab, symtab'[i] = symtab[i]
      PROVE  BoundRight(maps', exposed'[i].key, symtab'[i])
  BY <1>1, OldSyms DEF TableRight
<1>2. ASSUME NEW k \in Key, NEW s, Builds(k, s) \/ Merges(k, s)
      PROVE  BoundRight(maps, k, s)
  <2>1. CASE Builds(k, s)
    <3>1. BoundRight(maps, k, syms[k].sym)
      BY <2>1 DEF Builds, BindInv, SymsBound
    <3> QED BY <2>1, <3>1 DEF Builds, BoundRight
  <2>2. CASE Merges(k, s)
    BY <2>2, MergedRight DEF TableInv
  <2> QED BY <1>2, <2>1, <2>2
<1>3. CASE UNCHANGED symtab
  BY <1>1, <1>3 DEF TableRight
<1>4. CASE ~UNCHANGED symtab
  <2>1. PICK s : /\ DOMAIN symtab' = DOMAIN symtab \cup {Len(symtab) + 1}
                 /\ \A i \in DOMAIN symtab : symtab'[i] = symtab[i]
                 /\ symtab'[Len(symtab) + 1] = s
                 /\ exposed'[Len(symtab) + 1].key \in Key
                 /\ \/ Builds(exposed'[Len(symtab) + 1].key, s)
                    \/ Merges(exposed'[Len(symtab) + 1].key, s)
    BY <1>4, NewSym
  <2>2. UNCHANGED maps
    BY <1>4, SymtabGrows
  <2> QED BY <1>1, <1>2, <2>1, <2>2 DEF TableRight
<1> QED BY <1>3, <1>4

\* At the end, a symbol of the table is defined exactly when some linked binary
\* defines its key, and then it is the first such definition, for all inputs in
\* which a name stands for TLS symbols or for others, never for both: where a
\* later binary has a TLS definition of a name that an earlier one defines as
\* another kind of symbol, CopyPublicSymbols passes over the earlier one
\* (symtab_builder.cc:132-250, sold.cc CopyPublicSymbols).
THEOREM TableReflectsInputsHolds ==
    ASSUME TlsByName
    PROVE  Spec => []TableReflectsInputs
<1>1. IndInv /\ VersionInv /\ BindInv /\ TableInv /\ TableRight /\ [Next]_vars => TableRight'
  BY TableRightStep
<1>2. Init => TableRight
  BY DEF Init, TableRight
<1>3. IndInv /\ TableRight => TableReflectsInputs
  <2> SUFFICES ASSUME IndInv, TableRight, NEW i \in 2..Len(symtab)
               PROVE  LET k == exposed[i].key
                      IN  /\ symtab[i].def <=> Definers(k) # {}
                          /\ symtab[i].def => symtab[i].owner = FirstDefiner(k)
    BY DEF TableReflectsInputs
  <2> DEFINE k == exposed[i].key
             s == symtab[i]
  <2>1. i \in DOMAIN symtab /\ s.def \in BOOLEAN
    <3>1. DOMAIN symtab = 1..Len(symtab) /\ Len(symtab) \in Nat
      BY LenProperties DEF IndInv, TypeOK
    <3>2. i \in DOMAIN symtab
      BY <3>1
    <3>3. symtab[i] \in [def : BOOLEAN, owner : 0..NBins]
      BY <3>2, SeqElements DEF IndInv, TypeOK
    <3> QED BY <3>2, <3>3
  <2>2. BoundRight(maps, k, s)
    BY <2>1 DEF TableRight
  <2> HIDE DEF k, s
  <2>3. CASE s.def
    <3>1. s.owner \in DefinersIn(maps, k) /\ \A c \in DefinersIn(maps, k) : s.owner <= c
      BY <2>2, <2>3 DEF BoundRight
    <3>2. Definers(k) # {} /\ s.owner = FirstDefiner(k)
      BY <3>1, LeastDefiner
    <3> QED BY <2>3, <3>2 DEF k, s
  <2>4. CASE ~s.def
    <3>1. Definers(k) = {}
      BY <2>2, <2>4 DEF BoundRight, Definers, DefinersIn
    <3> QED BY <2>4, <3>1 DEF k, s
  <2> QED BY <2>1, <2>3, <2>4
<1> QED BY <1>1, <1>2, <1>3, Inductive, VersionInductive, BindInductive, TableInductive, PTL
        DEF Spec

-----------------------------------------------------------------------------
(***************************************************************************)
(* The CHECKs: which of them can fail.                                     *)
(***************************************************************************)
\* The soname s is one the resolver registered.
IsRegistered(s) == s \in DOMAIN SonameToFilename

\* Some entry of the maps m carries a version entry that leads to no registered
\* library.
Unregistered(m) ==
    \E b \in Bins : \E e \in Elements(m[b]) :
        ~IsSpecial(e.versym) /\ e.versym # NO_VERSION_INFO /\ ~IsRegistered(e.key.soname)

\* The version entries that the tables of binary b have.
Indices(b) == {n.ndx : n \in Verneed[b]} \cup {d.ndx : d \in Verdef[b]}

\* GetVersion names a version only for an entry the tables have, and then a
\* soname with it; an entry that leads nowhere has neither.
LEMMA VersionNamed ==
    ASSUME NEW b \in Bins, NEW v
    PROVE  /\ VersionIn(b, v).version # NoString =>
                 /\ VersionIn(b, v).soname # NoString
                 /\ v \in Indices(b) /\ ~IsSpecial(v) /\ v # NO_VERSION_INFO
           /\ VersionIn(b, v).soname # NoString => VersionIn(b, v).version # NoString
           /\ IsSpecial(v) \/ v = NO_VERSION_INFO \/ UnknownFile(v, Verneed[b]) =>
                 VersionIn(b, v).soname = NoString /\ VersionIn(b, v).version = NoString
<1> DEFINE special == v = NO_VERSION_INFO \/ IsSpecial(v)
           needs == IsNeeded(v, Verneed[b])
           known == ~UnknownFile(v, Verneed[b])
           defs  == {d \in Verdef[b] : d.ndx = v}
           x == Needed(v, Verneed[b])
           y == CHOOSE d \in defs : TRUE
<1>1. VersionIn(b, v) =
          IF special \/ ~known THEN Unversioned
          ELSE IF needs THEN [soname |-> FilenameToSoname[x.file], version |-> x.version]
          ELSE IF defs # {} THEN [soname |-> y.soname, version |-> y.version]
          ELSE Unversioned
  BY DEF VersionIn, GetVersion
<1>2. needs => x \in Verneed[b] /\ x.ndx = v /\ x.version \in Versions
  BY InputAssumption DEF IsNeeded, Needed
<1>2a. needs /\ known => FilenameToSoname[x.file] \in Sonames
  BY NamesAssumption DEF UnknownFile, IsMap
<1>3. defs # {} => /\ y.soname \in Sonames /\ y.version \in Versions
                   /\ y \in Verdef[b] /\ y.ndx = v
  BY InputAssumption
<1>3a. NoString \notin Sonames /\ NoString \notin Versions
  BY NamesAssumption
<1> HIDE DEF special, needs, known, defs, x, y
<1>4. Unversioned.soname = NoString /\ Unversioned.version = NoString
  BY DEF Unversioned
<1>5. CASE special \/ ~known
  BY <1>1, <1>4, <1>5 DEF special, known
<1>6. CASE ~special /\ known /\ needs
  <2>1. VersionIn(b, v).soname \in Sonames /\ VersionIn(b, v).version \in Versions
    BY <1>1, <1>2, <1>2a, <1>6
  <2>2. v \in Indices(b)
    BY <1>2, <1>6 DEF Indices
  <2> QED BY <1>3a, <1>6, <2>1, <2>2 DEF special, known
<1>7. CASE ~special /\ known /\ ~needs /\ defs # {}
  <2>1. VersionIn(b, v).soname \in Sonames /\ VersionIn(b, v).version \in Versions
    BY <1>1, <1>3, <1>7
  <2>2. v \in Indices(b)
    BY <1>3, <1>7 DEF Indices
  <2> QED BY <1>3a, <1>7, <2>1, <2>2 DEF special, known
<1>8. CASE ~special /\ known /\ ~needs /\ defs = {}
  BY <1>1, <1>4, <1>8
<1> QED BY <1>5, <1>6, <1>7, <1>8

\* What GetVersion yields is determined by its two fields.
LEMMA VersionRecord ==
    ASSUME NEW b \in Bins, NEW v
    PROVE  LET g == VersionIn(b, v) IN g = [soname |-> g.soname, version |-> g.version]
BY DEF VersionIn, GetVersion, Unversioned

\* An entry whose library is registered passes the CHECKs of VersionBuilder::Add.
LEMMA InputAddable ==
    ASSUME NEW b \in Bins, NEW e, EntryOf(b, e), NEW bind \in Binds,
           IsSpecial(e.versym) \/ e.versym = NO_VERSION_INFO \/ IsRegistered(e.key.soname)
    PROVE  CanAddVersion(e.key, e.versym, bind)
<1> DEFINE v == e.versym
<1>1. e.key.soname = VersionIn(b, v).soname /\ e.key.version = VersionIn(b, v).version
  BY DEF EntryOf
<1>2. CASE IsSpecial(v) \/ v = NO_VERSION_INFO
  <2>1. IsSpecial(Inferred(v, bind))
    BY <1>2 DEF Inferred, IsSpecial
  <2>2. e.key.soname = NoString /\ e.key.version = NoString
    BY <1>1, <1>2, VersionNamed
  <2> QED BY <2>1, <2>2 DEF CanAddVersion, Addable
<1>3. CASE ~(IsSpecial(v) \/ v = NO_VERSION_INFO)
  <2>1. ~IsSpecial(Inferred(v, bind))
    BY <1>3 DEF Inferred
  <2>2. e.key.soname \in DOMAIN SonameToFilename /\ e.key.soname # NoString
    BY <1>3, NamesAssumption DEF IsMap, IsRegistered
  <2>3. e.key.version # NoString
    BY <1>1, <2>2, VersionNamed
  <2> QED BY <2>1, <2>2, <2>3 DEF CanAddVersion, Addable
<1> QED BY <1>2, <1>3

\* Every step keeps the exposed symbols those of some input.
LEMMA ExposedFromStep ==
    ASSUME IndInv, BindInv, PublicOK, ExposedFrom, [Next]_vars
    PROVE  ExposedFrom'
<1>0. DOMAIN exposed = 1..Len(exposed) /\ exposed \in Seq(Syminfo)
  BY LenProperties DEF IndInv, TypeOK
<1>1. ASSUME NEW x \in Syminfo, exposed' = Append(exposed, x), UNCHANGED maps,
             FromInput(maps, x.key, x.versym)
      PROVE  ExposedFrom'
  <2>1. /\ DOMAIN exposed' = DOMAIN exposed \cup {Len(exposed) + 1}
        /\ \A i \in DOMAIN exposed : exposed'[i] = exposed[i]
        /\ exposed'[Len(exposed) + 1] = x
    BY <1>0, <1>1, AppendElement
  <2> QED BY <1>1, <2>1 DEF ExposedFrom
<1>2. CASE UNCHANGED <<maps, exposed>>
  BY <1>2 DEF ExposedFrom
<1>3. ASSUME NEW r \in DynSyms[cur], LoadSymbol(r) PROVE ExposedFrom'
  <2>1. cur \in Bins /\ maps \in [Bins -> Seq(Syminfo)] /\ UNCHANGED exposed
        /\ maps' = [maps EXCEPT ![cur] = Append(@, SyminfoOf(r))]
    BY <1>3 DEF LoadSymbol, tables, IndInv, TypeOK
  <2>2. \A k, v : FromInput(maps, k, v) => FromInput(maps', k, v)
    BY <2>1, SyminfoOfType, AddedFromInput
  <2> QED BY <2>1, <2>2 DEF ExposedFrom
<1>4. CASE RelocateResolve \/ RelocateCopy
  <2>1. phase = "relocate" /\ UNCHANGED maps
    BY <1>4 DEF RelocateResolve, RelocateCopy, Relocating, inputs
  <2>2. PICK k \in Key : Nameable(k) /\ (Resolve(k) \/ ResolveCopy(k))
    BY <1>4, RelocationNames DEF IndInv
  <2>3. CASE IsFresh(k) /\ Expose(k)
    <3> DEFINE x == [key |-> k, versym |-> Source(k).versym, sym |-> NullSym]
    <3>1. k \in DOMAIN src
      BY <2>1, <2>2, <2>3, SymbolOfRight DEF IndInv, BindInv, Read, Sound, Phases
    <3>2. x.key = k /\ x.versym = src[k].versym /\ x \in Syminfo
      BY <3>1, SourceType, Constants DEF Source, Src, Syminfo, IndInv
    <3>3. FromInput(maps, k, src[k].versym)
      BY <2>1, <3>1, SourceRight DEF BindInv, Read, Sound, Phases
    <3>4. exposed' = Append(exposed, x)
      BY <2>3 DEF Expose
    <3> HIDE DEF x
    <3> QED BY <1>1, <2>1, <3>2, <3>3, <3>4
  <2>4. CASE UNCHANGED exposed
    BY <1>2, <2>1, <2>4
  <2> QED BY <2>2, <2>3, <2>4 DEF Resolve, ResolveCopy
<1>5. CASE MergePublicSymbol
  <2> DEFINE p == public[pos]
  <2>1. pos \in DOMAIN public /\ UNCHANGED maps
    BY <1>5, LenProperties DEF MergePublicSymbol, inputs, IndInv, TypeOK
  <2>2. p \in Syminfo
    BY <2>1, SeqElements DEF IndInv, TypeOK
  <2>3. FromInput(maps, p.key, p.versym)
    BY <2>1 DEF PublicOK, FromInput
  <2>4. UNCHANGED exposed \/ exposed' = Append(exposed, p)
    BY <1>5 DEF MergePublicSymbol
  <2> QED BY <1>1, <1>2, <2>1, <2>2, <2>3, <2>4
<1> QED BY <1>2, <1>3, <1>4, <1>5
        DEF Next, vars, NextLoad, SetSrcSym, EndSetSrc, CopyPublicSymbol, NextPublic,
            NextRelocate, BuildSymbol, EndBuild, EndMerge, tables, inputs

\* An entry that duplicate_check finds twice leads to no library.
LEMMA DuplicateUnregistered ==
    ASSUME OneIndexPerVersion, TypeOK, MapsOK, NEW r \in DynSyms[cur], LoadSymbol(r),
           NEW d \in Elements(maps[cur]), d.key = SyminfoOf(r).key
    PROVE  Unregistered(maps')
<1> DEFINE e == SyminfoOf(r)
<1>1. cur \in Bins /\ maps \in [Bins -> Seq(Syminfo)] /\ e \in Syminfo
  BY SyminfoOfType DEF TypeOK
<1>2. EntryOf(cur, e) /\ EntryOf(cur, d) /\ e.versym = r.versym
  BY <1>1, SyminfoIsEntry DEF MapsOK
<1>3. e.key.name = r.name
  BY DEF SyminfoOf
<1>4. /\ (d.versym = NO_VERSION_INFO) = (r.versym = NO_VERSION_INFO)
      /\ d.versym # r.versym
      /\ ~(IsSpecial(d.versym) /\ IsSpecial(r.versym))
  BY <1>3 DEF LoadSymbol, MayFollow
<1>5. maps' = [maps EXCEPT ![cur] = Append(@, e)]
  BY DEF LoadSymbol
<1> HIDE DEF e
<1>6. d \in Elements(maps'[cur]) /\ e \in Elements(maps'[cur])
  <2>1. Elements([maps EXCEPT ![cur] = Append(@, e)][cur]) = Elements(maps[cur]) \cup {e}
    BY <1>1, AddedEntry
  <2> QED BY <1>5, <2>1
<1>6a. e.key = d.key
  BY DEF e
<1>7. CASE d.key.version = NoString
  <2>1. \/ ~IsSpecial(d.versym) /\ d.versym # NO_VERSION_INFO
        \/ ~IsSpecial(e.versym) /\ e.versym # NO_VERSION_INFO
    BY <1>2, <1>4
  <2>2. e.key.soname = NoString /\ d.key.soname = NoString
    BY <1>1, <1>2, <1>6a, <1>7, VersionNamed DEF EntryOf
  <2>3. ~IsRegistered(e.key.soname) /\ ~IsRegistered(d.key.soname)
    BY <2>2, NamesAssumption DEF IsMap, IsRegistered
  <2> QED BY <1>1, <1>6, <2>1, <2>3 DEF Unregistered
<1>8. CASE d.key.version # NoString
  <2>1. /\ VersionIn(cur, d.versym).version # NoString
        /\ VersionIn(cur, e.versym).version # NoString
        /\ VersionIn(cur, d.versym).version = VersionIn(cur, e.versym).version
        /\ VersionIn(cur, d.versym).soname = VersionIn(cur, e.versym).soname
    BY <1>2, <1>6a, <1>8 DEF EntryOf
  <2>2. d.versym \in Indices(cur) /\ e.versym \in Indices(cur)
    BY <1>1, <2>1, VersionNamed
  <2>3. VersionIn(cur, d.versym) = VersionIn(cur, e.versym)
    BY <1>1, <2>1, VersionRecord
  <2>4. d.versym = e.versym
    BY <1>1, <2>1, <2>2, <2>3 DEF OneIndexPerVersion, Indices, VersionIn
  <2> QED BY <1>2, <1>4, <2>4
<1> QED BY <1>7, <1>8

\* So is an entry whose file GetVersion does not know.
LEMMA UnknownUnregistered ==
    ASSUME TypeOK, NEW r \in DynSyms[cur], LoadSymbol(r), UnknownFile(r.versym, Verneed[cur])
    PROVE  Unregistered(maps')
<1> DEFINE e == SyminfoOf(r)
<1>1. cur \in Bins /\ maps \in [Bins -> Seq(Syminfo)] /\ e \in Syminfo
  BY SyminfoOfType DEF TypeOK
<1>2. e.versym = r.versym /\ e.key.soname = VersionIn(cur, r.versym).soname
  BY DEF SyminfoOf, VersionIn
<1>3. e.key.soname = NoString
  BY <1>1, <1>2, VersionNamed
<1>4. ~IsRegistered(e.key.soname)
  BY <1>3, NamesAssumption DEF IsMap, IsRegistered
<1>5. ~IsSpecial(e.versym) /\ e.versym # NO_VERSION_INFO
  BY <1>2 DEF UnknownFile, IsNeeded
<1>6. maps' = [maps EXCEPT ![cur] = Append(@, e)]
  BY DEF LoadSymbol
<1> HIDE DEF e
<1>7. e \in Elements(maps'[cur])
  <2>1. Elements([maps EXCEPT ![cur] = Append(@, e)][cur]) = Elements(maps[cur]) \cup {e}
    BY <1>1, AddedEntry
  <2> QED BY <1>6, <2>1
<1> QED BY <1>1, <1>4, <1>5, <1>7 DEF Unregistered

\* Build and MergePublicSymbols fail only on an unregistered version.
LEMMA AddFails ==
    ASSUME MapsOK, ~Unregistered(maps), NEW k, NEW v, NEW bind \in Binds,
           \/ k = NullKey /\ v = VER_NDX_LOCAL
           \/ FromInput(maps, k, v)
    PROVE  CanAddVersion(k, v, bind)
<1>1. CASE k = NullKey /\ v = VER_NDX_LOCAL
  <2>1. IsSpecial(Inferred(v, bind)) /\ k.soname = NoString /\ k.version = NoString
    BY <1>1 DEF IsSpecial, Inferred, NullKey, VER_NDX_LOCAL, VER_NDX_GLOBAL, NO_VERSION_INFO
  <2> QED BY <2>1 DEF CanAddVersion, Addable
<1>2. CASE FromInput(maps, k, v)
  <2>1. PICK b \in Bins : \E e \in Elements(maps[b]) : e.key = k /\ e.versym = v
    BY <1>2 DEF FromInput
  <2>2. PICK e \in Elements(maps[b]) : e.key = k /\ e.versym = v
    BY <2>1
  <2>3. EntryOf(b, e)
    BY DEF MapsOK
  <2>4. IsSpecial(v) \/ v = NO_VERSION_INFO \/ IsRegistered(k.soname)
    BY <2>2 DEF Unregistered
  <2> QED BY <2>2, <2>3, <2>4, InputAddable
<1> QED BY <1>1, <1>2

\* A step aborts only where such an entry has been read.
LEMMA AbortStep ==
    ASSUME OneIndexPerVersion, IndInv, BindInv, TableInv, ExposedFrom, [Next]_vars,
           phase # "aborted", phase' = "aborted"
    PROVE  Unregistered(maps')
<1>1. ASSUME NEW r \in DynSyms[cur], LoadSymbol(r) PROVE Unregistered(maps')
  <2>1. \/ UnknownFile(r.versym, Verneed[cur])
        \/ \E d \in Elements(maps[cur]) : d.key = SyminfoOf(r).key
    BY <1>1 DEF LoadSymbol
  <2> QED BY <1>1, <2>1, DuplicateUnregistered, UnknownUnregistered DEF IndInv, BindInv
<1>2. CASE RelocateResolve \/ RelocateCopy
  <2>1. phase = "relocate"
    BY <1>2 DEF RelocateResolve, RelocateCopy, Relocating
  <2>2. PICK k \in Key : Nameable(k) /\ (Resolve(k) \/ ResolveCopy(k))
    BY <1>2, RelocationNames DEF IndInv
  <2>3. IsFresh(k) /\ ~HasSource(k)
    BY <2>2 DEF Resolve, ResolveCopy
  <2> QED BY <2>1, <2>2, <2>3, SymbolOfRight
          DEF IndInv, BindInv, Read, Sound, Phases, HasSource
<1>3. CASE BuildSymbol
  <2> DEFINE x == exposed[pos]
             s == syms[x.key].sym
  <2>1. pos \in DOMAIN exposed /\ phase = "build" /\ UNCHANGED maps
    BY <1>3, LenProperties DEF BuildSymbol, IndInv, TypeOK, inputs
  <2>2. x.key \in DOMAIN syms
    BY <2>1 DEF IndInv, Table, ExposedKnown, BeforeMerge
  <2>3. x \in Syminfo
    BY <2>1, SeqElements DEF IndInv, TypeOK
  <2>4. s.bind \in Binds
    BY <2>2, <2>3 DEF IndInv, TypeOK, IsMap, Syminfo, Sym
  <2>5. ~CanAddVersion(x.key, x.versym, s.bind)
    BY <1>3, <2>2 DEF BuildSymbol, IsFresh
  <2>6. Unregistered(maps)
    BY <2>1, <2>4, <2>5, AddFails DEF ExposedFrom, BindInv
  <2> QED BY <2>1, <2>6
<1>4. CASE EndBuild
  BY <1>4 DEF EndBuild, IndInv, Table, ExposedOnce
<1>5. CASE MergePublicSymbol
  <2> DEFINE p == public[pos]
  <2>1. pos \in DOMAIN public /\ UNCHANGED maps
    BY <1>5, LenProperties DEF MergePublicSymbol, inputs, IndInv, TypeOK
  <2>2. p \in Syminfo
    BY <2>1, SeqElements DEF IndInv, TypeOK
  <2>3. FromInput(maps, p.key, p.versym)
    BY <2>1 DEF TableInv, PublicOK, FromInput
  <2>4. ~CanAddVersion(p.key, p.versym, p.sym.bind) /\ p.sym.bind \in Binds
    BY <1>5, <2>2 DEF MergePublicSymbol, Syminfo, Sym
  <2>5. Unregistered(maps)
    BY <2>3, <2>4, AddFails DEF BindInv
  <2> QED BY <2>1, <2>5
<1> QED BY <1>1, <1>2, <1>3, <1>4, <1>5
        DEF Next, vars, NextLoad, SetSrcSym, EndSetSrc, CopyPublicSymbol, NextPublic,
            NextRelocate, EndMerge

\* ReadDynSymtab, ResolveCopy, Build and MergePublicSymbols stop the program only
\* where a symbol carries a version entry that leads to no registered library, for
\* all inputs whose tables give one index to a version: with two, duplicate_check
\* takes the two entries for one symbol.
THEOREM AbortsOnlyHolds ==
    ASSUME OneIndexPerVersion
    PROVE  Spec => []AbortsOnlyOnUnregisteredVersion
<1> DEFINE Inv == phase = "aborted" => Unregistered(maps)
<1>1. IndInv /\ BindInv /\ TableInv /\ ExposedFrom /\ Inv /\ [Next]_vars => Inv'
  <2> SUFFICES ASSUME IndInv, BindInv, TableInv, ExposedFrom, Inv, [Next]_vars,
                      phase' = "aborted"
               PROVE  Unregistered(maps')
    OBVIOUS
  <2>1. CASE phase = "aborted"
    BY <2>1, AfterCollect DEF IndInv
  <2> QED BY <2>1, AbortStep
<1>2. Init => Inv /\ ExposedFrom
  BY DEF Init, ExposedFrom
<1>3. IndInv /\ BindInv /\ TableInv /\ ExposedFrom /\ [Next]_vars => ExposedFrom'
  BY ExposedFromStep DEF TableInv
<1>4. Inv => AbortsOnlyOnUnregisteredVersion
  BY DEF AbortsOnlyOnUnregisteredVersion, Unregistered, IsRegistered
<1> HIDE DEF Inv
<1> QED BY <1>1, <1>2, <1>3, <1>4, Inductive, BindInductive, TableInductive, PTL DEF Spec
=============================================================================
