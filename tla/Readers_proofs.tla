---------------------------- MODULE Readers_proofs -----------------------------
(***************************************************************************)
(* Theorems about the readers for every value of the constants: that       *)
(* .dynamic is understood in whatever order its entries come, from what    *)
(* each pass has read so far, and that the directories of ld.so.conf come  *)
(* in the order of the expanded text, from what the open calls still add.  *)
(***************************************************************************)
EXTENDS Readers, FiniteSets, SequencesExt, FiniteSetTheorems, SequenceTheorems, Induction_proofs, TLAPS

-----------------------------------------------------------------------------
(***************************************************************************)
(* ParseDynamic: what the first c - 1 entries of a section d say.          *)
(***************************************************************************)
\* Entry j is the last one of tag t.
Latest(d, t, c, j) ==
    /\ j \in DOMAIN d /\ j < c /\ d[j].tag = t
    /\ \A k \in DOMAIN d : k < c /\ d[k].tag = t => k <= j

Without(d, t, c) == \A k \in DOMAIN d : k < c => d[k].tag # t

\* A number is that of the last entry of its tag.
NumberOK(d, n, t, c) ==
    \/ Without(d, t, c) /\ n[t] = 0
    \/ \E j \in DOMAIN d : Latest(d, t, c, j) /\ n[t] = Dyn!Taken(d[j])

\* A name is that of the last entry of its tag, in the string table at s.
NameOK(d, m, s, t, c) ==
    \/ Without(d, t, c)
    \/ \E j \in DOMAIN d : Latest(d, t, c, j) /\ m[t] = [table |-> s, at |-> d[j].val]

NeededBefore(d, c) == {k \in DOMAIN d : d[k].tag = "NEEDED" /\ k < c}

\* The needed names are those of their entries, in order.
NeededsOK(d, ns, s, c) ==
    /\ Len(ns) = Cardinality(NeededBefore(d, c))
    /\ \A j \in NeededBefore(d, c) :
          ns[Cardinality(NeededBefore(d, j + 1))] = [table |-> s, at |-> d[j].val]

Arrays == {"INIT_ARRAY", "FINI_ARRAY"}

\* Nothing that the second pass or the arrays fill has been filled.
NothingRead == neededs = <<>> /\ array = [t \in Arrays |-> <<>>]

DynInv ==
    /\ Dyn!TypeOK
    /\ phase = "size" =>
          /\ cur = 1 /\ NothingRead
          /\ \A t \in Dyn!Numbers : NumberOK(dyns, number, t, 1)
    /\ phase \in {"first", "second", "done"} => rest = 0
    /\ phase = "first" =>
          /\ NothingRead
          /\ \A t \in Dyn!Numbers : NumberOK(dyns, number, t, cur)
          /\ \A j \in DOMAIN dyns : j < cur => ~Dyn!Unsupported(dyns[j])
    /\ phase \in {"second", "done"} =>
          /\ number["STRTAB"] # 0 /\ array = Dyn!ParseArrays
          /\ \A t \in Dyn!Numbers : NumberOK(dyns, number, t, Len(dyns) + 1)
          /\ \A j \in DOMAIN dyns : ~Dyn!Unsupported(dyns[j])
          /\ NeededsOK(dyns, neededs, number["STRTAB"], cur)
          /\ \A t \in Dyn!SingleNames : NameOK(dyns, name, number["STRTAB"], t, cur)
    /\ phase = "done" => cur = Len(dyns) + 1
    /\ phase = "aborted" =>
          /\ NothingRead
          /\ \/ rest # 0 \/ Without(dyns, "STRTAB", Len(dyns) + 1)
             \/ \E j \in DOMAIN dyns : Dyn!Unsupported(dyns[j])

-----------------------------------------------------------------------------
(***************************************************************************)
(* The section a file has.                                                 *)
(***************************************************************************)
LEMMA EntryIn ==
    ASSUME NEW tag \in Dyn!Tags, NEW val \in Nat, tag \notin {"STRTAB", "PLTREL"} \/ (tag = "STRTAB" /\ val # 0)
    PROVE  Dyn!D(tag, val) \in Dyn!SectionEntries
  <1>1. Dyn!D(tag, val) \in [tag : Dyn!Tags, val : Nat]
    BY DEF Dyn!D
  <1>2. Dyn!D(tag, val).tag = tag /\ Dyn!D(tag, val).val = val
    BY DEF Dyn!D
  <1> QED BY <1>1, <1>2 DEF Dyn!SectionEntries

LEMMA UnlessIn ==
    ASSUME NEW tag \in Dyn!Tags, NEW val \in Nat, tag \notin {"STRTAB", "PLTREL"}
    PROVE  Dyn!Unless(val, tag) \in Seq(Dyn!SectionEntries)
BY EntryIn DEF Dyn!Unless

\* What BuildDynamic writes is a section.
LEMMA BuildDynamicIn ==
    ASSUME NEW o \in Outputs
    PROVE  Dyn!BuildDynamic(o) \in Seq(Dyn!SectionEntries)
  <1> DEFINE S == Dyn!SectionEntries
  <1>1. /\ o.needed \in Seq(Nat) /\ o.tables \in Nat /\ o.tables # 0
        /\ o.soname \in Nat /\ o.rpath \in Nat /\ o.runpath \in Nat /\ o.init \in Nat /\ o.fini \in Nat
        /\ o.init_array \in Nat /\ o.ninit \in Nat /\ o.nfini \in Nat /\ o.nverneed \in Nat /\ o.nrels \in Nat
    BY ReadersAssumption DEF Dyn!OutputsAssumption
  <1>2. \A tag \in Dyn!Tags \ {"STRTAB", "PLTREL"} : \A v \in Nat : Dyn!D(tag, v) \in S
    BY EntryIn
  <1>3. \A t \in {"NEEDED", "INIT_ARRAY", "INIT_ARRAYSZ", "FINI_ARRAY", "FINI_ARRAYSZ", "GNU_HASH", "SYMTAB",
                  "VERSYM", "VERNEEDNUM", "VERNEED", "RELA", "RELASZ", "SONAME", "RPATH", "RUNPATH",
                  "INIT", "FINI"} : t \in Dyn!Tags \ {"STRTAB", "PLTREL"}
    BY DEF Dyn!Tags, Dyn!Numbers, Dyn!SingleNames
  <1>4. Dyn!D("STRTAB", o.tables) \in S
    <2>1. "STRTAB" \in Dyn!Tags
      BY DEF Dyn!Tags, Dyn!Numbers
    <2> QED BY <1>1, <2>1, EntryIn
  <1>5. [k \in DOMAIN o.needed |-> Dyn!D("NEEDED", o.needed[k])] \in Seq(S)
    <2>1. \A k \in 1..Len(o.needed) : Dyn!D("NEEDED", o.needed[k]) \in S
      <3>0. o.needed \in Seq(Nat)
        BY <1>1
      <3>1. \A k \in 1..Len(o.needed) : o.needed[k] \in Nat
        BY <3>0
      <3>2. "NEEDED" \in Dyn!Tags \ {"STRTAB", "PLTREL"}
        BY <1>3
      <3> QED BY <1>2, <3>1, <3>2, Zenon
    <2>2. DOMAIN o.needed = 1..Len(o.needed) /\ Len(o.needed) \in Nat
      <3>1. o.needed \in Seq(Nat)
        BY <1>1, Zenon
      <3>2. \A s \in Seq(Nat) : DOMAIN s = 1..Len(s) /\ Len(s) \in Nat
        OBVIOUS
      <3> QED BY <3>1, <3>2, Zenon
    <2> QED BY <2>1, <2>2, SeqDef
  <1> DEFINE u1 == Dyn!Unless(o.soname, "SONAME")
             u2 == Dyn!Unless(o.rpath, "RPATH")
             u3 == Dyn!Unless(o.runpath, "RUNPATH")
             u4 == Dyn!Unless(o.init, "INIT")
             u5 == Dyn!Unless(o.fini, "FINI")
             arrays == <<Dyn!D("INIT_ARRAY", o.init_array), Dyn!D("INIT_ARRAYSZ", 8 * o.ninit),
                         Dyn!D("FINI_ARRAY", o.init_array + 8 * o.ninit), Dyn!D("FINI_ARRAYSZ", 8 * o.nfini),
                         Dyn!D("GNU_HASH", o.tables), Dyn!D("STRTAB", o.tables), Dyn!D("SYMTAB", o.tables)>>
             versions == IF o.nverneed > 0
                         THEN <<Dyn!D("VERSYM", o.tables), Dyn!D("VERNEEDNUM", o.nverneed), Dyn!D("VERNEED", o.tables)>>
                         ELSE <<>>
             rela == <<Dyn!D("RELA", o.tables), Dyn!D("RELASZ", Dyn!RelSize(o))>>
  <1>6. u1 \in Seq(S) /\ u2 \in Seq(S) /\ u3 \in Seq(S) /\ u4 \in Seq(S) /\ u5 \in Seq(S)
    BY <1>1, <1>3, UnlessIn
  <1>7. arrays \in Seq(S)
    <2>1. 8 * o.ninit \in Nat /\ o.init_array + 8 * o.ninit \in Nat /\ 8 * o.nfini \in Nat
      <3>1. o.ninit \in Nat /\ o.nfini \in Nat /\ o.init_array \in Nat
        BY <1>1, Zenon
      <3>2. \A i, j \in Nat : 8 * i \in Nat /\ j + 8 * i \in Nat
        OBVIOUS
      <3> QED BY <3>1, <3>2, Zenon
    <2>2. /\ Dyn!D("INIT_ARRAY", o.init_array) \in S /\ Dyn!D("INIT_ARRAYSZ", 8 * o.ninit) \in S
          /\ Dyn!D("FINI_ARRAY", o.init_array + 8 * o.ninit) \in S /\ Dyn!D("FINI_ARRAYSZ", 8 * o.nfini) \in S
          /\ Dyn!D("GNU_HASH", o.tables) \in S /\ Dyn!D("SYMTAB", o.tables) \in S
      <3>1. \A v \in Nat : Dyn!D("INIT_ARRAY", v) \in S /\ Dyn!D("INIT_ARRAYSZ", v) \in S
        BY <1>2, <1>3, Zenon
      <3>2. \A v \in Nat : Dyn!D("FINI_ARRAY", v) \in S /\ Dyn!D("FINI_ARRAYSZ", v) \in S
        BY <1>2, <1>3, Zenon
      <3>3. \A v \in Nat : Dyn!D("GNU_HASH", v) \in S /\ Dyn!D("SYMTAB", v) \in S
        BY <1>2, <1>3, Zenon
      <3> QED BY <1>1, <2>1, <3>1, <3>2, <3>3, Zenon
    <2> HIDE DEF S
    <2> QED BY <1>4, <2>2
  <1>8. versions \in Seq(S)
    <2>1. /\ Dyn!D("VERSYM", o.tables) \in S /\ Dyn!D("VERNEEDNUM", o.nverneed) \in S
          /\ Dyn!D("VERNEED", o.tables) \in S
      BY <1>1, <1>2, <1>3
    <2> HIDE DEF S
    <2> QED BY <2>1
  <1>9. rela \in Seq(S)
    <2>1. Dyn!RelSize(o) \in Nat
      <3>1. o.nrels \in Nat
        BY <1>1, Zenon
      <3>2. \A i \in Nat : 24 * i \in Nat
        OBVIOUS
      <3> QED BY <3>1, <3>2, Zenon DEF Dyn!RelSize
    <2>2. Dyn!D("RELA", o.tables) \in S /\ Dyn!D("RELASZ", Dyn!RelSize(o)) \in S
      BY <1>1, <1>2, <1>3, <2>1
    <2> HIDE DEF S
    <2> QED BY <2>2
  <1>10. Dyn!BuildDynamic(o) = [k \in DOMAIN o.needed |-> Dyn!D("NEEDED", o.needed[k])]
             \o u1 \o u2 \o u3 \o u4 \o u5 \o arrays \o versions \o rela
    BY DEF Dyn!BuildDynamic
  <1> DEFINE names == [k \in DOMAIN o.needed |-> Dyn!D("NEEDED", o.needed[k])]
  <1> HIDE DEF S, u1, u2, u3, u4, u5, arrays, versions, rela, names
  <1>11. \A a, c \in Seq(S) : a \o c \in Seq(S)
    OBVIOUS
  <1>12. names \o u1 \o u2 \o u3 \in Seq(S)
    BY <1>5, <1>6, <1>11 DEF names
  <1>13. names \o u1 \o u2 \o u3 \o u4 \o u5 \in Seq(S)
    BY <1>6, <1>11, <1>12
  <1>14. names \o u1 \o u2 \o u3 \o u4 \o u5 \o arrays \o versions \o rela \in Seq(S)
    BY <1>7, <1>8, <1>9, <1>11, <1>13
  <1> QED BY <1>10, <1>14 DEF S, names

LEMMA DynInit ==
    ASSUME Dyn!Init
    PROVE  DynInv
  <1>1. dyns \in Seq(Dyn!SectionEntries) /\ rest \in Nat /\ Dyn!Start(dyns)
    <2>1. CASE \E o \in Outputs : Dyn!Start(Dyn!BuildDynamic(o)) /\ rest = 0
      <3>1. PICK o \in Outputs : Dyn!Start(Dyn!BuildDynamic(o)) /\ rest = 0
        BY <2>1
      <3> QED BY <3>1, BuildDynamicIn DEF Dyn!Start
    <2>2. CASE \E n \in 0..MaxEntries : \E section \in [1..n -> Entries] :
                  Dyn!Start(section) /\ rest \in Remainders
      <3>1. PICK n \in 0..MaxEntries : \E section \in [1..n -> Entries] :
                    Dyn!Start(section) /\ rest \in Remainders
        BY <2>2
      <3>2. PICK section \in [1..n -> Entries] : Dyn!Start(section) /\ rest \in Remainders
        BY <3>1
      <3>3. n \in Nat /\ Entries \subseteq Dyn!SectionEntries /\ Remainders \subseteq Nat
        BY ReadersAssumption DEF Dyn!EntriesAssumption
      <3>4. section \in Seq(Dyn!SectionEntries)
        BY <3>2, <3>3, SeqDef
      <3> QED BY <3>2, <3>3, <3>4 DEF Dyn!Start
    <2> QED BY <2>1, <2>2, Zenon DEF Dyn!Init
  <1>2. Len(dyns) \in Nat /\ DOMAIN dyns = 1..Len(dyns)
    BY <1>1
  <1>3. Dyn!TypeOK
    BY <1>1, <1>2 DEF Dyn!Start, Dyn!TypeOK, Dyn!Strings, Dyn!None
  <1>4. \A t \in Dyn!Numbers : NumberOK(dyns, number, t, 1)
    BY <1>1, <1>2 DEF NumberOK, Without, Dyn!Start
  <1>5. NothingRead /\ phase = "size" /\ cur = 1
    BY <1>1 DEF NothingRead, Arrays, Dyn!Start
  <1> QED BY <1>2, <1>3, <1>4, <1>5 DEF DynInv

-----------------------------------------------------------------------------
(***************************************************************************)
(* One more entry.                                                         *)
(***************************************************************************)
LEMMA EntryTaken ==
    ASSUME NEW e \in Dyn!SectionEntries
    PROVE  e.val \in Nat /\ Dyn!Taken(e) \in Nat
  <1>1. e.val \in Nat
    BY DEF Dyn!SectionEntries
  <1> QED BY <1>1 DEF Dyn!Taken

\* The last entry of a tag among the first c - 1 is that entry among the first c,
\* unless entry c has the tag.
LEMMA LatestNext ==
    ASSUME NEW d \in Seq(Dyn!SectionEntries), NEW t, NEW c \in 1..Len(d), d[c].tag # t
    PROVE  /\ \A j \in DOMAIN d : Latest(d, t, c, j) => Latest(d, t, c + 1, j)
           /\ Without(d, t, c) => Without(d, t, c + 1)
  <1>1. \A k \in DOMAIN d : k < c + 1 => k < c \/ k = c
    OBVIOUS
  <1>2. \A k \in DOMAIN d : k < c => k < c + 1
    OBVIOUS
  <1> QED BY <1>1, <1>2 DEF Latest, Without

LEMMA LatestHere ==
    ASSUME NEW d \in Seq(Dyn!SectionEntries), NEW c \in 1..Len(d)
    PROVE  Latest(d, d[c].tag, c + 1, c)
BY DEF Latest

\* What ValueOf says of a tag.
LEMMA ValueOfLatest ==
    ASSUME dyns \in Seq(Dyn!SectionEntries), NEW t, NEW j \in DOMAIN dyns,
           Latest(dyns, t, Len(dyns) + 1, j)
    PROVE  Dyn!ValueOf(t) = dyns[j].val
  <1>1. j \in Dyn!Present(t) /\ \A k \in Dyn!Present(t) : k <= j
    BY DEF Latest, Dyn!Present
  <1>2. \A k \in Dyn!Present(t) : k \in Nat
    BY DEF Dyn!Present
  <1>3. \A k \in Dyn!Present(t) : (\A l \in Dyn!Present(t) : l <= k) => k = j
    BY <1>1, <1>2
  <1>4. (CHOOSE k \in Dyn!Present(t) : \A l \in Dyn!Present(t) : l <= k) = j
    BY <1>1, <1>3
  <1> QED BY <1>1, <1>4 DEF Dyn!ValueOf

LEMMA ValueOfWithout ==
    ASSUME dyns \in Seq(Dyn!SectionEntries), NEW t, Without(dyns, t, Len(dyns) + 1)
    PROVE  Dyn!Present(t) = {} /\ Dyn!ValueOf(t) = 0
BY DEF Without, Dyn!Present, Dyn!ValueOf

\* The needed entries before an entry, and with it.
LEMMA NeededBeforeNext ==
    ASSUME NEW d \in Seq(Dyn!SectionEntries), NEW c \in 1..Len(d)
    PROVE  /\ IsFiniteSet(NeededBefore(d, c))
           /\ d[c].tag # "NEEDED" => NeededBefore(d, c + 1) = NeededBefore(d, c)
           /\ d[c].tag = "NEEDED" =>
                 /\ NeededBefore(d, c + 1) = NeededBefore(d, c) \cup {c}
                 /\ Cardinality(NeededBefore(d, c + 1)) = Cardinality(NeededBefore(d, c)) + 1
  <1>1. NeededBefore(d, c) \subseteq 1..Len(d) /\ Len(d) \in Nat
    BY DEF NeededBefore
  <1>2. IsFiniteSet(NeededBefore(d, c))
    <2>1. IsFiniteSet(1..Len(d))
      BY <1>1, FS_Interval
    <2> QED BY <1>1, <2>1, FS_Subset
  <1>3. d[c].tag # "NEEDED" => NeededBefore(d, c + 1) = NeededBefore(d, c)
    BY DEF NeededBefore
  <1>4. d[c].tag = "NEEDED" => NeededBefore(d, c + 1) = NeededBefore(d, c) \cup {c}
    BY DEF NeededBefore
  <1>5. c \notin NeededBefore(d, c)
    BY DEF NeededBefore
  <1> QED BY <1>2, <1>3, <1>4, <1>5, FS_AddElement

\* The place of a needed name among those before entry c.
LEMMA NeededPlace ==
    ASSUME NEW d \in Seq(Dyn!SectionEntries), NEW c \in 1..(Len(d) + 1), NEW j \in NeededBefore(d, c)
    PROVE  Cardinality(NeededBefore(d, j + 1)) \in 1..Cardinality(NeededBefore(d, c))
  <1>1. NeededBefore(d, c) \subseteq 1..Len(d) /\ Len(d) \in Nat /\ c \in Nat /\ j \in Nat /\ j < c
    BY DEF NeededBefore
  <1>2. IsFiniteSet(NeededBefore(d, c))
    <2>1. IsFiniteSet(1..Len(d))
      BY <1>1, FS_Interval
    <2> QED BY <1>1, <2>1, FS_Subset
  <1>3. NeededBefore(d, j + 1) \subseteq NeededBefore(d, c) /\ j \in NeededBefore(d, j + 1)
    BY <1>1 DEF NeededBefore
  <1>4. IsFiniteSet(NeededBefore(d, j + 1))
        /\ Cardinality(NeededBefore(d, j + 1)) <= Cardinality(NeededBefore(d, c))
    BY <1>2, <1>3, FS_Subset
  <1>5. Cardinality(NeededBefore(d, j + 1)) # 0
    BY <1>3, <1>4, FS_EmptySet
  <1>6. Cardinality(NeededBefore(d, j + 1)) \in Nat /\ Cardinality(NeededBefore(d, c)) \in Nat
    BY <1>2, <1>4, FS_CardinalityType
  <1> QED BY <1>4, <1>5, <1>6

-----------------------------------------------------------------------------
(***************************************************************************)
(* The passes.                                                             *)
(***************************************************************************)
LEMMA CheckSizeInv ==
    ASSUME DynInv, Dyn!CheckSize
    PROVE  DynInv'
  <1>1. /\ phase = "size" /\ cur = 1 /\ NothingRead /\ dyns \in Seq(Dyn!SectionEntries)
        /\ phase' = (IF rest = 0 THEN "first" ELSE "aborted") /\ rest' = rest /\ dyns' = dyns
        /\ cur' = cur /\ number' = number /\ name' = name /\ neededs' = neededs /\ array' = array
    BY DEF DynInv, Dyn!CheckSize, Dyn!members, Dyn!TypeOK
  <1>2. Dyn!TypeOK' /\ NothingRead'
    BY <1>1 DEF DynInv, Dyn!TypeOK, NothingRead
  <1>3. \A t \in Dyn!Numbers : NumberOK(dyns, number, t, cur)
    BY <1>1 DEF DynInv
  <1>4. \A j \in DOMAIN dyns : ~(j < cur)
    BY <1>1
  <1> QED BY <1>1, <1>2, <1>3, <1>4 DEF DynInv

LEMMA FirstPassInv ==
    ASSUME DynInv, Dyn!FirstPass
    PROVE  DynInv'
  <1>1. /\ phase = "first" /\ cur \in 1..Len(dyns) /\ dyns \in Seq(Dyn!SectionEntries)
        /\ number \in [Dyn!Numbers -> Nat] /\ NothingRead
        /\ dyns' = dyns /\ name' = name /\ neededs' = neededs /\ array' = array
        /\ rest = 0 /\ rest' = rest
    BY DEF DynInv, Dyn!TypeOK, Dyn!FirstPass
  <1>2. dyns[cur] \in Dyn!SectionEntries /\ DOMAIN dyns = 1..Len(dyns) /\ NothingRead'
    BY <1>1 DEF NothingRead
  <1>3. CASE Dyn!Unsupported(dyns[cur])
    <2>1. phase' = "aborted" /\ number' = number /\ cur' = cur
      BY <1>3 DEF Dyn!FirstPass, Dyn!Entry
    <2>2. Dyn!TypeOK'
      BY <1>1, <2>1 DEF DynInv, Dyn!TypeOK
    <2>3. \E j \in DOMAIN dyns : Dyn!Unsupported(dyns[j])
      BY <1>1, <1>2, <1>3
    <2> QED BY <1>1, <1>2, <2>1, <2>2, <2>3 DEF DynInv
  <1>4. CASE ~Dyn!Unsupported(dyns[cur])
    <2>1. phase' = "first" /\ number' = Dyn!Filled(dyns[cur]) /\ cur' = cur + 1
      BY <1>1, <1>4 DEF Dyn!FirstPass, Dyn!Entry
    <2>2. Dyn!Taken(dyns[cur]) \in Nat
      BY <1>2, EntryTaken
    <2>3. /\ number' \in [Dyn!Numbers -> Nat]
          /\ \A t \in Dyn!Numbers :
                number'[t] = IF t = dyns[cur].tag THEN Dyn!Taken(dyns[cur]) ELSE number[t]
      BY <1>1, <2>1, <2>2 DEF Dyn!Filled
    <2>4. Dyn!TypeOK'
      BY <1>1, <2>1, <2>3 DEF DynInv, Dyn!TypeOK
    <2>5. ASSUME NEW t \in Dyn!Numbers
          PROVE  NumberOK(dyns, number', t, cur + 1)
      <3>1. CASE t = dyns[cur].tag
        BY <1>1, <1>2, <2>3, <3>1, LatestHere DEF NumberOK
      <3>2. CASE t # dyns[cur].tag
        <4>1. NumberOK(dyns, number, t, cur) /\ number'[t] = number[t]
          BY <1>1, <2>3, <3>2 DEF DynInv
        <4>2. /\ \A j \in DOMAIN dyns : Latest(dyns, t, cur, j) => Latest(dyns, t, cur + 1, j)
              /\ Without(dyns, t, cur) => Without(dyns, t, cur + 1)
          BY <1>1, <3>2, LatestNext
        <4> QED BY <4>1, <4>2 DEF NumberOK
      <3> QED BY <3>1, <3>2
    <2>6. \A j \in DOMAIN dyns : j < cur + 1 => ~Dyn!Unsupported(dyns[j])
      <3>1. \A j \in DOMAIN dyns : j < cur => ~Dyn!Unsupported(dyns[j])
        BY <1>1 DEF DynInv
      <3>2. \A j \in DOMAIN dyns : j < cur + 1 => j < cur \/ j = cur
        BY <1>1, <1>2
      <3> QED BY <1>4, <3>1, <3>2
    <2>7. \A t \in Dyn!Numbers : NumberOK(dyns, number', t, cur + 1)
      BY <2>5
    <2> QED BY <1>1, <1>2, <2>1, <2>4, <2>6, <2>7 DEF DynInv
  <1> QED BY <1>3, <1>4

\* A number that is not a number of relocations is the value of its tag.
LEMMA NumberIsValue ==
    ASSUME dyns \in Seq(Dyn!SectionEntries), NEW t, t \notin {"RELASZ", "PLTRELSZ"},
           NumberOK(dyns, number, t, Len(dyns) + 1)
    PROVE  number[t] = Dyn!ValueOf(t)
  <1>1. CASE Without(dyns, t, Len(dyns) + 1) /\ number[t] = 0
    BY <1>1, ValueOfWithout
  <1>2. ASSUME NEW j \in DOMAIN dyns, Latest(dyns, t, Len(dyns) + 1, j), number[t] = Dyn!Taken(dyns[j])
        PROVE  number[t] = Dyn!ValueOf(t)
    <2>1. Dyn!ValueOf(t) = dyns[j].val
      BY <1>2, ValueOfLatest
    <2>2. dyns[j].tag = t
      BY <1>2 DEF Latest
    <2> QED BY <1>2, <2>1, <2>2 DEF Dyn!Taken
  <1> QED BY <1>1, <1>2 DEF NumberOK

LEMMA WordsType ==
    ASSUME NEW addr \in Nat, NEW size \in Nat
    PROVE  Dyn!Words(addr, size) \in Seq(Nat)
  <1>1. size \div 8 \in Nat
    OBVIOUS
  <1>2. \A k \in 1..(size \div 8) : addr + 8 * (k - 1) \in Nat
    BY <1>1
  <1> QED BY <1>1, <1>2, SeqDef DEF Dyn!Words

LEMMA BetweenPassesInv ==
    ASSUME DynInv, Dyn!BetweenPasses
    PROVE  DynInv'
  <1>a. /\ phase = "first" /\ cur > Len(dyns) /\ cur \in 1..(Len(dyns) + 1) /\ dyns \in Seq(Dyn!SectionEntries)
        /\ number \in [Dyn!Numbers -> Nat] /\ NothingRead
        /\ dyns' = dyns /\ name' = name /\ neededs' = neededs /\ number' = number
        /\ rest = 0 /\ rest' = rest
    BY DEF DynInv, Dyn!TypeOK, Dyn!BetweenPasses
  <1>2. Len(dyns) \in Nat /\ DOMAIN dyns = 1..Len(dyns)
    BY <1>a
  <1>1. /\ phase = "first" /\ cur = Len(dyns) + 1 /\ dyns \in Seq(Dyn!SectionEntries)
        /\ number \in [Dyn!Numbers -> Nat] /\ NothingRead
        /\ dyns' = dyns /\ name' = name /\ neededs' = neededs /\ number' = number
        /\ rest = 0 /\ rest' = rest
    BY <1>a, <1>2
  <1>3. "STRTAB" \in Dyn!Numbers /\ NumberOK(dyns, number, "STRTAB", Len(dyns) + 1)
    BY <1>1 DEF DynInv, Dyn!Numbers
  <1>4. CASE number["STRTAB"] = 0
    <2>1. phase' = "aborted" /\ array' = array /\ cur' = cur
      BY <1>4 DEF Dyn!BetweenPasses
    <2>2. Dyn!TypeOK' /\ NothingRead'
      BY <1>1, <2>1 DEF DynInv, Dyn!TypeOK, NothingRead
    <2>3. Without(dyns, "STRTAB", Len(dyns) + 1)
      <3>1. ASSUME NEW j \in DOMAIN dyns, Latest(dyns, "STRTAB", Len(dyns) + 1, j),
                   number["STRTAB"] = Dyn!Taken(dyns[j])
            PROVE  FALSE
        <4>1. dyns[j] \in Dyn!SectionEntries /\ dyns[j].tag = "STRTAB"
          BY <1>1, <3>1 DEF Latest
        <4> QED BY <1>4, <3>1, <4>1 DEF Dyn!SectionEntries, Dyn!Taken
      <3> QED BY <1>3, <3>1 DEF NumberOK
    <2> QED BY <1>1, <2>1, <2>2, <2>3 DEF DynInv
  <1>5. CASE number["STRTAB"] # 0
    <2>1. phase' = "second" /\ array' = Dyn!ParseArrays /\ cur' = 1
      BY <1>5 DEF Dyn!BetweenPasses
    <2>2. Dyn!ParseArrays' = Dyn!ParseArrays
      BY <1>1 DEF Dyn!ParseArrays, Dyn!Words
    <2>3. Dyn!ParseArrays \in [Arrays -> Seq(Nat)]
      <3>1. \A t \in Arrays : number[t] \in Nat
        BY <1>1 DEF Arrays, Dyn!Numbers
      <3>2. number["INIT_ARRAYSZ"] \in Nat /\ number["FINI_ARRAYSZ"] \in Nat
        BY <1>1 DEF Dyn!Numbers
      <3> QED BY <3>1, <3>2, WordsType DEF Dyn!ParseArrays, Arrays
    <2>4. Dyn!TypeOK'
      BY <1>1, <1>2, <2>1, <2>3 DEF DynInv, Dyn!TypeOK, Arrays
    <2>5. NeededsOK(dyns, neededs, number["STRTAB"], 1)
      <3>1. NeededBefore(dyns, 1) = {} /\ Len(neededs) = 0
        BY <1>1, <1>2 DEF NeededBefore, NothingRead
      <3> QED BY <3>1, FS_EmptySet DEF NeededsOK
    <2>6. \A t \in Dyn!SingleNames : NameOK(dyns, name, number["STRTAB"], t, 1)
      BY <1>2 DEF NameOK, Without
    <2>7. \A t \in Dyn!Numbers : NumberOK(dyns, number, t, Len(dyns) + 1)
      BY <1>1 DEF DynInv
    <2>8. \A j \in DOMAIN dyns : ~Dyn!Unsupported(dyns[j])
      BY <1>1, <1>2 DEF DynInv
    <2> QED BY <1>1, <1>5, <2>1, <2>2, <2>4, <2>5, <2>6, <2>7, <2>8 DEF DynInv
  <1> QED BY <1>4, <1>5

LEMMA SecondPassInv ==
    ASSUME DynInv, Dyn!SecondPass
    PROVE  DynInv'
  <1> DEFINE s == number["STRTAB"]
             e == dyns[cur]
             new == [table |-> s, at |-> e.val]
  <1>1. /\ phase = "second" /\ cur \in 1..Len(dyns) /\ dyns \in Seq(Dyn!SectionEntries)
        /\ number \in [Dyn!Numbers -> Nat] /\ neededs \in Seq(Dyn!Strings)
        /\ name \in [Dyn!SingleNames -> Dyn!Strings]
        /\ dyns' = dyns /\ number' = number /\ array' = array /\ phase' = phase /\ cur' = cur + 1
        /\ rest = 0 /\ rest' = rest
    BY DEF DynInv, Dyn!TypeOK, Dyn!SecondPass
  <1>2. /\ neededs' = IF e.tag = "NEEDED" THEN Append(neededs, new) ELSE neededs
        /\ name' = IF e.tag \in Dyn!SingleNames THEN [name EXCEPT ![e.tag] = new] ELSE name
    BY DEF Dyn!SecondPass, Dyn!Entry, Dyn!Str
  <1>3. e \in Dyn!SectionEntries /\ DOMAIN dyns = 1..Len(dyns) /\ Dyn!ParseArrays' = Dyn!ParseArrays
    BY <1>1 DEF Dyn!ParseArrays, Dyn!Words
  <1>4. new \in Dyn!Strings
    <2>1. s \in Nat
      BY <1>1 DEF Dyn!Numbers
    <2> QED BY <1>3, <2>1, EntryTaken DEF Dyn!Strings
  <1>5. /\ NeededsOK(dyns, neededs, s, cur)
        /\ \A t \in Dyn!SingleNames : NameOK(dyns, name, s, t, cur)
    BY <1>1 DEF DynInv
  <1> HIDE DEF new, e, s
  <1>6. Dyn!TypeOK'
    BY <1>1, <1>2, <1>4 DEF DynInv, Dyn!TypeOK
  <1>7. NeededsOK(dyns, neededs', s, cur + 1)
    <2>1. CASE e.tag # "NEEDED"
      BY <1>1, <1>2, <1>5, <2>1, NeededBeforeNext DEF NeededsOK, e
    <2>2. CASE e.tag = "NEEDED"
      <3> DEFINE B(c) == NeededBefore(dyns, c)
      <3>1. /\ B(cur + 1) = B(cur) \cup {cur} /\ Cardinality(B(cur + 1)) = Cardinality(B(cur)) + 1
            /\ Len(neededs) = Cardinality(B(cur))
            /\ \A j \in B(cur) : neededs[Cardinality(B(j + 1))] = [table |-> s, at |-> dyns[j].val]
        BY <1>1, <1>5, <2>2, NeededBeforeNext DEF NeededsOK, e
      <3>2. /\ neededs' = Append(neededs, new) /\ Len(neededs') = Len(neededs) + 1
            /\ neededs'[Len(neededs) + 1] = new
            /\ \A k \in 1..Len(neededs) : neededs'[k] = neededs[k]
        BY <1>1, <1>2, <1>4, <2>2
      <3>3. ASSUME NEW j \in B(cur)
            PROVE  neededs'[Cardinality(B(j + 1))] = [table |-> s, at |-> dyns[j].val]
        <4>1. Cardinality(B(j + 1)) \in 1..Cardinality(B(cur))
          BY <1>1, NeededPlace
        <4> QED BY <3>1, <3>2, <4>1
      <3>4. neededs'[Cardinality(B(cur + 1))] = [table |-> s, at |-> dyns[cur].val]
        BY <3>1, <3>2 DEF new, e
      <3> QED BY <3>1, <3>2, <3>3, <3>4 DEF NeededsOK
    <2> QED BY <2>1, <2>2
  <1>8. ASSUME NEW t \in Dyn!SingleNames
        PROVE  NameOK(dyns, name', s, t, cur + 1)
    <2>1. CASE t = e.tag
      <3>1. name'[t] = new /\ Latest(dyns, t, cur + 1, cur)
        BY <1>1, <1>2, <2>1, LatestHere DEF e
      <3> QED BY <1>1, <1>3, <3>1 DEF NameOK, new, e
    <2>2. CASE t # e.tag
      <3>1. name'[t] = name[t]
        BY <1>1, <1>2, <2>2
      <3>2. /\ \A j \in DOMAIN dyns : Latest(dyns, t, cur, j) => Latest(dyns, t, cur + 1, j)
            /\ Without(dyns, t, cur) => Without(dyns, t, cur + 1)
        BY <1>1, <2>2, LatestNext DEF e
      <3> QED BY <1>5, <3>1, <3>2 DEF NameOK
    <2> QED BY <2>1, <2>2
  <1>9. /\ s # 0 /\ array = Dyn!ParseArrays
        /\ \A t \in Dyn!Numbers : NumberOK(dyns, number, t, Len(dyns) + 1)
        /\ \A j \in DOMAIN dyns : ~Dyn!Unsupported(dyns[j])
    BY <1>1 DEF DynInv, s
  <1>10. \A t \in Dyn!SingleNames : NameOK(dyns, name', s, t, cur + 1)
    BY <1>8
  <1> QED BY <1>1, <1>3, <1>6, <1>7, <1>9, <1>10 DEF DynInv, s

LEMMA EndSecondPassInv ==
    ASSUME DynInv, Dyn!EndSecondPass
    PROVE  DynInv'
  <1>1. /\ phase = "second" /\ phase' = "done" /\ cur > Len(dyns)
        /\ cur \in 1..(Len(dyns) + 1) /\ dyns \in Seq(Dyn!SectionEntries)
        /\ dyns' = dyns /\ cur' = cur /\ number' = number /\ name' = name /\ neededs' = neededs /\ array' = array
        /\ rest = 0 /\ rest' = rest
    BY DEF DynInv, Dyn!TypeOK, Dyn!EndSecondPass, Dyn!members
  <1>2. cur = Len(dyns) + 1
    <2>1. Len(dyns) \in Nat
      BY <1>1
    <2> QED BY <1>1, <2>1
  <1>3. Dyn!TypeOK' /\ Dyn!ParseArrays' = Dyn!ParseArrays
    BY <1>1 DEF DynInv, Dyn!TypeOK, Dyn!ParseArrays, Dyn!Words
  <1> QED BY <1>1, <1>2, <1>3 DEF DynInv

LEMMA DynStep ==
    ASSUME DynInv, Dyn!Next
    PROVE  DynInv'
BY CheckSizeInv, FirstPassInv, BetweenPassesInv, SecondPassInv, EndSecondPassInv, Zenon DEF Dyn!Next

LEMMA DynStutter ==
    ASSUME DynInv, UNCHANGED dyn_vars
    PROVE  DynInv'
  <1>1. /\ dyns' = dyns /\ phase' = phase /\ cur' = cur /\ number' = number
        /\ name' = name /\ neededs' = neededs /\ array' = array /\ rest' = rest
    BY DEF dyn_vars
  <1>2. Dyn!TypeOK' /\ Dyn!ParseArrays' = Dyn!ParseArrays /\ (NothingRead' <=> NothingRead)
    BY <1>1 DEF DynInv, Dyn!TypeOK, Dyn!ParseArrays, Dyn!Words, NothingRead
  <1> QED BY <1>1, <1>2 DEF DynInv

-----------------------------------------------------------------------------
(***************************************************************************)
(* What the parser has read when it ends.                                  *)
(***************************************************************************)
\* Cardinality is the same operator wherever FiniteSets is instantiated.
LEMMA SameCardinality == \A S : Dyn!Cardinality(S) = Cardinality(S)
  BY Zenon DEF Dyn!Cardinality, Cardinality

LEMMA DynReads ==
    ASSUME DynInv, phase = "done"
    PROVE  Dyn!ReadInAnyOrder
  <1> DEFINE n == Len(dyns)
  <1>1. /\ dyns \in Seq(Dyn!SectionEntries) /\ n \in Nat /\ DOMAIN dyns = 1..n
        /\ cur = n + 1 /\ array = Dyn!ParseArrays
        /\ NeededsOK(dyns, neededs, number["STRTAB"], n + 1)
        /\ \A t \in Dyn!Numbers : NumberOK(dyns, number, t, n + 1)
        /\ \A t \in Dyn!SingleNames : NameOK(dyns, name, number["STRTAB"], t, n + 1)
    BY DEF DynInv, Dyn!TypeOK
  <1>2. \A t \in {"STRTAB", "INIT_ARRAY", "INIT_ARRAYSZ", "FINI_ARRAY", "FINI_ARRAYSZ"} :
            number[t] = Dyn!ValueOf(t)
    <2>1. \A t \in {"STRTAB", "INIT_ARRAY", "INIT_ARRAYSZ", "FINI_ARRAY", "FINI_ARRAYSZ"} :
              t \in Dyn!Numbers /\ t \notin {"RELASZ", "PLTRELSZ"}
      BY DEF Dyn!Numbers
    <2> QED BY <1>1, <2>1, NumberIsValue
  <1>3. \A at_ \in Nat : Dyn!InTable(at_) = [table |-> number["STRTAB"], at |-> at_]
    BY <1>2 DEF Dyn!InTable
  <1>4. \A j \in DOMAIN dyns : dyns[j].val \in Nat
    BY <1>1, EntryTaken
  <1>5. Dyn!Present("NEEDED") = NeededBefore(dyns, n + 1)
    BY <1>1 DEF Dyn!Present, NeededBefore
  <1>6. ASSUME NEW j \in Dyn!Present("NEEDED")
        PROVE  neededs[Dyn!Place(j)] = Dyn!InTable(dyns[j].val)
    <2>1. j \in DOMAIN dyns
      BY DEF Dyn!Present
    <2>2. {k \in Dyn!Present("NEEDED") : k <= j} = NeededBefore(dyns, j + 1)
      BY <1>1, <2>1 DEF Dyn!Present, NeededBefore
    <2>3. neededs[Cardinality(NeededBefore(dyns, j + 1))] = [table |-> number["STRTAB"], at |-> dyns[j].val]
      BY <1>1, <1>5 DEF NeededsOK
    <2>4. Dyn!Place(j) = Cardinality(NeededBefore(dyns, j + 1))
      BY Zenon, <2>2, SameCardinality DEF Dyn!Place
    <2> QED BY <1>3, <1>4, <2>1, <2>3, <2>4
  <1>7. ASSUME NEW t \in Dyn!SingleNames, Dyn!Present(t) # {}
        PROVE  name[t] = Dyn!InTable(Dyn!ValueOf(t))
    <2>1. ~Without(dyns, t, n + 1)
      BY <1>1, <1>7, ValueOfWithout
    <2>2. PICK j \in DOMAIN dyns : Latest(dyns, t, n + 1, j)
                                 /\ name[t] = [table |-> number["STRTAB"], at |-> dyns[j].val]
      BY <1>1, <2>1 DEF NameOK
    <2>3. Dyn!ValueOf(t) = dyns[j].val
      BY <1>1, <2>2, ValueOfLatest
    <2> QED BY <1>3, <1>4, <2>2, <2>3
  <1>8. /\ array["INIT_ARRAY"] = Dyn!Words(Dyn!ValueOf("INIT_ARRAY"), Dyn!ValueOf("INIT_ARRAYSZ"))
        /\ array["FINI_ARRAY"] = Dyn!Words(Dyn!ValueOf("FINI_ARRAY"), Dyn!ValueOf("FINI_ARRAYSZ"))
    <2>1. /\ array["INIT_ARRAY"] = Dyn!Words(number["INIT_ARRAY"], number["INIT_ARRAYSZ"])
          /\ array["FINI_ARRAY"] = Dyn!Words(number["FINI_ARRAY"], number["FINI_ARRAYSZ"])
      BY <1>1 DEF Dyn!ParseArrays
    <2> QED BY <1>2, <2>1
  <1>9. Len(neededs) = Dyn!Cardinality(Dyn!Present("NEEDED"))
    <2>1. Len(neededs) = Cardinality(Dyn!Present("NEEDED"))
      BY <1>1, <1>5 DEF NeededsOK
    <2> QED BY <2>1, SameCardinality, Zenon
  <1> QED BY <1>6, <1>7, <1>8, <1>9 DEF Dyn!ReadInAnyOrder

LEMMA DynStops ==
    ASSUME DynInv
    PROVE  Dyn!StopsOnUnsupported
  <1>1. dyns \in Seq(Dyn!SectionEntries)
    BY DEF DynInv, Dyn!TypeOK
  <1>2. ASSUME NEW e \in Dyn!SectionEntries
        PROVE  Dyn!Rel(e) \/ Dyn!Lost(e) <=> Dyn!Unsupported(e)
    <2>1. e.tag = "PLTREL" => e.val = 7 \/ e.val = 17
      BY DEF Dyn!SectionEntries
    <2> QED BY <2>1 DEF Dyn!Rel, Dyn!Lost, Dyn!Unsupported
  <1>3. \A j \in DOMAIN dyns : Dyn!Rel(dyns[j]) \/ Dyn!Lost(dyns[j]) <=> Dyn!Unsupported(dyns[j])
    <2>1. \A j \in DOMAIN dyns : dyns[j] \in Dyn!SectionEntries
      BY <1>1
    <2> QED BY <1>2, <2>1
  <1>4. phase = "done" => Dyn!Understood
    <2>1. SUFFICES ASSUME phase = "done"
                   PROVE  Dyn!Understood
      OBVIOUS
    <2>2. /\ rest = 0 /\ number["STRTAB"] # 0 /\ NumberOK(dyns, number, "STRTAB", Len(dyns) + 1)
          /\ \A j \in DOMAIN dyns : ~Dyn!Unsupported(dyns[j])
      BY <2>1 DEF DynInv, Dyn!Numbers
    <2>3. Dyn!Present("STRTAB") # {}
      BY <2>2 DEF NumberOK, Latest, Dyn!Present
    <2> QED BY <1>3, <2>2, <2>3 DEF Dyn!Understood
  <1>5. phase = "aborted" => ~Dyn!Understood /\ neededs = <<>> /\ array["INIT_ARRAY"] = <<>>
    BY <1>1, <1>3, ValueOfWithout DEF DynInv, NothingRead, Arrays, Dyn!Understood
  <1> QED BY <1>4, <1>5 DEF Dyn!StopsOnUnsupported

\* In whatever order the entries of .dynamic stand, ParseDynamic reads the names
\* and the arrays as they were meant, and stops exactly on what it does not
\* support: a size that is not one of entries, relocations without addends, a
\* pointer into no segment, no string table (elf_binary.cc:511-592, 603).
THEOREM DynamicUnderstoodHolds == Spec => []DynamicUnderstood
  <1> DEFINE IInv == part = "dynamic" => DynInv
  <1>1. Init => IInv
    <2>1. Init /\ part = "dynamic" => Dyn!Init
      BY DEF Init
    <2> QED BY <2>1, DynInit
  <1>2. IInv /\ [Next]_vars => IInv'
    <2>1. SUFFICES ASSUME IInv, [Next]_vars, part' = "dynamic"
                   PROVE  DynInv'
      OBVIOUS
    <2>2. part' = part /\ (Dyn!Next \/ UNCHANGED dyn_vars)
      <3>1. CASE Next
        BY <2>1, <3>1 DEF Next, ReadDynamic, ReadSymbols, ReadVersions, ReadCIE, ReadFrames, ReadLdSoConf
      <3>2. CASE UNCHANGED vars
        BY <3>2 DEF vars
      <3> QED BY <2>1, <3>1, <3>2
    <2> QED BY <2>1, <2>2, DynStep, DynStutter
  <1>3. IInv => DynamicUnderstood
    <2>1. DynInv => Dyn!ReadInAnyOrder
      BY DynReads DEF Dyn!ReadInAnyOrder
    <2> QED BY <2>1, DynStops DEF DynamicUnderstood
  <1> QED BY <1>1, <1>2, <1>3, PTL DEF Spec

-----------------------------------------------------------------------------
(***************************************************************************)
(* Concatenations.                                                         *)
(***************************************************************************)
\* g has at k the first k parts, concatenated.
Joins(g, n, V, parts) ==
    g \in [0..n -> Seq(V)] /\ \A k \in 0..n : g[k] = IF k = 0 THEN <<>> ELSE g[k - 1] \o parts[k]

LEMMA FlattenJoins ==
    ASSUME NEW n \in Nat, NEW V, NEW parts \in [1..n -> Seq(V)], NEW g, Joins(g, n, V, parts)
    PROVE  FlattenSeq(parts) = g[n]
  <1>1. Len(parts) = n
    OBVIOUS
  <1>2. g[0] = <<>> /\ \A k \in 1..n : g[k] = g[k - 1] \o parts[k] /\ g[k - 1] \in Seq(V) /\ g[k] \in Seq(V)
    <2>1. 0 \in 0..n /\ \A k \in 1..n : k \in 0..n /\ k - 1 \in 0..n /\ k # 0
      OBVIOUS
    <2> QED BY <2>1 DEF Joins
  <1>3. CASE n = 0
    <2>1. parts = <<>>
      BY <1>3
    <2> QED BY <1>1, <1>2, <1>3, <2>1 DEF FlattenSeq
  <1>4. CASE n # 0
    <2> DEFINE Is(f) == f = [i \in 1..Len(parts) |-> IF i = 1 THEN parts[i] ELSE f[i - 1] \o parts[i]]
               flat == CHOOSE f : Is(f)
               h == [i \in 1..n |-> g[i]]
    <2>1. FlattenSeq(parts) = flat[Len(parts)]
      BY <1>1, <1>4, Zenon DEF FlattenSeq
    <2>2. \A i \in 1..n : h[i] = IF i = 1 THEN parts[i] ELSE h[i - 1] \o parts[i]
      <3>1. SUFFICES ASSUME NEW i \in 1..n
                     PROVE  h[i] = IF i = 1 THEN parts[i] ELSE h[i - 1] \o parts[i]
        OBVIOUS
      <3>2. CASE i = 1
        <4>0. i - 1 = 0
          BY <3>2
        <4>1. g[i] = g[i - 1] \o parts[i] /\ i - 1 = 0
          BY <1>2, <4>0, Zenon
        <4>2. g[i] = <<>> \o parts[i]
          BY <1>2, <4>1, Zenon
        <4>3. parts[i] \in Seq(V)
          OBVIOUS
        <4>4. \A x \in Seq(V) : <<>> \o x = x
          OBVIOUS
        <4>5. h[i] = g[i]
          BY Zenon
        <4> QED BY <3>2, <4>2, <4>3, <4>4, <4>5, Zenon
      <3>3. CASE i # 1
        <4>1. i - 1 \in 1..n
          BY <3>3
        <4> QED BY <1>2, <3>3, <4>1
      <3> QED BY <3>2, <3>3
    <2>3. Is(h)
      BY <1>1, <2>2
    <2>4. Is(flat)
      <3> HIDE DEF Is
      <3> QED BY <2>3
    <2> HIDE DEF flat
    <2>5. \A i \in 1..n : flat[i] = IF i = 1 THEN parts[i] ELSE flat[i - 1] \o parts[i]
      BY <1>1, <2>4
    <2> DEFINE T == {k \in 0..n : k # 0 => flat[k] = g[k]}
    <2>6. 0 \in T
      OBVIOUS
    <2>7. \A m \in 0..n : m \in T /\ m < n => m + 1 \in T
      <3>1. SUFFICES ASSUME NEW m \in 0..n, m # 0 => flat[m] = g[m], m < n
                     PROVE  flat[m + 1] = g[m + 1]
        <4>1. \A m \in 0..n : m < n => m + 1 \in 0..n
          OBVIOUS
        <4> QED BY <4>1, Zenon
      <3>2. m + 1 \in 1..n /\ (m + 1) - 1 = m
        BY <3>1
      <3>3. g[m + 1] = g[m] \o parts[m + 1] /\ parts[m + 1] \in Seq(V)
        BY <1>2, <3>2
      <3>4. CASE m = 0
        <4>1. m + 1 = 1 /\ flat[m + 1] = parts[m + 1]
          BY <2>5, <3>2, <3>4
        <4>2. g[m + 1] = <<>> \o parts[m + 1]
          BY <1>2, <3>3, <3>4, Zenon
        <4>3. \A x \in Seq(V) : <<>> \o x = x
          OBVIOUS
        <4> QED BY <3>3, <4>1, <4>2, <4>3, Zenon
      <3>5. CASE m # 0
        <4>1. m + 1 # 1
          BY <3>5
        <4>2. flat[m + 1] = flat[(m + 1) - 1] \o parts[m + 1]
          BY <2>5, <3>2, <4>1, Zenon
        <4>3. flat[m + 1] = flat[m] \o parts[m + 1]
          BY <3>2, <4>2, Zenon
        <4> QED BY <3>1, <3>3, <3>5, <4>3, Zenon
      <3> QED BY <3>4, <3>5
    <2> HIDE DEF T
    <2>8. 0..n \subseteq T
      BY <2>6, <2>7, IntervalInduction
    <2>9. n \in T
      BY <2>8
    <2> QED BY <1>1, <1>4, <2>1, <2>9 DEF T
  <1> QED BY <1>3, <1>4

LEMMA FlattenType ==
    ASSUME NEW n \in Nat, NEW V, NEW parts \in [1..n -> Seq(V)]
    PROVE  FlattenSeq(parts) \in Seq(V) /\ (n = 0 => FlattenSeq(parts) = <<>>)
  <1>1. Parts(n, V, parts)
    BY DEF Parts
  <1>2. PICK g : Joins(g, n, V, parts)
    <2>1. Joinable(n, V, parts)
      BY <1>1, JoiningExists
    <2> QED BY <2>1, Zenon DEF Joinable, Joins
  <1>3. FlattenSeq(parts) = g[n]
    BY <1>2, FlattenJoins
  <1>4. n \in 0..n
    OBVIOUS
  <1> QED BY <1>2, <1>3, <1>4 DEF Joins

\* One part more in front of n others.
Fronts(n, V, parts, behind) ==
    /\ parts \in [1..(n + 1) -> Seq(V)] /\ behind \in [1..n -> Seq(V)]
    /\ \A k \in 1..n : parts[k + 1] = behind[k]

LEMMA FlattenFront ==
    ASSUME NEW n \in Nat, NEW V, NEW parts, NEW behind, Fronts(n, V, parts, behind)
    PROVE  FlattenSeq(parts) = parts[1] \o FlattenSeq(behind)
  <1>0. /\ parts \in [1..(n + 1) -> Seq(V)] /\ behind \in [1..n -> Seq(V)]
        /\ \A k \in 1..n : parts[k + 1] = behind[k]
    BY DEF Fronts
  <1>1. Parts(n, V, behind)
    BY <1>0 DEF Parts
  <1>2. PICK g : Joins(g, n, V, behind)
    <2>1. Joinable(n, V, behind)
      BY <1>1, JoiningExists
    <2> QED BY <2>1, Zenon DEF Joinable, Joins
  <1>3. \A k \in 0..n : g[k] \in Seq(V)
    BY <1>2 DEF Joins
  <1>4. g[0] = <<>> /\ \A k \in 1..n : g[k] = g[k - 1] \o behind[k]
    <2>1. 0 \in 0..n /\ \A k \in 1..n : k \in 0..n /\ k # 0
      OBVIOUS
    <2> QED BY <1>2, <2>1 DEF Joins
  <1>5. parts[1] \in Seq(V)
    BY <1>0
  <1> DEFINE h == [k \in 0..(n + 1) |-> IF k = 0 THEN <<>> ELSE parts[1] \o g[k - 1]]
  <1>6. h \in [0..(n + 1) -> Seq(V)]
    <2>1. \A k \in 1..(n + 1) : k - 1 \in 0..n
      OBVIOUS
    <2> QED BY <1>3, <1>5, <2>1
  <1>7. h[0] = <<>> /\ \A k \in 1..(n + 1) : h[k] = parts[1] \o g[k - 1]
    <2>1. \A k \in 0..(n + 1) : h[k] = IF k = 0 THEN <<>> ELSE parts[1] \o g[k - 1]
      BY Zenon
    <2>2. 0 \in 0..(n + 1) /\ \A k \in 1..(n + 1) : k \in 0..(n + 1) /\ k # 0
      OBVIOUS
    <2> HIDE DEF h
    <2> QED BY <2>1, <2>2, Zenon
  <1> HIDE DEF h
  <1>8. \A k \in 0..(n + 1) : h[k] = IF k = 0 THEN <<>> ELSE h[k - 1] \o parts[k]
    <2>1. SUFFICES ASSUME NEW k \in 1..(n + 1) PROVE h[k] = h[k - 1] \o parts[k]
      <3>1. \A k \in 0..(n + 1) : k # 0 => k \in 1..(n + 1)
        OBVIOUS
      <3> QED BY <1>7, <3>1, Zenon
    <2>2. CASE k = 1
      <3>0. k - 1 = 0
        BY <2>2
      <3>1. h[k] = parts[k] \o g[k - 1] /\ k - 1 = 0
        BY <1>7, <2>2, <3>0, Zenon
      <3>2. h[k] = parts[k] \o <<>> /\ h[k - 1] = <<>>
        BY <1>4, <1>7, <3>1, Zenon
      <3>3. parts[k] \in Seq(V)
        BY <1>0
      <3>4. \A x \in Seq(V) : x \o <<>> = <<>> \o x
        OBVIOUS
      <3> QED BY <3>2, <3>3, <3>4, Zenon
    <2>3. CASE k # 1
      <3>1. /\ k - 1 \in 1..n /\ (k - 1) - 1 \in 0..n /\ k - 1 \in 1..(n + 1) /\ (k - 1) + 1 = k
        BY <2>3
      <3>2. h[k] = parts[1] \o g[k - 1] /\ h[k - 1] = parts[1] \o g[(k - 1) - 1]
        BY <1>7, <3>1
      <3>3. g[k - 1] = g[(k - 1) - 1] \o behind[k - 1] /\ behind[k - 1] = parts[k]
        BY <1>0, <1>4, <3>1
      <3>4. g[(k - 1) - 1] \in Seq(V) /\ behind[k - 1] \in Seq(V)
        BY <1>0, <1>3, <3>1
      <3>5. \A x, y, z \in Seq(V) : x \o (y \o z) = (x \o y) \o z
        OBVIOUS
      <3>6. parts[1] \o (g[(k - 1) - 1] \o parts[k]) = (parts[1] \o g[(k - 1) - 1]) \o parts[k]
        BY <1>5, <3>3, <3>4, <3>5, Zenon
      <3> QED BY <3>2, <3>3, <3>6, Zenon
    <2> QED BY <2>2, <2>3
  <1>9. FlattenSeq(parts) = h[n + 1] /\ FlattenSeq(behind) = g[n]
    <2>1. Joins(h, n + 1, V, parts)
      BY <1>6, <1>8 DEF Joins
    <2>a. parts \in [1..(n + 1) -> Seq(V)] /\ behind \in [1..n -> Seq(V)]
      BY <1>0
    <2>2. n + 1 \in Nat
      OBVIOUS
    <2>3. FlattenSeq(parts) = h[n + 1]
      BY <2>1, <2>2, <2>a, FlattenJoins
    <2>4. FlattenSeq(behind) = g[n]
      BY <1>2, <2>a, FlattenJoins
    <2> QED BY <2>3, <2>4
  <1>10. n + 1 \in 1..(n + 1) /\ (n + 1) - 1 = n
    OBVIOUS
  <1> QED BY <1>7, <1>9, <1>10

-----------------------------------------------------------------------------
(***************************************************************************)
(* What is left to read of ld.so.conf.                                     *)
(***************************************************************************)
\* FlattenSeq is the same operator wherever SequencesExt is instantiated.
LEMMA SameFlatten == \A s : Dir!FlattenSeq(s) = FlattenSeq(s)
  BY Zenon DEF Dir!FlattenSeq, FlattenSeq

Dirs(files) == [files -> Seq(STRING)]

SystemOK(sys) ==
    /\ \A f \in DOMAIN sys.files : sys.files[f] \in Seq(Dir!Statements(sys))
    /\ \A p \in DOMAIN sys.glob : sys.glob[p] \in Seq(STRING)

\* A sequence that is not empty has an element in front of the others.
LEMMA TailOf ==
    ASSUME NEW V, NEW s \in Seq(V), s # <<>>
    PROVE  /\ s[1] \in V /\ Head(s) = s[1] /\ Tail(s) \in Seq(V)
           /\ Len(s) \in Nat /\ Len(s) >= 1 /\ Len(Tail(s)) = Len(s) - 1
           /\ \A k \in 1..(Len(s) - 1) : Tail(s)[k] = s[k + 1]
  OBVIOUS

\* What the directories of a list of names are, one name at a time.
NamesOK(files, of, names) ==
    /\ Dir!OfNames(of, names) \in Seq(STRING)
    /\ names = <<>> => Dir!OfNames(of, names) = <<>>
    /\ names # <<>> =>
          Dir!OfNames(of, names) =
              (IF names[1] \in files THEN of[names[1]] ELSE <<>>) \o Dir!OfNames(of, Tail(names))

LEMMA NamesAreOK == \A files : \A of \in Dirs(files) : \A names \in Seq(STRING) : NamesOK(files, of, names)
  <1> TAKE files
  <1> TAKE of \in Dirs(files)
  <1> TAKE names \in Seq(STRING)
  <1> DEFINE part_(ns) == [k \in DOMAIN ns |-> IF ns[k] \in DOMAIN of THEN of[ns[k]] ELSE <<>>]
  <1>1. \A ns : Dir!OfNames(of, ns) = FlattenSeq(part_(ns))
    <2>1. \A ns : Dir!OfNames(of, ns) = Dir!FlattenSeq(part_(ns))
      BY Zenon DEF Dir!OfNames
    <2> HIDE DEF part_
    <2> QED BY <2>1, SameFlatten, Zenon
  <1>2. DOMAIN of = files /\ \A f \in files : of[f] \in Seq(STRING)
    BY DEF Dirs
  <1>3. \A ns \in Seq(STRING) : Len(ns) \in Nat /\ part_(ns) \in [1..Len(ns) -> Seq(STRING)]
    <2>1. SUFFICES ASSUME NEW ns \in Seq(STRING)
                   PROVE  Len(ns) \in Nat /\ part_(ns) \in [1..Len(ns) -> Seq(STRING)]
      OBVIOUS
    <2>2. DOMAIN ns = 1..Len(ns) /\ Len(ns) \in Nat /\ <<>> \in Seq(STRING)
      OBVIOUS
    <2>3. \A k \in DOMAIN ns : (IF ns[k] \in DOMAIN of THEN of[ns[k]] ELSE <<>>) \in Seq(STRING)
      BY <1>2, <2>2, Zenon
    <2> QED BY <2>2, <2>3
  <1>4. \A ns \in Seq(STRING) : \A k \in 1..Len(ns) :
           part_(ns)[k] = IF ns[k] \in files THEN of[ns[k]] ELSE <<>>
    <2>1. \A ns \in Seq(STRING) : DOMAIN ns = 1..Len(ns)
      OBVIOUS
    <2> QED BY <1>2, <2>1, Zenon
  <1> HIDE DEF part_
  <1>5. CASE names = <<>>
    <2>1. Len(names) = 0
      BY <1>5
    <2>2. part_(names) \in [1..0 -> Seq(STRING)]
      BY <1>3, <2>1
    <2>3. FlattenSeq(part_(names)) \in Seq(STRING) /\ FlattenSeq(part_(names)) = <<>>
      BY <2>2, FlattenType
    <2> QED BY <1>1, <1>5, <2>3, Zenon DEF NamesOK
  <1>6. CASE names # <<>>
    <2> DEFINE t == Tail(names)
               n == Len(t)
    <2>1. /\ t \in Seq(STRING) /\ n \in Nat /\ Len(names) = n + 1
          /\ \A k \in 1..n : t[k] = names[k + 1]
      BY <1>6, TailOf
    <2> HIDE DEF t, n
    <2>2. /\ part_(names) \in [1..(n + 1) -> Seq(STRING)] /\ part_(t) \in [1..n -> Seq(STRING)]
          /\ part_(names)[1] = IF names[1] \in files THEN of[names[1]] ELSE <<>>
      <3>1. 1 \in 1..(n + 1)
        BY <2>1
      <3>2. part_(t) \in [1..n -> Seq(STRING)]
        BY <1>3, <2>1 DEF n
      <3>3. part_(names) \in [1..(n + 1) -> Seq(STRING)]
        BY <1>3, <2>1
      <3> QED BY <1>4, <2>1, <3>1, <3>2, <3>3
    <2>3. \A k \in 1..n : part_(names)[k + 1] = part_(t)[k]
      <3>1. SUFFICES ASSUME NEW k \in 1..n PROVE part_(names)[k + 1] = part_(t)[k]
        OBVIOUS
      <3>2. k + 1 \in 1..Len(names) /\ k \in 1..Len(t)
        BY <2>1 DEF n
      <3>3. part_(names)[k + 1] = IF names[k + 1] \in files THEN of[names[k + 1]] ELSE <<>>
        BY <1>4, <3>2
      <3>4. part_(t)[k] = IF t[k] \in files THEN of[t[k]] ELSE <<>>
        BY <1>4, <2>1, <3>2
      <3> QED BY <2>1, <3>3, <3>4, Zenon
    <2>4. FlattenSeq(part_(names)) = part_(names)[1] \o FlattenSeq(part_(t))
      <3>1. Fronts(n, STRING, part_(names), part_(t))
        BY <2>2, <2>3, Zenon DEF Fronts
      <3> QED BY <2>1, <3>1, FlattenFront
    <2>5. FlattenSeq(part_(names)) \in Seq(STRING)
      <3>1. n + 1 \in Nat
        BY <2>1
      <3> QED BY <2>2, <3>1, FlattenType
    <2>6. FlattenSeq(part_(names)) =
             (IF names[1] \in files THEN of[names[1]] ELSE <<>>) \o FlattenSeq(part_(t))
      BY <2>2, <2>4, Zenon
    <2> QED BY <1>1, <1>6, <2>5, <2>6, Zenon DEF NamesOK, t
  <1> QED BY <1>5, <1>6, Zenon

LEMMA OfNamesType ==
    \A files : \A of \in Dirs(files) : \A names \in Seq(STRING) : Dir!OfNames(of, names) \in Seq(STRING)
  BY NamesAreOK, Zenon DEF NamesOK

LEMMA NoNames == \A files : \A of \in Dirs(files) : Dir!OfNames(of, <<>>) = <<>>
  <1>1. \A names : names = <<>> => names \in Seq(STRING)
    OBVIOUS
  <1> QED BY <1>1, NamesAreOK, Zenon DEF NamesOK

LEMMA OfStatementIs ==
    ASSUME NEW sys, SystemOK(sys), NEW of \in Dirs(DOMAIN sys.files), NEW s \in Dir!Statements(sys)
    PROVE  Dir!OfStatement(of, sys.glob, s) \in Seq(STRING)
  <1>1. /\ s[1] \in {"directory", "include", "comment"} /\ s[2] \in STRING
        /\ s[1] = "include" => s[2] \in DOMAIN sys.glob
    BY DEF Dir!Statements
  <1>2. CASE s[1] = "directory"
    <2>1. Dir!OfStatement(of, sys.glob, s) = <<s[2]>>
      BY <1>2 DEF Dir!OfStatement
    <2> QED BY <1>1, <2>1
  <1>3. CASE s[1] = "comment"
    <2>1. Dir!OfStatement(of, sys.glob, s) = <<>>
      BY <1>3 DEF Dir!OfStatement
    <2> QED BY <2>1
  <1>4. CASE s[1] = "include"
    <2>1. Dir!OfStatement(of, sys.glob, s) = Dir!OfNames(of, sys.glob[s[2]])
      BY <1>4 DEF Dir!OfStatement
    <2>2. sys.glob[s[2]] \in Seq(STRING)
      BY <1>1, <1>4 DEF SystemOK
    <2> QED BY <2>1, <2>2, OfNamesType
  <1> QED BY <1>1, <1>2, <1>3, <1>4

LEMMA OfTextIs ==
    ASSUME NEW sys, SystemOK(sys), NEW of \in Dirs(DOMAIN sys.files), NEW text \in Seq(Dir!Statements(sys))
    PROVE  /\ Dir!OfText(of, sys.glob, text) \in Seq(STRING)
           /\ text = <<>> => Dir!OfText(of, sys.glob, text) = <<>>
           /\ text # <<>> => Dir!OfText(of, sys.glob, text) =
                 Dir!OfStatement(of, sys.glob, text[1]) \o Dir!OfText(of, sys.glob, Tail(text))
  <1> DEFINE V == Dir!Statements(sys)
             of_(s) == Dir!OfStatement(of, sys.glob, s)
             part_(ss) == [k \in DOMAIN ss |-> of_(ss[k])]
  <1>1. \A ss : Dir!OfText(of, sys.glob, ss) = FlattenSeq(part_(ss))
    <2>1. \A ss : Dir!OfText(of, sys.glob, ss) = Dir!FlattenSeq(part_(ss))
      BY Zenon DEF Dir!OfText
    <2> HIDE DEF part_
    <2> QED BY <2>1, SameFlatten, Zenon
  <1>2. \A s \in V : of_(s) \in Seq(STRING)
    BY OfStatementIs
  <1> HIDE DEF V, of_
  <1>3. \A ss \in Seq(V) : Len(ss) \in Nat /\ part_(ss) \in [1..Len(ss) -> Seq(STRING)]
    <2>1. SUFFICES ASSUME NEW ss \in Seq(V)
                   PROVE  Len(ss) \in Nat /\ part_(ss) \in [1..Len(ss) -> Seq(STRING)]
      OBVIOUS
    <2>2. DOMAIN ss = 1..Len(ss) /\ Len(ss) \in Nat /\ \A k \in 1..Len(ss) : ss[k] \in V
      OBVIOUS
    <2> QED BY <1>2, <2>2
  <1>4. \A ss \in Seq(V) : \A k \in 1..Len(ss) : part_(ss)[k] = of_(ss[k])
    <2>1. \A ss \in Seq(V) : DOMAIN ss = 1..Len(ss)
      OBVIOUS
    <2> QED BY <2>1, Zenon
  <1> HIDE DEF part_
  <1>0. text \in Seq(V)
    BY DEF V
  <1>5. CASE text = <<>>
    <2>1. Len(text) = 0
      BY <1>5
    <2>2. part_(text) \in [1..0 -> Seq(STRING)]
      BY <1>0, <1>3, <2>1
    <2>3. FlattenSeq(part_(text)) \in Seq(STRING) /\ FlattenSeq(part_(text)) = <<>>
      BY <2>2, FlattenType
    <2> QED BY <1>1, <1>5, <2>3
  <1>6. CASE text # <<>>
    <2> DEFINE t == Tail(text)
               n == Len(t)
    <2>1. /\ t \in Seq(V) /\ n \in Nat /\ Len(text) = n + 1
          /\ \A k \in 1..n : t[k] = text[k + 1]
      BY <1>0, <1>6, TailOf
    <2> HIDE DEF t, n
    <2>2. /\ part_(text) \in [1..(n + 1) -> Seq(STRING)] /\ part_(t) \in [1..n -> Seq(STRING)]
          /\ part_(text)[1] = of_(text[1])
      <3>1. 1 \in 1..(n + 1)
        BY <2>1
      <3>2. part_(t) \in [1..n -> Seq(STRING)]
        BY <1>3, <2>1 DEF n
      <3>3. part_(text) \in [1..(n + 1) -> Seq(STRING)]
        BY <1>0, <1>3, <2>1
      <3> QED BY <1>0, <1>4, <2>1, <3>1, <3>2, <3>3
    <2>3. \A k \in 1..n : part_(text)[k + 1] = part_(t)[k]
      <3>1. SUFFICES ASSUME NEW k \in 1..n PROVE part_(text)[k + 1] = part_(t)[k]
        OBVIOUS
      <3>2. k + 1 \in 1..Len(text) /\ k \in 1..Len(t)
        BY <2>1 DEF n
      <3>3. part_(text)[k + 1] = of_(text[k + 1]) /\ part_(t)[k] = of_(t[k])
        BY <1>0, <1>4, <2>1, <3>2
      <3> QED BY <2>1, <3>3, Zenon
    <2>4. FlattenSeq(part_(text)) = part_(text)[1] \o FlattenSeq(part_(t))
      <3>1. Fronts(n, STRING, part_(text), part_(t))
        BY <2>2, <2>3, Zenon DEF Fronts
      <3> QED BY <2>1, <3>1, FlattenFront
    <2>5. FlattenSeq(part_(text)) \in Seq(STRING)
      <3>1. n + 1 \in Nat
        BY <2>1
      <3> QED BY <2>2, <3>1, FlattenType
    <2>6. FlattenSeq(part_(text)) = of_(text[1]) \o FlattenSeq(part_(t))
      BY <2>2, <2>4, Zenon
    <2> QED BY <1>1, <1>6, <2>5, <2>6, Zenon DEF t, of_
  <1> QED BY <1>5, <1>6

\* E is what each file expands to, for every number of files that can be open.
IsExpansion(E, sys) ==
    /\ E \in [0..MaxOpen -> Dirs(DOMAIN sys.files)]
    /\ \A f \in DOMAIN sys.files : E[0][f] = <<>>
    /\ \A d \in 1..MaxOpen : \A f \in DOMAIN sys.files :
          E[d][f] = Dir!OfText(E[d - 1], sys.glob, sys.files[f])

LEMMA MaxOpenIs == MaxOpen \in Nat /\ MaxOpen # 0
  BY ReadersAssumption DEF Dir!LdSoConfAssumption

LEMMA ExpandedIs ==
    ASSUME NEW sys, SystemOK(sys)
    PROVE  IsExpansion(Dir!Expanded(sys), sys)
  <1> DEFINE files == DOMAIN sys.files
             S == Dirs(files)
             none == [f \in files |-> <<>>]
             more(of) == [f \in files |-> Dir!OfText(of, sys.glob, sys.files[f])]
             Step == [d \in 1..MaxOpen |-> [of \in S |-> more(of)]]
             Is(g) == g = [d \in 0..MaxOpen |-> [f \in files |->
                              IF d = 0 THEN <<>> ELSE Dir!OfText(g[d - 1], sys.glob, sys.files[f])]]
             E == CHOOSE g : Is(g)
  <1>1. Dir!Expanded(sys) = E
    BY Zenon DEF Dir!Expanded
  <1>2. \A of \in S : more(of) \in S
    <2>1. SUFFICES ASSUME NEW of \in S PROVE more(of) \in S
      OBVIOUS
    <2>2. \A f \in files : Dir!OfText(of, sys.glob, sys.files[f]) \in Seq(STRING)
      BY OfTextIs DEF SystemOK
    <2> QED BY <2>2 DEF Dirs
  <1>3. none \in S
    BY DEF Dirs
  <1>4. \A of \in S : \A f \in files : more(of)[f] = Dir!OfText(of, sys.glob, sys.files[f])
    BY Zenon
  <1>5. \A f \in files : none[f] = <<>>
    BY Zenon
  <1> HIDE DEF S, none, more
  <1>6. Step \in [1..MaxOpen -> [S -> S]] /\ \A d \in 1..MaxOpen : \A of \in S : Step[d][of] = more(of)
    BY <1>2
  <1> HIDE DEF Step
  <1>7. PICK g \in [0..MaxOpen -> S] : \A d \in 0..MaxOpen : g[d] = Recurs(g, none, Step, d)
    <2>1. MaxOpen \in Nat
      BY MaxOpenIs
    <2> QED BY <1>3, <1>6, <2>1, RecursionExists, SMTT(60)
  <1>8. \A d \in 1..MaxOpen : d \in 0..MaxOpen /\ d - 1 \in 0..MaxOpen /\ d # 0
    BY MaxOpenIs
  <1>9. 0 \in 0..MaxOpen /\ \A d \in 0..MaxOpen : d # 0 => d \in 1..MaxOpen
    BY MaxOpenIs
  <1>10. g[0] = none /\ \A d \in 1..MaxOpen : g[d] = more(g[d - 1])
    <2>1. g[0] = none
      BY <1>7, <1>9 DEF Recurs
    <2>2. ASSUME NEW d \in 1..MaxOpen
          PROVE  g[d] = more(g[d - 1])
      <3>1. g[d] = Step[d][g[d - 1]] /\ g[d - 1] \in S
        BY <1>7, <1>8 DEF Recurs
      <3> QED BY <1>6, <3>1
    <2> QED BY <2>1, <2>2
  <1>11. Is(g)
    <2> DEFINE at_(d) == [f \in files |-> IF d = 0 THEN <<>> ELSE Dir!OfText(g[d - 1], sys.glob, sys.files[f])]
    <2>1. ASSUME NEW d \in 0..MaxOpen
          PROVE  g[d] = at_(d)
      <3>1. CASE d = 0
        <4>1. at_(d) = [f \in files |-> <<>>]
          BY <3>1
        <4> QED BY <1>10, <3>1, <4>1 DEF none
      <3>2. CASE d # 0
        <4>1. at_(d) = [f \in files |-> Dir!OfText(g[d - 1], sys.glob, sys.files[f])]
          BY <3>2
        <4>2. g[d] = more(g[d - 1])
          BY <1>9, <1>10, <3>2
        <4> QED BY <4>1, <4>2, Zenon DEF more
      <3> QED BY <3>1, <3>2
    <2>2. g = [d \in 0..MaxOpen |-> g[d]]
      BY <1>7
    <2> HIDE DEF at_
    <2>3. g = [d \in 0..MaxOpen |-> at_(d)]
      BY <2>1, <2>2
    <2> QED BY <2>3, Zenon DEF at_
  <1>12. Is(E)
    <2> HIDE DEF Is
    <2> QED BY <1>11
  <1> HIDE DEF E
  <1>13. \A d \in 0..MaxOpen : \A f \in files :
            E[d][f] = IF d = 0 THEN <<>> ELSE Dir!OfText(E[d - 1], sys.glob, sys.files[f])
    <2> DEFINE at_(d) == [f \in files |-> IF d = 0 THEN <<>> ELSE Dir!OfText(E[d - 1], sys.glob, sys.files[f])]
    <2>1. E = [d \in 0..MaxOpen |-> at_(d)]
      BY <1>12, Zenon
    <2> HIDE DEF at_
    <2>2. \A d \in 0..MaxOpen : E[d] = at_(d)
      BY <2>1
    <2>3. \A d : \A f \in files :
             at_(d)[f] = IF d = 0 THEN <<>> ELSE Dir!OfText(E[d - 1], sys.glob, sys.files[f])
      BY Zenon DEF at_
    <2> QED BY <2>2, <2>3, Zenon
  <1>14. \A d \in 0..MaxOpen : DOMAIN E[d] = files /\ E[d] = [f \in files |-> E[d][f]]
    BY <1>12
  <1>15. DOMAIN E = 0..MaxOpen /\ E = [d \in 0..MaxOpen |-> E[d]]
    BY <1>12
  <1> DEFINE T == {d \in 0..MaxOpen : E[d] \in S}
  <1>16. 0 \in T
    <2>1. \A f \in files : E[0][f] = <<>>
      BY <1>9, <1>13
    <2>2. E[0] = [f \in files |-> E[0][f]]
      BY <1>9, <1>14
    <2>3. E[0] = none
      BY <2>1, <2>2 DEF none
    <2> QED BY <1>3, <1>9, <2>3
  <1>17. \A m \in 0..MaxOpen : m \in T /\ m < MaxOpen => m + 1 \in T
    <2>1. SUFFICES ASSUME NEW m \in 0..MaxOpen, E[m] \in S, m < MaxOpen
                   PROVE  m + 1 \in 0..MaxOpen /\ E[m + 1] \in S
      OBVIOUS
    <2>2. m + 1 \in 0..MaxOpen /\ m + 1 # 0 /\ (m + 1) - 1 = m
      BY <2>1, MaxOpenIs
    <2>3. \A f \in files : E[m + 1][f] = Dir!OfText(E[m], sys.glob, sys.files[f])
      BY <1>13, <2>2
    <2>4. E[m + 1] = [f \in files |-> E[m + 1][f]]
      BY <1>14, <2>2
    <2>5. E[m + 1] = more(E[m])
      BY <2>3, <2>4 DEF more
    <2> QED BY <1>2, <2>1, <2>2, <2>5
  <1> HIDE DEF T
  <1>18. 0..MaxOpen \subseteq T
    BY <1>16, <1>17, IntervalInduction, MaxOpenIs
  <1>19. E \in [0..MaxOpen -> S]
    BY <1>15, <1>18 DEF T
  <1>20. \A f \in files : E[0][f] = <<>>
    BY <1>9, <1>13
  <1>21. \A d \in 1..MaxOpen : \A f \in files : E[d][f] = Dir!OfText(E[d - 1], sys.glob, sys.files[f])
    BY <1>8, <1>13, Zenon
  <1> QED BY <1>1, <1>19, <1>20, <1>21, Zenon DEF IsExpansion, S

-----------------------------------------------------------------------------
\* A call of read_ldsoconf_dfs.
Frames(sys) == [rest : Seq(Dir!Statements(sys)), globbuf : Seq(STRING)]

\* What a call will still add, if `of' says what each file it names adds.
FrameDirs(of, sys, f) == Dir!OfNames(of, f.globbuf) \o Dir!OfText(of, sys.glob, f.rest)

FrameParts(E, sys, st) ==
    [p \in 1..Len(st) |-> FrameDirs(E[MaxOpen - (Len(st) - p) - 1], sys, st[p])]

Remaining(E, sys, st) == FlattenSeq(FrameParts(E, sys, st))

LEMMA FrameDirsIs ==
    ASSUME NEW sys, SystemOK(sys), NEW of \in Dirs(DOMAIN sys.files), NEW f \in Frames(sys)
    PROVE  /\ FrameDirs(of, sys, f) \in Seq(STRING)
           /\ Dir!OfNames(of, f.globbuf) \in Seq(STRING)
           /\ Dir!OfText(of, sys.glob, f.rest) \in Seq(STRING)
  <1>1. f.globbuf \in Seq(STRING) /\ f.rest \in Seq(Dir!Statements(sys))
    BY DEF Frames
  <1>2. Dir!OfNames(of, f.globbuf) \in Seq(STRING) /\ Dir!OfText(of, sys.glob, f.rest) \in Seq(STRING)
    BY <1>1, OfNamesType, OfTextIs
  <1> QED BY <1>2 DEF FrameDirs

\* What is left for a stack of calls, one call at a time.
RemainingOK(E, sys, st) ==
    /\ Remaining(E, sys, st) \in Seq(STRING)
    /\ st = <<>> => Remaining(E, sys, st) = <<>>
    /\ st # <<>> =>
          Remaining(E, sys, st) =
              FrameDirs(E[MaxOpen - Len(st)], sys, st[1]) \o Remaining(E, sys, Tail(st))

LEMMA RemainingIs ==
    ASSUME NEW sys, SystemOK(sys), NEW E, IsExpansion(E, sys),
           NEW st \in Seq(Frames(sys)), Len(st) <= MaxOpen
    PROVE  RemainingOK(E, sys, st)
  <1>1. \A d \in 0..MaxOpen : E[d] \in Dirs(DOMAIN sys.files)
    BY DEF IsExpansion
  <1>2. ASSUME NEW s \in Seq(Frames(sys)), Len(s) <= MaxOpen
        PROVE  /\ Len(s) \in Nat /\ FrameParts(E, sys, s) \in [1..Len(s) -> Seq(STRING)]
               /\ \A p \in 1..Len(s) :
                     FrameParts(E, sys, s)[p] = FrameDirs(E[MaxOpen - (Len(s) - p) - 1], sys, s[p])
    <2>1. Len(s) \in Nat /\ \A p \in 1..Len(s) : s[p] \in Frames(sys)
      OBVIOUS
    <2>2. \A p \in 1..Len(s) : MaxOpen - (Len(s) - p) - 1 \in 0..MaxOpen
      BY <1>2, <2>1, MaxOpenIs
    <2>3. \A p \in 1..Len(s) : FrameDirs(E[MaxOpen - (Len(s) - p) - 1], sys, s[p]) \in Seq(STRING)
      BY <1>1, <2>1, <2>2, FrameDirsIs
    <2> QED BY <2>1, <2>3 DEF FrameParts
  <1>3. FrameParts(E, sys, st) \in [1..Len(st) -> Seq(STRING)] /\ Len(st) \in Nat
    BY <1>2
  <1>4. Remaining(E, sys, st) \in Seq(STRING) /\ (Len(st) = 0 => Remaining(E, sys, st) = <<>>)
    BY <1>3, FlattenType DEF Remaining
  <1>5. ASSUME st # <<>>
        PROVE  Remaining(E, sys, st) =
                   FrameDirs(E[MaxOpen - Len(st)], sys, st[1]) \o Remaining(E, sys, Tail(st))
    <2> DEFINE t == Tail(st)
               n == Len(t)
    <2>1. /\ t \in Seq(Frames(sys)) /\ n \in Nat /\ Len(st) = n + 1 /\ \A k \in 1..n : t[k] = st[k + 1]
      BY <1>5, TailOf
    <2> HIDE DEF t, n
    <2>2. Len(t) <= MaxOpen /\ Len(t) = n
      BY <2>1, MaxOpenIs DEF n
    <2>3. /\ FrameParts(E, sys, t) \in [1..n -> Seq(STRING)]
          /\ \A p \in 1..n : FrameParts(E, sys, t)[p] = FrameDirs(E[MaxOpen - (n - p) - 1], sys, t[p])
      BY <1>2, <2>1, <2>2
    <2>4. \A p \in 1..(n + 1) :
             FrameParts(E, sys, st)[p] = FrameDirs(E[MaxOpen - ((n + 1) - p) - 1], sys, st[p])
      BY <1>2, <2>1
    <2>5. \A k \in 1..n : FrameParts(E, sys, st)[k + 1] = FrameParts(E, sys, t)[k]
      <3>1. SUFFICES ASSUME NEW k \in 1..n PROVE FrameParts(E, sys, st)[k + 1] = FrameParts(E, sys, t)[k]
        OBVIOUS
      <3>2. k + 1 \in 1..(n + 1) /\ MaxOpen - ((n + 1) - (k + 1)) - 1 = MaxOpen - (n - k) - 1
        BY <2>1, MaxOpenIs
      <3>3. FrameParts(E, sys, st)[k + 1] = FrameDirs(E[MaxOpen - (n - k) - 1], sys, st[k + 1])
        BY <2>4, <3>2
      <3> QED BY <2>1, <2>3, <3>3, Zenon
    <2>6. FrameParts(E, sys, st)[1] = FrameDirs(E[MaxOpen - Len(st)], sys, st[1])
      <3>1. 1 \in 1..(n + 1) /\ MaxOpen - ((n + 1) - 1) - 1 = MaxOpen - Len(st)
        BY <2>1, MaxOpenIs
      <3> QED BY <2>4, <3>1
    <2>7. Fronts(n, STRING, FrameParts(E, sys, st), FrameParts(E, sys, t))
      BY <1>3, <2>1, <2>3, <2>5 DEF Fronts
    <2>8. Remaining(E, sys, st) = FrameParts(E, sys, st)[1] \o Remaining(E, sys, t)
      BY <2>1, <2>7, FlattenFront DEF Remaining
    <2> QED BY <2>6, <2>8, Zenon DEF t
  <1>6. st = <<>> => Len(st) = 0
    OBVIOUS
  <1> QED BY <1>4, <1>5, <1>6, Zenon DEF RemainingOK

\* What the whole text adds.
Total(E, sys) == IF Dir!Root \in DOMAIN sys.files THEN E[MaxOpen][Dir!Root] ELSE <<>>

\* What has been added and what is left to add make up the expanded text.
DirOK(E, sys, st, dirs) ==
    /\ st \in Seq(Frames(sys)) /\ Len(st) <= MaxOpen
    /\ dirs \in Seq(STRING)
    /\ dirs \o Remaining(E, sys, st) = Total(E, sys)

DirInv == system \in Systems /\ DirOK(Dir!Expanded(system), system, stack, res)

LEMMA SystemsOK == \A sys \in Systems : SystemOK(sys)
  BY ReadersAssumption DEF Dir!LdSoConfAssumption, SystemOK

LEMMA ConcatIn == \A x, y \in Seq(STRING) : x \o y \in Seq(STRING)
  OBVIOUS

LEMMA Associative == \A x, y, z \in Seq(STRING) : x \o (y \o z) = (x \o y) \o z
  OBVIOUS

LEMMA WithEmpty ==
    ASSUME NEW V, NEW x \in Seq(V)
    PROVE  <<>> \o x = x /\ x \o <<>> = x
  OBVIOUS

\* A call on top of others.
LEMMA PushIs ==
    ASSUME NEW V, NEW f \in V, NEW below \in Seq(V)
    PROVE  LET st == <<f>> \o below
           IN  /\ st \in Seq(V) /\ st # <<>> /\ Len(st) = Len(below) + 1 /\ st[1] = f /\ Tail(st) = below
  <1>1. DOMAIN below = 1..Len(below) /\ Len(below) \in Nat
    OBVIOUS
  <1> DEFINE st == <<f>> \o below
  <1>2. /\ st \in Seq(V) /\ Len(st) = Len(below) + 1 /\ st[1] = f
        /\ \A k \in 1..Len(below) : st[k + 1] = below[k]
    BY <1>1
  <1>3. st # <<>>
    BY <1>1, <1>2
  <1>4. /\ Tail(st) \in Seq(V) /\ Len(Tail(st)) = Len(below)
        /\ \A k \in 1..Len(below) : Tail(st)[k] = below[k]
    <2> HIDE DEF st
    <2>1. /\ Tail(st) \in Seq(V) /\ Len(Tail(st)) = Len(st) - 1
          /\ \A k \in 1..(Len(st) - 1) : Tail(st)[k] = st[k + 1]
      BY <1>2, <1>3, TailOf
    <2>2. Len(st) - 1 = Len(below)
      BY <1>1, <1>2
    <2> QED BY <1>2, <2>1, <2>2
  <1>5. Tail(st) = below
    <2> HIDE DEF st
    <2> DEFINE u == Tail(st)
    <2> HIDE DEF u
    <2>1. u \in Seq(V) /\ Len(u) = Len(below) /\ \A k \in 1..Len(below) : u[k] = below[k]
      BY <1>4 DEF u
    <2>2. u = below
      BY <2>1, SeqEqual
    <2> QED BY <2>2 DEF u
  <1> QED BY <1>2, <1>3, <1>5

PushedOK(E, sys, f, below) ==
    /\ <<f>> \o below \in Seq(Frames(sys)) /\ Len(<<f>> \o below) <= MaxOpen
    /\ Remaining(E, sys, <<f>> \o below) =
          FrameDirs(E[MaxOpen - (Len(below) + 1)], sys, f) \o Remaining(E, sys, below)

LEMMA RemainingPush ==
    ASSUME NEW sys, SystemOK(sys), NEW E, IsExpansion(E, sys),
           NEW f \in Frames(sys), NEW below \in Seq(Frames(sys)), Len(below) + 1 <= MaxOpen
    PROVE  PushedOK(E, sys, f, below)
  <1> DEFINE st == <<f>> \o below
  <1>1. /\ st \in Seq(Frames(sys)) /\ st # <<>> /\ Len(st) = Len(below) + 1 /\ st[1] = f /\ Tail(st) = below
    BY PushIs, Zenon
  <1> HIDE DEF st
  <1>2. Len(st) <= MaxOpen
    BY <1>1
  <1>3. Remaining(E, sys, st) = FrameDirs(E[MaxOpen - Len(st)], sys, st[1]) \o Remaining(E, sys, Tail(st))
    <2>1. RemainingOK(E, sys, st)
      BY <1>1, <1>2, RemainingIs
    <2> QED BY <1>1, <2>1, Zenon DEF RemainingOK
  <1> QED BY <1>1, <1>2, <1>3, Zenon DEF PushedOK, st

\* The call on top of the stack.
LEMMA TopIs ==
    ASSUME NEW sys, SystemOK(sys), NEW E, IsExpansion(E, sys), NEW st, NEW dirs,
           DirOK(E, sys, st, dirs), st # <<>>
    PROVE  /\ st[1] \in Frames(sys) /\ Tail(st) \in Seq(Frames(sys))
           /\ Len(st) \in Nat /\ Len(Tail(st)) + 1 = Len(st) /\ Len(Tail(st)) + 1 <= MaxOpen
           /\ E[MaxOpen - Len(st)] \in Dirs(DOMAIN sys.files)
           /\ Remaining(E, sys, Tail(st)) \in Seq(STRING)
           /\ FrameDirs(E[MaxOpen - Len(st)], sys, st[1]) \in Seq(STRING)
           /\ dirs \o (FrameDirs(E[MaxOpen - Len(st)], sys, st[1]) \o Remaining(E, sys, Tail(st)))
                 = Total(E, sys)
  <1>1. st \in Seq(Frames(sys)) /\ Len(st) <= MaxOpen
    BY DEF DirOK
  <1>2. /\ st[1] \in Frames(sys) /\ Tail(st) \in Seq(Frames(sys))
        /\ Len(st) \in Nat /\ Len(st) >= 1 /\ Len(Tail(st)) = Len(st) - 1
    BY <1>1, TailOf
  <1>3. Len(Tail(st)) + 1 = Len(st) /\ Len(Tail(st)) <= MaxOpen /\ MaxOpen - Len(st) \in 0..MaxOpen
    BY <1>1, <1>2, MaxOpenIs
  <1>4. E[MaxOpen - Len(st)] \in Dirs(DOMAIN sys.files)
    BY <1>3 DEF IsExpansion
  <1>5. Remaining(E, sys, Tail(st)) \in Seq(STRING)
    <2>1. RemainingOK(E, sys, Tail(st))
      BY <1>2, <1>3, RemainingIs
    <2> QED BY <2>1, Zenon DEF RemainingOK
  <1>6. FrameDirs(E[MaxOpen - Len(st)], sys, st[1]) \in Seq(STRING)
    BY <1>2, <1>4, FrameDirsIs
  <1>7. Remaining(E, sys, st) = FrameDirs(E[MaxOpen - Len(st)], sys, st[1]) \o Remaining(E, sys, Tail(st))
    <2>1. RemainingOK(E, sys, st)
      BY <1>1, RemainingIs
    <2> QED BY <2>1, Zenon DEF RemainingOK
  <1>8. dirs \o Remaining(E, sys, st) = Total(E, sys)
    BY DEF DirOK
  <1> QED BY <1>1, <1>2, <1>3, <1>4, <1>5, <1>6, <1>7, <1>8, Zenon

\* A call goes on behind a statement that adds x at once and the names g later.
LEMMA ContinueOK ==
    ASSUME NEW sys, SystemOK(sys), NEW E, IsExpansion(E, sys), NEW st, NEW dirs,
           DirOK(E, sys, st, dirs), st # <<>>, st[1].globbuf = <<>>, st[1].rest # <<>>,
           NEW x \in Seq(STRING), NEW g \in Seq(STRING),
           \A of \in Dirs(DOMAIN sys.files) :
               Dir!OfStatement(of, sys.glob, st[1].rest[1]) = x \o Dir!OfNames(of, g)
    PROVE  DirOK(E, sys, <<[rest |-> Tail(st[1].rest), globbuf |-> g]>> \o Tail(st), dirs \o x)
  <1> DEFINE top == st[1]
             new == [rest |-> Tail(top.rest), globbuf |-> g]
             of == E[MaxOpen - Len(st)]
             R == Remaining(E, sys, Tail(st))
             text == top.rest
             t == Dir!OfText(of, sys.glob, Tail(text))
             v == Dir!OfNames(of, g)
             st2 == <<new>> \o Tail(st)
  <1>1. /\ top \in Frames(sys) /\ Tail(st) \in Seq(Frames(sys))
        /\ Len(Tail(st)) + 1 = Len(st) /\ Len(Tail(st)) + 1 <= MaxOpen
        /\ of \in Dirs(DOMAIN sys.files) /\ R \in Seq(STRING)
        /\ FrameDirs(of, sys, top) \in Seq(STRING)
        /\ dirs \o (FrameDirs(of, sys, top) \o R) = Total(E, sys)
    BY TopIs
  <1>2. dirs \in Seq(STRING)
    BY DEF DirOK
  <1>3. text \in Seq(Dir!Statements(sys)) /\ text # <<>>
    BY <1>1 DEF Frames
  <1>4. Tail(text) \in Seq(Dir!Statements(sys))
    BY <1>3, TailOf
  <1>5. new \in Frames(sys)
    BY <1>4 DEF Frames
  <1>6. /\ Remaining(E, sys, st2) = FrameDirs(of, sys, new) \o R
        /\ st2 \in Seq(Frames(sys)) /\ Len(st2) <= MaxOpen
    <2> DEFINE below == Tail(st)
    <2>1. below \in Seq(Frames(sys)) /\ Len(below) + 1 <= MaxOpen /\ Len(below) + 1 = Len(st)
      BY <1>1
    <2> HIDE DEF new, below
    <2>2. /\ <<new>> \o below \in Seq(Frames(sys)) /\ Len(<<new>> \o below) <= MaxOpen
          /\ Remaining(E, sys, <<new>> \o below) =
                FrameDirs(E[MaxOpen - (Len(below) + 1)], sys, new) \o Remaining(E, sys, below)
      <3>1. PushedOK(E, sys, new, below)
        BY <1>5, <2>1, RemainingPush
      <3> QED BY <3>1, Zenon DEF PushedOK
    <2> QED BY <2>1, <2>2, Zenon DEF below
  <1>7. t \in Seq(STRING) /\ v \in Seq(STRING)
    BY <1>1, <1>4, OfTextIs, OfNamesType
  <1>8. FrameDirs(of, sys, new) = v \o t
    <2>1. new.rest = Tail(text) /\ new.globbuf = g
      OBVIOUS
    <2> HIDE DEF new, text
    <2> QED BY <2>1, Zenon DEF FrameDirs
  <1>9. FrameDirs(of, sys, top) = (x \o v) \o t
    <2>1. <<>> \in Seq(STRING)
      OBVIOUS
    <2>2. Dir!OfNames(of, top.globbuf) = <<>>
      <3> HIDE DEF of
      <3>1. Dir!OfNames(of, <<>>) = <<>>
        BY <1>1, NoNames, Zenon
      <3> QED BY <3>1
    <2>3. Dir!OfText(of, sys.glob, text) = Dir!OfStatement(of, sys.glob, text[1]) \o t
      BY <1>1, <1>3, OfTextIs
    <2>4. Dir!OfStatement(of, sys.glob, text[1]) = x \o v
      BY <1>1
    <2>5. FrameDirs(of, sys, top) = <<>> \o ((x \o v) \o t)
      BY <2>2, <2>3, <2>4, Zenon DEF FrameDirs
    <2> HIDE DEF t, v
    <2>6. (x \o v) \o t \in Seq(STRING)
      <3>1. x \o v \in Seq(STRING)
        BY <1>7
      <3> QED BY <1>7, <3>1, ConcatIn, Zenon
    <2> QED BY <2>5, <2>6, WithEmpty
  <1> HIDE DEF top, new, of, R, text, t, v, st2
  <1>10. (dirs \o x) \o ((v \o t) \o R) = dirs \o (((x \o v) \o t) \o R)
    <2>1. v \o t \in Seq(STRING) /\ (v \o t) \o R \in Seq(STRING)
      <3>1. v \o t \in Seq(STRING)
        BY <1>7, ConcatIn, Zenon
      <3>2. R \in Seq(STRING)
        BY <1>1, Zenon
      <3> QED BY <3>1, <3>2, ConcatIn, Zenon
    <2>2. (dirs \o x) \o ((v \o t) \o R) = dirs \o (x \o ((v \o t) \o R))
      BY <1>2, <2>1, Associative, Zenon
    <2>3. x \o ((v \o t) \o R) = (x \o (v \o t)) \o R
      <3>1. R \in Seq(STRING) /\ x \in Seq(STRING)
        BY <1>1, Zenon
      <3> QED BY <2>1, <3>1, Associative, Zenon
    <2>4. x \o (v \o t) = (x \o v) \o t
      BY <1>7, Associative, Zenon
    <2> QED BY <2>2, <2>3, <2>4, Zenon
  <1>11. dirs \o x \in Seq(STRING)
    BY <1>2
  <1>12. (dirs \o x) \o Remaining(E, sys, st2) = Total(E, sys)
    BY <1>1, <1>6, <1>8, <1>9, <1>10, Zenon
  <1>13. DirOK(E, sys, st2, dirs \o x)
    BY <1>6, <1>11, <1>12, Zenon DEF DirOK
  <1> QED BY <1>13 DEF st2, new, top, text

\* The innermost call goes on to the next name, whose file it reads if it can.
LEMMA DescendOK ==
    ASSUME NEW sys, SystemOK(sys), NEW E, IsExpansion(E, sys), NEW st, NEW dirs,
           DirOK(E, sys, st, dirs), st # <<>>, st[1].globbuf # <<>>,
           NEW call,
           IF st[1].globbuf[1] \in DOMAIN sys.files /\ Len(st) < MaxOpen
           THEN call = <<[rest |-> sys.files[st[1].globbuf[1]], globbuf |-> <<>>]>>
           ELSE call = <<>>
    PROVE  DirOK(E, sys, call \o <<[st[1] EXCEPT !.globbuf = Tail(@)]>> \o Tail(st), dirs)
  <1> DEFINE top == st[1]
             new == [top EXCEPT !.globbuf = Tail(@)]
             of == E[MaxOpen - Len(st)]
             below == Tail(st)
             R == Remaining(E, sys, below)
             names == top.globbuf
             first == IF names[1] \in DOMAIN sys.files THEN of[names[1]] ELSE <<>>
             v == Dir!OfNames(of, Tail(names))
             t == Dir!OfText(of, sys.glob, top.rest)
             st2 == <<new>> \o below
  <1>1. /\ top \in Frames(sys) /\ below \in Seq(Frames(sys))
        /\ Len(st) \in Nat /\ Len(below) + 1 = Len(st) /\ Len(below) + 1 <= MaxOpen
        /\ of \in Dirs(DOMAIN sys.files) /\ R \in Seq(STRING)
        /\ dirs \o (FrameDirs(of, sys, top) \o R) = Total(E, sys)
    BY TopIs
  <1>2. dirs \in Seq(STRING)
    BY DEF DirOK
  <1>3. names \in Seq(STRING) /\ names # <<>> /\ top.rest \in Seq(Dir!Statements(sys))
    BY <1>1 DEF Frames
  <1>4. Tail(names) \in Seq(STRING)
    BY <1>3, TailOf
  <1>5. new \in Frames(sys) /\ new.rest = top.rest /\ new.globbuf = Tail(names)
    <2>1. top = [rest |-> top.rest, globbuf |-> names]
      BY <1>1 DEF Frames
    <2>2. new = [rest |-> top.rest, globbuf |-> Tail(names)]
      BY <2>1
    <2> QED BY <1>3, <1>4, <2>2 DEF Frames
  <1>6. t \in Seq(STRING) /\ v \in Seq(STRING)
    <2> HIDE DEF of, names
    <2> QED BY <1>1, <1>3, <1>4, OfTextIs, OfNamesType
  <1>7. first \in Seq(STRING)
    <2> HIDE DEF of, names
    <2>1. names[1] \in DOMAIN sys.files => of[names[1]] \in Seq(STRING)
      BY <1>1 DEF Dirs
    <2>2. <<>> \in Seq(STRING)
      OBVIOUS
    <2> QED BY <2>1, <2>2, Zenon
  <1>8. FrameDirs(of, sys, top) = (first \o v) \o t
    <2>1. Dir!OfNames(of, names) = first \o v
      <3> HIDE DEF of, names
      <3>1. NamesOK(DOMAIN sys.files, of, names)
        BY <1>1, <1>3, NamesAreOK, Zenon
      <3> QED BY <1>3, <3>1, Zenon DEF NamesOK
    <2> QED BY <2>1, Zenon DEF FrameDirs
  <1>9. FrameDirs(of, sys, new) = v \o t
    <2> HIDE DEF new, names
    <2> QED BY <1>5, Zenon DEF FrameDirs
  <1> DEFINE old == call \o <<new>> \o below
  <1>a. old = call \o <<[st[1] EXCEPT !.globbuf = Tail(@)]>> \o Tail(st)
    OBVIOUS
  <1>b. st[1].globbuf = names
    OBVIOUS
  <1> HIDE DEF top, new, of, below, names, t, v, R, st2
  <1>10. /\ st2 \in Seq(Frames(sys)) /\ Len(st2) <= MaxOpen
         /\ Remaining(E, sys, st2) = FrameDirs(of, sys, new) \o R
    <2>1. /\ st2 \in Seq(Frames(sys)) /\ Len(st2) <= MaxOpen
          /\ Remaining(E, sys, st2) = FrameDirs(E[MaxOpen - (Len(below) + 1)], sys, new) \o R
      <3>1. PushedOK(E, sys, new, below)
        BY <1>1, <1>5, RemainingPush
      <3> QED BY <3>1, Zenon DEF PushedOK, st2, R
    <2> QED BY <1>1, <2>1, Zenon DEF of
  <1>11. st2 # <<>> /\ Len(st2) = Len(st)
    BY <1>1, <1>5, PushIs DEF st2
  <1> HIDE DEF first
  \* What the file of the first name adds comes from the call, if there is one.
  <1>12. /\ call \o st2 \in Seq(Frames(sys)) /\ Len(call \o st2) <= MaxOpen
         /\ Remaining(E, sys, call \o st2) = first \o Remaining(E, sys, st2)
    <2>1. CASE names[1] \in DOMAIN sys.files /\ Len(st) < MaxOpen
      <3> DEFINE f == [rest |-> sys.files[names[1]], globbuf |-> <<>>]
                 of2 == E[MaxOpen - (Len(st2) + 1)]
      <3>1. call = <<f>>
        BY <1>b, <2>1
      <3>2. sys.files[names[1]] \in Seq(Dir!Statements(sys))
        BY <2>1 DEF SystemOK
      <3>3. f \in Frames(sys)
        BY <3>2 DEF Frames
      <3>4. Len(st2) + 1 <= MaxOpen /\ MaxOpen - (Len(st2) + 1) \in 0..MaxOpen
            /\ MaxOpen - Len(st) \in 1..MaxOpen /\ (MaxOpen - Len(st)) - 1 = MaxOpen - (Len(st2) + 1)
        BY <1>1, <1>11, <2>1, MaxOpenIs
      <3>5. of2 \in Dirs(DOMAIN sys.files)
        BY <3>4 DEF IsExpansion
      <3>6. first = Dir!OfText(of2, sys.glob, sys.files[names[1]])
        <4>1. first = E[MaxOpen - Len(st)][names[1]]
          BY <2>1 DEF first, of
        <4>2. E[MaxOpen - Len(st)][names[1]] =
                 Dir!OfText(E[(MaxOpen - Len(st)) - 1], sys.glob, sys.files[names[1]])
          BY <2>1, <3>4 DEF IsExpansion
        <4> QED BY <3>4, <4>1, <4>2, Zenon
      <3>7. FrameDirs(of2, sys, f) = first
        <4>1. f.globbuf = <<>> /\ f.rest = sys.files[names[1]]
          OBVIOUS
        <4> HIDE DEF f, of2
        <4>2. Dir!OfNames(of2, <<>>) = <<>>
          BY <3>5, NoNames, Zenon
        <4>3. FrameDirs(of2, sys, f) = <<>> \o first
          BY <3>6, <4>1, <4>2, Zenon DEF FrameDirs
        <4> QED BY <1>7, <4>3, WithEmpty
      <3> HIDE DEF f
      <3>8. /\ <<f>> \o st2 \in Seq(Frames(sys)) /\ Len(<<f>> \o st2) <= MaxOpen
            /\ Remaining(E, sys, <<f>> \o st2) = FrameDirs(of2, sys, f) \o Remaining(E, sys, st2)
        <4>1. PushedOK(E, sys, f, st2)
          BY <1>10, <3>3, <3>4, RemainingPush
        <4> QED BY <4>1, Zenon DEF PushedOK
      <3> QED BY <3>1, <3>7, <3>8, Zenon
    <2>2. CASE ~(names[1] \in DOMAIN sys.files /\ Len(st) < MaxOpen)
      <3>1. call = <<>>
        BY <1>b, <2>2
      <3>2. call \o st2 = st2
        BY <1>10, <3>1
      <3>3. first = <<>>
        <4>1. CASE names[1] \notin DOMAIN sys.files
          BY <4>1 DEF first
        <4>2. CASE names[1] \in DOMAIN sys.files
          <5>1. ~(Len(st) < MaxOpen)
            BY <2>2, <4>2
          <5>2. MaxOpen - Len(st) = 0
            BY <1>1, <5>1, MaxOpenIs
          <5>3. first = E[0][names[1]]
            BY <4>2, <5>2 DEF first, of
          <5> QED BY <4>2, <5>3 DEF IsExpansion
        <4> QED BY <4>1, <4>2
      <3>4. Remaining(E, sys, st2) \in Seq(STRING)
        <4>1. RemainingOK(E, sys, st2)
          BY <1>10, RemainingIs
        <4> QED BY <4>1, Zenon DEF RemainingOK
      <3>5. first \o Remaining(E, sys, st2) = Remaining(E, sys, st2)
        BY <3>3, <3>4, WithEmpty
      <3> QED BY <1>10, <3>2, <3>5, Zenon
    <2> QED BY <2>1, <2>2
  <1>13. old = call \o st2
    <2>1. <<new>> \in Seq(Frames(sys))
      BY <1>5
    <2>2. call \in Seq(Frames(sys))
      <3>1. CASE names[1] \in DOMAIN sys.files /\ Len(st) < MaxOpen
        <4>1. sys.files[names[1]] \in Seq(Dir!Statements(sys))
          BY <3>1 DEF SystemOK
        <4>2. [rest |-> sys.files[names[1]], globbuf |-> <<>>] \in Frames(sys)
          BY <4>1 DEF Frames
        <4>3. call = <<[rest |-> sys.files[names[1]], globbuf |-> <<>>]>>
          BY <1>b, <3>1
        <4> QED BY <4>2, <4>3
      <3>2. CASE ~(names[1] \in DOMAIN sys.files /\ Len(st) < MaxOpen)
        <4>1. call = <<>>
          BY <1>b, <3>2
        <4> QED BY <4>1
      <3> QED BY <3>1, <3>2
    <2> DEFINE F == Frames(sys)
               x == <<new>>
    <2> HIDE DEF F, x
    <2>3. x \in Seq(F) /\ call \in Seq(F) /\ below \in Seq(F)
      BY <1>1, <2>1, <2>2 DEF F, x
    <2>4. (call \o x) \o below = call \o (x \o below)
      <3>1. \A y, z, w \in Seq(F) : (y \o z) \o w = y \o (z \o w)
        OBVIOUS
      <3> HIDE DEF old
      <3> QED BY <2>3, <3>1, Zenon
    <2> QED BY <2>4, Zenon DEF x, st2
  <1>14. dirs \o (first \o ((v \o t) \o R)) = dirs \o (((first \o v) \o t) \o R)
    <2>1. v \o t \in Seq(STRING)
      BY <1>6
    <2>2. first \o ((v \o t) \o R) = (first \o (v \o t)) \o R
      BY <1>1, <1>7, <2>1, Associative, Zenon
    <2>3. first \o (v \o t) = (first \o v) \o t
      BY <1>6, <1>7, Associative, Zenon
    <2> QED BY <2>2, <2>3, Zenon
  <1>15. dirs \o Remaining(E, sys, old) = Total(E, sys)
    BY <1>1, <1>8, <1>9, <1>10, <1>12, <1>13, <1>14, Zenon
  <1>16. DirOK(E, sys, old, dirs)
    BY <1>2, <1>12, <1>13, <1>15, Zenon DEF DirOK
  <1> QED BY <1>a, <1>16, Zenon

\* A call that has read everything returns.
LEMMA ReturnOK ==
    ASSUME NEW sys, SystemOK(sys), NEW E, IsExpansion(E, sys), NEW st, NEW dirs,
           DirOK(E, sys, st, dirs), st # <<>>, st[1].globbuf = <<>>, st[1].rest = <<>>
    PROVE  DirOK(E, sys, Tail(st), dirs)
  <1> DEFINE of == E[MaxOpen - Len(st)]
             R == Remaining(E, sys, Tail(st))
             top == st[1]
  <1>1. /\ Tail(st) \in Seq(Frames(sys)) /\ top \in Frames(sys) /\ Len(Tail(st)) \in Nat
        /\ Len(Tail(st)) + 1 <= MaxOpen /\ of \in Dirs(DOMAIN sys.files)
        /\ R \in Seq(STRING) /\ dirs \o (FrameDirs(of, sys, top) \o R) = Total(E, sys)
    BY TopIs
  <1>2. dirs \in Seq(STRING) /\ top.globbuf = <<>> /\ top.rest = <<>>
        /\ top.rest \in Seq(Dir!Statements(sys))
    BY <1>1 DEF DirOK, Frames
  <1> HIDE DEF of, top
  <1>3. Dir!OfNames(of, <<>>) = <<>>
    BY <1>1, NoNames, Zenon
  <1>4. Dir!OfText(of, sys.glob, top.rest) = <<>>
    BY <1>1, <1>2, OfTextIs
  <1>5. FrameDirs(of, sys, top) = <<>> \o <<>>
    BY <1>2, <1>3, <1>4, Zenon DEF FrameDirs
  <1>6. FrameDirs(of, sys, top) = <<>>
    BY <1>5
  <1>7. FrameDirs(of, sys, top) \o R = R
    BY <1>1, <1>6, WithEmpty
  <1>8. Len(Tail(st)) <= MaxOpen
    BY <1>1, MaxOpenIs
  <1> QED BY <1>1, <1>2, <1>7, <1>8, Zenon DEF DirOK

LEMMA DirInit ==
    ASSUME Dir!Init
    PROVE  DirInv
  <1> DEFINE E == Dir!Expanded(system)
  <1>1. system \in Systems /\ SystemOK(system) /\ res = <<>> /\ stack = Dir!Call(Dir!Root, 0)
    BY SystemsOK DEF Dir!Init
  <1>2. IsExpansion(E, system)
    BY <1>1, ExpandedIs
  <1> HIDE DEF E
  <1>3. 0 < MaxOpen /\ MaxOpen \in 0..MaxOpen /\ 1 <= MaxOpen /\ MaxOpen \in 1..MaxOpen
    BY MaxOpenIs
  <1>4. CASE Dir!Root \in DOMAIN system.files
    <2> DEFINE f == [rest |-> system.files[Dir!Root], globbuf |-> <<>>]
               none == <<>>
               of == E[MaxOpen - 1]
               all == Dir!OfText(of, system.glob, f.rest)
    <2>1. stack = <<f>>
      BY <1>1, <1>3, <1>4 DEF Dir!Call, Dir!CanOpen
    <2>2. system.files[Dir!Root] \in Seq(Dir!Statements(system))
      BY <1>1, <1>4 DEF SystemOK
    <2>3. f \in Frames(system) /\ f.globbuf = <<>> /\ f.rest = system.files[Dir!Root]
      BY <2>2 DEF Frames
    <2>4. of \in Dirs(DOMAIN system.files)
      <3>1. MaxOpen - 1 \in 0..MaxOpen
        BY MaxOpenIs
      <3> QED BY <1>2, <3>1 DEF IsExpansion
    <2>5. none \in Seq(Frames(system)) /\ Len(none) = 0 /\ Len(none) + 1 <= MaxOpen
      BY <1>3
    <2>6. Remaining(E, system, none) = <<>>
      <3>1. none = <<>> /\ Len(none) <= MaxOpen
        BY <2>5, MaxOpenIs
      <3> HIDE DEF none
      <3>2. RemainingOK(E, system, none)
        BY <1>1, <1>2, <2>5, <3>1, RemainingIs
      <3> QED BY <3>1, <3>2, Zenon DEF RemainingOK
    <2> HIDE DEF f, none
    <2>7. /\ <<f>> \o none \in Seq(Frames(system)) /\ Len(<<f>> \o none) <= MaxOpen
          /\ Remaining(E, system, <<f>> \o none) =
                FrameDirs(E[MaxOpen - (Len(none) + 1)], system, f) \o Remaining(E, system, none)
      <3>1. PushedOK(E, system, f, none)
        BY <1>1, <1>2, <2>3, <2>5, RemainingPush
      <3> QED BY <3>1, Zenon DEF PushedOK
    <2>8. <<f>> \o none = stack
      BY <2>1, <2>3 DEF none
    <2>9. all = E[MaxOpen][Dir!Root]
      BY <1>2, <1>3, <1>4, <2>3 DEF IsExpansion
    <2>10. all \in Seq(STRING)
      <3> HIDE DEF of
      <3> QED BY <1>1, <2>2, <2>3, <2>4, OfTextIs
    <2>11. FrameDirs(of, system, f) = <<>> \o all
      <3> HIDE DEF of
      <3>1. Dir!OfNames(of, <<>>) = <<>>
        BY <2>4, NoNames, Zenon
      <3> QED BY <2>3, <3>1, Zenon DEF FrameDirs
    <2>12. MaxOpen - (Len(none) + 1) = MaxOpen - 1
      BY <2>5, MaxOpenIs
    <2> HIDE DEF all
    <2>13. Remaining(E, system, stack) = (<<>> \o all) \o <<>>
      BY <2>6, <2>7, <2>8, <2>11, <2>12, Zenon DEF of
    <2>14. <<>> \o Remaining(E, system, stack) = all /\ <<>> \in Seq(STRING)
      BY <2>10, <2>13
    <2>15. Total(E, system) = all
      BY <1>4, <2>9 DEF Total
    <2> QED BY <1>1, <2>7, <2>8, <2>14, <2>15, Zenon DEF DirInv, DirOK, E
  <1>5. CASE Dir!Root \notin DOMAIN system.files
    <2>1. stack = <<>>
      BY <1>1, <1>5 DEF Dir!Call, Dir!CanOpen
    <2>2. stack \in Seq(Frames(system)) /\ Len(stack) <= MaxOpen
      BY <2>1, MaxOpenIs
    <2>3. Remaining(E, system, stack) = <<>>
      <3>1. RemainingOK(E, system, stack)
        BY <1>1, <1>2, <2>2, RemainingIs
      <3> QED BY <2>1, <3>1, Zenon DEF RemainingOK
    <2>4. <<>> \o Remaining(E, system, stack) = Total(E, system) /\ <<>> \in Seq(STRING)
      BY <1>5, <2>3 DEF Total
    <2> QED BY <1>1, <2>2, <2>4, Zenon DEF DirInv, DirOK, E
  <1> QED BY <1>4, <1>5

LEMMA DirStep ==
    ASSUME DirInv, Dir!Next
    PROVE  DirInv'
  <1> DEFINE E == Dir!Expanded(system)
             top == stack[1]
             s == top.rest[1]
             below == Tail(stack)
  <1>1. system \in Systems /\ SystemOK(system) /\ DirOK(E, system, stack, res)
    BY SystemsOK DEF DirInv
  <1>2. IsExpansion(E, system)
    BY <1>1, ExpandedIs
  <1> HIDE DEF E
  <1>3. SUFFICES system' = system /\ DirOK(E, system, stack', res')
    BY <1>1, Zenon DEF DirInv, E
  <1>4. stack # <<>> /\ system' = system
    BY DEF Dir!Next, Dir!Comment, Dir!Directory, Dir!Include, Dir!Descend, Dir!Return, Dir!Reading
  <1>5. top \in Frames(system)
    BY <1>1, <1>2, <1>4, TopIs, Zenon
  <1>6. top.rest \in Seq(Dir!Statements(system)) /\ top.globbuf \in Seq(STRING)
    BY <1>5 DEF Frames
  <1>7. res \in Seq(STRING)
    BY <1>1 DEF DirOK
  \* The three kinds of statements.
  <1>8. ASSUME NEW kind, Dir!Reading(kind)
        PROVE  /\ top.globbuf = <<>> /\ top.rest # <<>> /\ s[1] = kind /\ Dir!Argument = s[2]
               /\ s \in Dir!Statements(system)
               /\ \A g : Dir!Continue(g) => stack' = <<[rest |-> Tail(top.rest), globbuf |-> g]>> \o below
    <2>1. top.globbuf = <<>> /\ top.rest # <<>> /\ Head(top.rest)[1] = kind
      BY <1>8, Zenon DEF Dir!Reading, Dir!Top
    <2>2. Head(top.rest) = s /\ s \in Dir!Statements(system)
      <3> HIDE DEF top
      <3> QED BY <1>6, <2>1, TailOf
    <2>3. Dir!Argument = s[2]
      BY <2>2, Zenon DEF Dir!Argument, Dir!Top
    <2>4. \A g : Dir!Continue(g) => stack' = <<[rest |-> Tail(top.rest), globbuf |-> g]>> \o below
      BY Zenon DEF Dir!Continue, Dir!Top
    <2> QED BY <2>1, <2>2, <2>3, <2>4, Zenon
  <1>9. ASSUME NEW kind, Dir!Reading(kind), NEW x \in Seq(STRING), NEW g \in Seq(STRING), Dir!Continue(g),
               \A of \in Dirs(DOMAIN system.files) :
                  Dir!OfStatement(of, system.glob, s) = x \o Dir!OfNames(of, g)
        PROVE  DirOK(E, system, stack', res \o x)
    <2>1. /\ top.globbuf = <<>> /\ top.rest # <<>>
          /\ stack' = <<[rest |-> Tail(top.rest), globbuf |-> g]>> \o below
      BY <1>8, <1>9, Zenon
    <2>2. DirOK(E, system, <<[rest |-> Tail(top.rest), globbuf |-> g]>> \o below, res \o x)
      BY <1>1, <1>2, <1>4, <1>9, <2>1, ContinueOK, Zenon
    <2> QED BY <2>1, <2>2, Zenon
  <1> DEFINE none == <<>>
  <1>10. none \in Seq(STRING) /\ none = <<>>
    OBVIOUS
  <1>11. \A of \in Dirs(DOMAIN system.files) : Dir!OfNames(of, none) = none
    BY NoNames, Zenon
  <1>12. res \o none = res
    BY <1>7, WithEmpty
  <1> HIDE DEF top, s, below, none
  <1>13. CASE Dir!Comment
    <2>1. Dir!Reading("comment") /\ Dir!Continue(none) /\ res' = res
      BY <1>10, <1>13, Zenon DEF Dir!Comment
    <2>2. s[1] = "comment"
      BY <1>8, <2>1, Zenon
    <2>3. \A of : Dir!OfStatement(of, system.glob, s) = none
      BY <1>10, <2>2 DEF Dir!OfStatement
    <2>4. none \o none = none
      BY <1>10
    <2>5. \A of \in Dirs(DOMAIN system.files) :
             Dir!OfStatement(of, system.glob, s) = none \o Dir!OfNames(of, none)
      BY <1>11, <2>3, <2>4, Zenon
    <2> QED BY <1>4, <1>9, <1>10, <1>12, <2>1, <2>5, Zenon
  <1>14. CASE Dir!Directory
    <2> DEFINE x == <<s[2]>>
    <2>1. Dir!Reading("directory") /\ Dir!Continue(none) /\ res' = Append(res, Dir!Argument)
      BY <1>10, <1>14, Zenon DEF Dir!Directory
    <2>2. s[1] = "directory" /\ Dir!Argument = s[2] /\ s \in Dir!Statements(system)
      BY <1>8, <2>1, Zenon
    <2>3. x \in Seq(STRING)
      BY <2>2 DEF Dir!Statements
    <2>4. \A of : Dir!OfStatement(of, system.glob, s) = x
      BY <2>2 DEF Dir!OfStatement
    <2>5. x \o none = x /\ Append(res, s[2]) = res \o x
      <3>1. s[2] \in STRING
        BY <2>2 DEF Dir!Statements
      <3> QED BY <1>7, <1>10, <3>1
    <2>6. \A of \in Dirs(DOMAIN system.files) :
             Dir!OfStatement(of, system.glob, s) = x \o Dir!OfNames(of, none)
      BY <1>11, <2>4, <2>5, Zenon
    <2>7. DirOK(E, system, stack', res \o x)
      BY <1>9, <1>10, <2>1, <2>3, <2>6, Zenon
    <2> QED BY <1>4, <2>1, <2>2, <2>5, <2>7, Zenon
  <1>15. CASE Dir!Include
    <2> DEFINE g == system.glob[s[2]]
    <2>1. Dir!Reading("include") /\ Dir!Continue(system.glob[Dir!Argument]) /\ res' = res
      BY <1>15, Zenon DEF Dir!Include
    <2>2. s[1] = "include" /\ Dir!Argument = s[2] /\ s \in Dir!Statements(system)
      BY <1>8, <2>1, Zenon
    <2>3. g \in Seq(STRING) /\ Dir!Continue(g)
      BY <1>1, <2>1, <2>2 DEF Dir!Statements, SystemOK
    <2>4. \A of : Dir!OfStatement(of, system.glob, s) = Dir!OfNames(of, g)
      BY <2>2 DEF Dir!OfStatement
    <2> HIDE DEF g
    <2>5. \A of \in Dirs(DOMAIN system.files) :
             Dir!OfStatement(of, system.glob, s) = none \o Dir!OfNames(of, g)
      <3>1. \A of \in Dirs(DOMAIN system.files) : Dir!OfNames(of, g) \in Seq(STRING)
        BY <2>3, OfNamesType, Zenon
      <3>2. \A y \in Seq(STRING) : none \o y = y
        BY <1>10
      <3> QED BY <2>4, <3>1, <3>2, Zenon
    <2> QED BY <1>4, <1>9, <1>10, <1>12, <2>1, <2>3, <2>5, Zenon
  <1>16. CASE Dir!Descend
    <2> DEFINE call == Dir!Call(Head(top.globbuf), Len(stack))
    <2>1. /\ top.globbuf # <<>> /\ res' = res
          /\ stack' = call \o <<[top EXCEPT !.globbuf = Tail(@)]>> \o below
      BY <1>16 DEF Dir!Descend, Dir!Top, Dir!Rest, top, below
    <2>2. Head(top.globbuf) = top.globbuf[1]
      BY <1>6, <2>1, TailOf
    <2>3. IF top.globbuf[1] \in DOMAIN system.files /\ Len(stack) < MaxOpen
          THEN call = <<[rest |-> system.files[top.globbuf[1]], globbuf |-> <<>>]>>
          ELSE call = <<>>
      BY <2>2 DEF Dir!Call, Dir!CanOpen
    <2> HIDE DEF call
    <2>4. DirOK(E, system, call \o <<[top EXCEPT !.globbuf = Tail(@)]>> \o below, res)
      BY <1>1, <1>2, <1>4, <2>1, <2>3, DescendOK, Zenon DEF top, below
    <2> QED BY <1>4, <2>1, <2>4, Zenon
  <1>17. CASE Dir!Return
    <2>1. top.globbuf = <<>> /\ top.rest = <<>> /\ stack' = below /\ res' = res
      BY <1>17, Zenon DEF Dir!Return, Dir!Top, top, below
    <2>2. DirOK(E, system, below, res)
      BY <1>1, <1>2, <1>4, <2>1, ReturnOK, Zenon DEF top, below
    <2> QED BY <1>4, <2>1, <2>2, Zenon
  <1> QED BY <1>13, <1>14, <1>15, <1>16, <1>17, Zenon DEF Dir!Next

\* read_ldsoconf returns the directories in the order of the text with its
\* includes expanded, also when files include each other, are missing or are
\* too many to be open at once (ldsoconf.cc:24-49).
THEOREM DirectoriesInOrderHolds == Spec => []DirectoriesInOrder
  <1> DEFINE IInv == part = "ldsoconf" => DirInv
  <1>1. Init => IInv
    <2>1. Init /\ part = "ldsoconf" => Dir!Init
      BY DEF Init
    <2> QED BY <2>1, DirInit
  <1>2. IInv /\ [Next]_vars => IInv'
    <2>1. SUFFICES ASSUME IInv, [Next]_vars, part' = "ldsoconf"
                   PROVE  DirInv'
      OBVIOUS
    <2>2. part' = part /\ (Dir!Next \/ UNCHANGED dir_vars)
      <3>1. CASE Next
        BY <2>1, <3>1 DEF Next, ReadDynamic, ReadSymbols, ReadVersions, ReadCIE, ReadFrames, ReadLdSoConf
      <3>2. CASE UNCHANGED vars
        BY <3>2 DEF vars
      <3> QED BY <2>1, <3>1, <3>2
    <2>3. CASE UNCHANGED dir_vars
      BY <2>1, <2>2, <2>3, Zenon DEF DirInv, dir_vars
    <2> QED BY <2>1, <2>2, <2>3, DirStep
  <1>3. IInv => DirectoriesInOrder
    <2>1. ASSUME DirInv, stack = <<>>
          PROVE  res = IF Dir!Root \in DOMAIN system.files
                       THEN Dir!Expanded(system)[MaxOpen][Dir!Root] ELSE <<>>
      <3> DEFINE E == Dir!Expanded(system)
      <3>1. /\ SystemOK(system) /\ stack \in Seq(Frames(system)) /\ Len(stack) <= MaxOpen
            /\ res \in Seq(STRING) /\ res \o Remaining(E, system, stack) = Total(E, system)
        BY <2>1, SystemsOK, Zenon DEF DirInv, DirOK
      <3>2. IsExpansion(E, system)
        BY <3>1, ExpandedIs
      <3> HIDE DEF E
      <3>3. Remaining(E, system, stack) = <<>>
        <4>1. RemainingOK(E, system, stack)
          BY <3>1, <3>2, RemainingIs
        <4> QED BY <2>1, <4>1, Zenon DEF RemainingOK
      <3>4. res = Total(E, system)
        BY <3>1, <3>3, WithEmpty
      <3> QED BY <3>4, Zenon DEF Total, E
    <2> QED BY <2>1, Zenon DEF DirectoriesInOrder, Dir!OrderOfTheText
  <1> QED BY <1>1, <1>2, <1>3, PTL DEF Spec

=============================================================================
