---------------------------- MODULE VerneedTable -----------------------------
(***************************************************************************)
(* The bytes of the version tables.  VersionBuilder (EmitVersym,           *)
(* EmitVerneed) writes .gnu.version and .gnu.version_r, two chained lists  *)
(* of records linked by byte distances; ELFBinary::GetVersion follows such *)
(* lists, its own or a linker's, .gnu.version_d included.  Memory is a     *)
(* function from byte addresses to the records that start there.           *)
(* VersionBuilder!GetVersion says what the walk is to find.                *)
(***************************************************************************)
EXTENDS VersionBuilder, FiniteSets

CONSTANTS
    MaxAdds,       \* at most so many symbols are given a version before Emit
    Inputs         \* files of other linkers: the fields of EmptyFile below, with what the
                   \* records in mem say, as sets, in needs and defs

Sizeof == 16       \* sizeof(Elf_Verneed) = sizeof(Elf_Vernaux)

NoFile == "no file"

VARIABLES
    vb,            \* the VersionBuilder
    wanted,        \* soname and version of each symbol added
    file,          \* the file written or read, a record as in Inputs
    pos,           \* ftell(fp) in .gnu.version_r
    left, current, left_versions,   \* what the two loops of EmitVerneed have not written
    k,             \* the symbol whose version is looked for
    at,            \* [vn, i, vna, j] or [vd, i]: where the walk is
    soname, version,  \* the locals of the walk of .gnu.version_d
    found,         \* the answers
    pc

vars == <<vb, wanted, file, pos, left, current, left_versions, k, at, soname, version, found, pc>>

emitting == <<pos, left, current, left_versions>>
walking  == <<k, at, soname, version, found>>

EmptyFile == [mem |-> <<>>, verneed |-> 0, verneednum |-> 0, verdef |-> 0, verdefnum |-> 0, versym |-> <<>>,
              needs |-> {}, defs |-> {}]

Init ==
    /\ vb = NewBuilder /\ wanted = <<>> /\ pos = 0
    /\ left = {} /\ current = NoFile /\ left_versions = {}
    /\ k = 0 /\ at = <<>> /\ soname = NoString /\ version = NoString /\ found = <<>>
    /\ \/ file = EmptyFile /\ pc = "add"
       \/ file \in Inputs /\ pc = "symbol"

\* SymtabBuilder::Build gives the exposed symbols their versions.
AddSymbol ==
    /\ pc = "add" /\ Len(wanted) < MaxAdds
    /\ \/ \E s \in DOMAIN SonameToFilename, v \in Versions :
            /\ vb' = Add(vb, 2, s, v, "global")
            /\ wanted' = Append(wanted, [soname |-> s, version |-> v])
       \/ /\ vb' = Add(vb, VER_NDX_GLOBAL, NoString, NoString, "global")
          /\ wanted' = Append(wanted, Unversioned)
    /\ UNCHANGED <<file, emitting, walking, pc>>

Files == {p[1] : p \in DOMAIN vb.data}

VersionsOf(f) == {p[2] : p \in {q \in DOMAIN vb.data : q[1] = f}}

\* Without versions there is no table at all.
EmitVersym ==
    /\ pc = "add"
    /\ file' = [file EXCEPT !.versym = IF vb.data = <<>> THEN <<>> ELSE vb.vers,
                            !.verneednum = Cardinality(Files),
                            !.verneed = IF vb.data = <<>> THEN 0 ELSE 1]
    /\ left' = Files /\ pos' = 1 /\ pc' = "emit"
    /\ UNCHANGED <<vb, wanted, current, left_versions, walking>>

\* Mutant of VerneedNext: counts one record too few.
VerneedNextShort(f) == IF left = {f} THEN 0 ELSE Cardinality(VersionsOf(f)) * Sizeof

VerneedNext(f) == IF left = {f} THEN 0 ELSE Sizeof + Cardinality(VersionsOf(f)) * Sizeof

\* The files come in the order of the map, here in any order.
EmitVerneedOf(f) ==
    /\ pc = "emit" /\ current = NoFile /\ f \in left
    /\ file' = [file EXCEPT !.mem = Put(@, pos,
                  [cnt |-> Cardinality(VersionsOf(f)), file |-> f, aux |-> Sizeof, next |-> VerneedNext(f)])]
    /\ pos' = pos + Sizeof
    /\ current' = f /\ left' = left \ {f} /\ left_versions' = VersionsOf(f)
    /\ UNCHANGED <<vb, wanted, walking, pc>>

VernauxNext == IF Cardinality(left_versions) = 1 THEN 0 ELSE Sizeof

EmitVernauxOf(v) ==
    /\ pc = "emit" /\ v \in left_versions
    /\ file' = [file EXCEPT !.mem = Put(@, pos,
                  [other |-> vb.data[<<current, v>>], name |-> v, next |-> VernauxNext])]
    /\ pos' = pos + Sizeof
    /\ left_versions' = left_versions \ {v}
    /\ current' = IF left_versions' = {} THEN NoFile ELSE current
    /\ UNCHANGED <<vb, wanted, left, walking, pc>>

EndEmit ==
    /\ pc = "emit" /\ left = {} /\ current = NoFile
    /\ pc' = "symbol"
    /\ UNCHANGED <<vb, wanted, file, emitting, walking>>

SizeVerneed == Sizeof * (Cardinality(Files) + Cardinality(DOMAIN vb.data))

-----------------------------------------------------------------------------
(* ELFBinary::GetVersion, one record per step.                             *)

table == <<vb, wanted, file, emitting>>

Answer(a) == found' = Append(found, a) /\ pc' = "symbol" /\ UNCHANGED <<k, at, soname, version>>

Target == file.versym[k]

\* Where to look for the next symbol.
StartVerdef == at' = [vd |-> file.verdef, i |-> 0] /\ pc' = "verdef"

NextSymbol ==
    /\ pc = "symbol" /\ k < Len(file.versym)
    /\ k' = k + 1 /\ soname' = NoString /\ version' = NoString
    /\ IF IsSpecial(file.versym[k'])
       THEN found' = Append(found, Unversioned) /\ UNCHANGED <<at, pc>>
       ELSE /\ UNCHANGED found
            /\ IF file.verneed # 0
               THEN at' = [vn |-> file.verneed, i |-> 0] /\ pc' = "verneed"
               ELSE StartVerdef
    /\ UNCHANGED table

Verneed ==
    /\ pc = "verneed"
    /\ IF at.i < file.verneednum
       THEN /\ at' = [vn |-> at.vn, i |-> at.i, vna |-> at.vn + file.mem[at.vn].aux, j |-> 0]
            /\ pc' = "vernaux"
       ELSE StartVerdef
    /\ UNCHANGED <<table, k, soname, version, found>>

Matches(ndx) == ndx = Target

\* The answer is the soname of the file; a file that the resolver has not
\* seen is fatal.
Vernaux ==
    /\ pc = "vernaux"
    /\ LET vn == file.mem[at.vn]
       IN  IF at.j = vn.cnt
           THEN /\ at' = [vn |-> at.vn + vn.next, i |-> at.i + 1] /\ pc' = "verneed"
                /\ UNCHANGED <<k, soname, version, found>>
           ELSE IF Matches(file.mem[at.vna].other)
           THEN IF vn.file \in DOMAIN FilenameToSoname
                THEN Answer([soname |-> FilenameToSoname[vn.file], version |-> file.mem[at.vna].name])
                ELSE pc' = "aborted" /\ UNCHANGED walking
           ELSE /\ at' = [at EXCEPT !.vna = @ + file.mem[at.vna].next, !.j = @ + 1]
                /\ UNCHANGED <<k, soname, version, found, pc>>
    /\ UNCHANGED table

\* Both the base definition, which names the file, and the wanted one are
\* looked for, in whatever order they come.
Verdef ==
    /\ pc = "verdef"
    /\ IF at.i < (IF file.verdef = 0 THEN 0 ELSE file.verdefnum)
       THEN LET vd == file.mem[at.vd]
                name == file.mem[at.vd + vd.aux].name
            IN  /\ soname' = IF vd.base THEN name ELSE soname
                /\ version' = IF Matches(vd.ndx) THEN name ELSE version
                /\ at' = [vd |-> at.vd + vd.next, i |-> at.i + 1]
                /\ UNCHANGED <<k, found, pc>>
       ELSE Answer(IF soname # NoString /\ version # NoString
                   THEN [soname |-> soname, version |-> version] ELSE Unversioned)
    /\ UNCHANGED table

Next ==
    \/ AddSymbol \/ EmitVersym \/ EndEmit
    \/ \E f \in Filenames : EmitVerneedOf(f)
    \/ \E v \in Versions : EmitVernauxOf(v)
    \/ NextSymbol \/ Verneed \/ Vernaux \/ Verdef

Spec == Init /\ [][Next]_vars

-----------------------------------------------------------------------------
(* Properties.                                                             *)

\* Types, and every address of the walk is that of a record of its kind.
TypeOK ==
    /\ pc \in {"add", "emit", "symbol", "verneed", "vernaux", "verdef", "aborted"}
    /\ k \in 0..Len(file.versym) /\ left \subseteq Filenames
    /\ (pc = "verneed" /\ at.i < file.verneednum) => "cnt" \in DOMAIN file.mem[at.vn]
    /\ (pc = "vernaux" /\ at.j < file.mem[at.vn].cnt) => "other" \in DOMAIN file.mem[at.vna]

Done == pc = "symbol" /\ k = Len(file.versym)

Emitted == wanted # <<>>

\* What is written is as long as SizeVerneed promised to the layout.
EmittedSize == (Emitted /\ pc \notin {"add", "emit"}) => pos = 1 + SizeVerneed

\* The symbols of an output, read back by this code (--check-output, or a
\* second link) or by the loader, have the versions they were given.
EmittedReadBack == (Emitted /\ Done /\ file.versym # <<>>) => found = wanted

\* The records to which the distances lead from the first one.
Reached ==
    LET n == Cardinality(DOMAIN file.mem)
        more(a) == {a + file.mem[a].next} \cup
                   (IF "cnt" \in DOMAIN file.mem[a] THEN {a + file.mem[a].aux} ELSE {})
        reach[j \in 0..n] ==
          IF j = 0 THEN {file.verneed}
          ELSE reach[j - 1] \cup UNION {more(a) : a \in reach[j - 1] \cap DOMAIN file.mem}
    IN  reach[n]

\* The loader goes by the distances and not by the counts: they lead to every
\* record written and, the last of each list being 0, nowhere else.
DistancesReach ==
    (Emitted /\ pc \notin {"add", "emit"} /\ file.verneed # 0) => Reached = DOMAIN file.mem

\* The walk finds what the tables as a whole say, for any order of their
\* records: GetVersion, elf_binary.cc:219.
WalkAgrees ==
    (~Emitted /\ pc # "add" /\ file # EmptyFile) =>
        \A s \in DOMAIN found : found[s] = GetVersion(file.versym[s], file.needs, file.defs)

\* Only a needed file that is not among the libraries aborts the walk.
AbortsOnUnknownFile ==
    pc = "aborted" => \E n \in file.needs : n.file \notin DOMAIN FilenameToSoname /\ n.ndx = Target
=============================================================================
