---------------------------- MODULE VersionBuilder ----------------------------
(***************************************************************************)
(* The symbol-version half of the output (version_builder.{h,cc}) and the  *)
(* lookup that gives a symbol of an input its version (elf_binary.cc,      *)
(* GetVersion).  The builder is a record                                   *)
(*     vernum : the next free version index,                               *)
(*     data   : [<<file, version>> |-> index], the nested C++ map,         *)
(*     vers   : one .gnu.version entry per exposed symbol.                 *)
(* Strings that the code compares with "" are strings here; the 16-bit     *)
(* version indices are numbers.                                            *)
(***************************************************************************)
EXTENDS Integers, Sequences

CONSTANTS
    Filenames,         \* file names that DT_NEEDED and version tables use
    Sonames,           \* sonames that libraries and version definitions use
    Versions,          \* version names such as GLIBC_2.2.5
    FilenameToSoname,  \* filename_to_soname_ and soname_to_filename_, complete
    SonameToFilename   \* once ResolveLibraryPaths has returned

NoString == ""

IsMap(m, D, R) == DOMAIN m \subseteq D /\ \A k \in DOMAIN m : m[k] \in R

\* The maps are partial: version tables may also name the main binary, which is not
\* registered when it has no DT_SONAME, and files that no DT_NEEDED entry lists.
ASSUME NamesAssumption ==
    /\ NoString \notin Sonames
    /\ NoString \notin Versions
    /\ IsMap(FilenameToSoname, Filenames, DOMAIN SonameToFilename)
    /\ IsMap(SonameToFilename, Sonames, DOMAIN FilenameToSoname)
    /\ \A s \in DOMAIN SonameToFilename : FilenameToSoname[SonameToFilename[s]] = s

\* std::map assignment m[k] = v
Put(m, k, v) == [x \in DOMAIN m \cup {k} |-> IF x = k THEN v ELSE m[x]]

VER_NDX_LOCAL   == 0
VER_NDX_GLOBAL  == 1
VERSYM_HIDDEN   == 32768
NO_VERSION_INFO == 65535
Versyms         == 0..65535

IsSpecial(versym) == versym \in {VER_NDX_LOCAL, VER_NDX_GLOBAL}
IsHidden(versym)  == versym >= VERSYM_HIDDEN     \* (versym & VERSYM_HIDDEN) != 0

(***************************************************************************)
(* GetVersion: the versions a binary needs are searched first, then the    *)
(* versions it defines.  Both compare the whole 16-bit entry, the hidden   *)
(* bit included.  A verneed record names a file, which stands for its      *)
(* soname; a file that is not registered is fatal, and GetVersion answers  *)
(* nothing.  An entry neither table knows yields two empty strings.        *)
(***************************************************************************)
Unversioned == [soname |-> NoString, version |-> NoString]

Needed(versym, verneed) == CHOOSE n \in verneed : n.ndx = versym

IsNeeded(versym, verneed) ==
    /\ versym # NO_VERSION_INFO /\ ~IsSpecial(versym)
    /\ \E n \in verneed : n.ndx = versym

\* LOG(FATAL): there is no entry for the file in filename_to_soname.
UnknownFile(versym, verneed) ==
    IsNeeded(versym, verneed) /\ Needed(versym, verneed).file \notin DOMAIN FilenameToSoname

GetVersion(versym, verneed, verdef) ==
    LET n    == Needed(versym, verneed)
        defs == {d \in verdef : d.ndx = versym}
    IN  IF versym = NO_VERSION_INFO \/ IsSpecial(versym) \/ UnknownFile(versym, verneed)
        THEN Unversioned
        ELSE IF IsNeeded(versym, verneed)
        THEN [soname |-> FilenameToSoname[n.file], version |-> n.version]
        ELSE IF defs # {}
             THEN LET d == CHOOSE d \in defs : TRUE
                  IN  [soname |-> d.soname, version |-> d.version]
        ELSE Unversioned

-----------------------------------------------------------------------------
NewBuilder == [vernum |-> 2, data |-> [p \in {} |-> 0], vers |-> <<>>]

BuilderOK(vb) ==
    /\ vb = [vernum |-> vb.vernum, data |-> vb.data, vers |-> vb.vers]
    /\ vb.vernum \in Nat /\ vb.vers \in Seq(Nat)
    /\ IsMap(vb.data, Filenames \X Versions, Nat)

\* The .gnu.version entry of an input that carries no version information.
Inferred(versym, bind) ==
    IF versym # NO_VERSION_INFO THEN versym
    ELSE IF bind # "local" THEN VER_NDX_GLOBAL ELSE VER_NDX_LOCAL

\* The CHECKs of VersionBuilder::Add: a special index comes without names,
\* any other with both, and the library is one the resolver registered.
Addable(versym, soname, version, bind) ==
    IF IsSpecial(Inferred(versym, bind))
    THEN soname = NoString /\ version = NoString
    ELSE soname \in DOMAIN SonameToFilename /\ version # NoString

\* Mutant of Numbered: the branch for a new file forgets vernum++.
NumberedNoIncrement(vb, file, version) ==
    IF <<file, version>> \in DOMAIN vb.data THEN vb
    ELSE [vernum |-> IF \E p \in DOMAIN vb.data : p[1] = file
                     THEN vb.vernum + 1 ELSE vb.vernum,
          data   |-> Put(vb.data, <<file, version>>, vb.vernum),
          vers   |-> vb.vers]

\* The number of (file, version): the one it has, or the next free one.
Numbered(vb, file, version) ==
    IF <<file, version>> \in DOMAIN vb.data THEN vb
    ELSE [vernum |-> vb.vernum + 1,
          data   |-> Put(vb.data, <<file, version>>, vb.vernum),
          vers   |-> vb.vers]

WithVersym(vb, versym) ==
    [vernum |-> vb.vernum, data |-> vb.data, vers |-> Append(vb.vers, versym)]

Add(vb, versym, soname, version, bind) ==
    LET v    == Inferred(versym, bind)
        file == SonameToFilename[soname]
        n    == Numbered(vb, file, version)
    IN  IF IsSpecial(v) THEN WithVersym(vb, v)
        ELSE WithVersym(n, n.data[<<file, version>>])
=============================================================================
