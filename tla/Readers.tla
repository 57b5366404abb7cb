------------------------------- MODULE Readers --------------------------------
(***************************************************************************)
(* Everything that reads a file: the parts of ELFBinary that follow what   *)
(* other linkers, or this one, have written, and read_ldsoconf.  They run  *)
(* one after the other and share no state, so a behaviour is that of one   *)
(* of them, `part'; the variables of the others are idle.                  *)
(***************************************************************************)
EXTENDS Integers, Sequences

CONSTANTS
    Entries, MaxEntries, Remainders, InSegments, Outputs,  \* of DynamicSection
    HashWidth, Names, HashFiles,                   \* of DynsymIndex
    Filenames, Sonames, Versions,                  \* of VerneedTable
    FilenameToSoname, SonameToFilename, MaxAdds, VersionFiles,
    Mems,                                          \* of CIEParser
    Binaries, Base, Page, Width,                   \* of EHFrameHeader
    Systems, MaxOpen                               \* of LdSoConf

VARIABLES
    part,
    dyns, rest, written, phase, cur, number, name, neededs, array,
    hashed, hash_pc, hash_i, hash_n, indices,
    vb, wanted, file, pos, left, current, left_versions, sym, at, soname, version,
    answers, version_pc,
    cie, cie_pc, cie_offset, aug_head, FDE_encoding, LSDA_encoding,
    bins, label, bn, ph, entry, loads, tls, table_in, seen, offsets, offset, table, fde_count,
    ip, low, high, found,
    system, stack, res

Dyn == INSTANCE DynamicSection
Sym == INSTANCE DynsymIndex WITH Files <- HashFiles, file <- hashed, pc <- hash_pc, i <- hash_i, n <- hash_n
Ver == INSTANCE VerneedTable WITH Inputs <- VersionFiles, found <- answers, k <- sym, pc <- version_pc
Cie == INSTANCE CIEParser WITH m <- cie, pc <- cie_pc
Efh == INSTANCE EHFrameHeader WITH Inputs <- Binaries, b <- bn, i <- entry, lo <- low, hi <- high
Dir == INSTANCE LdSoConf

ASSUME ReadersAssumption ==
    /\ Dyn!EntriesAssumption /\ Dyn!OutputsAssumption
    /\ Sym!HashWidthAssumption /\ Sym!FilesAssumption
    /\ Efh!EHFrameHeaderAssumption /\ Dir!LdSoConfAssumption

dyn_vars ==
    <<dyns, rest, written, phase, cur, number, name, neededs, array>>
sym_vars ==
    <<hashed, hash_pc, hash_i, hash_n, indices>>
ver_vars ==
    <<vb, wanted, file, pos, left, current, left_versions, sym, at, soname,
      version, answers, version_pc>>
cie_vars ==
    <<cie, cie_pc, cie_offset, aug_head, FDE_encoding, LSDA_encoding>>
efh_vars ==
    <<bins, label, bn, ph, entry, loads, tls, table_in, seen, offsets, offset,
      table, fde_count, ip, low, high, found>>
dir_vars ==
    <<system, stack, res>>

vars == <<part, dyn_vars, sym_vars, ver_vars, cie_vars, efh_vars, dir_vars>>

Idle == <<>>

IdleDyn == dyns = Idle /\ rest = Idle /\ written = Idle /\ phase = Idle /\ cur = Idle /\ number = Idle
           /\ name = Idle /\ neededs = Idle /\ array = Idle
IdleSym == hashed = Idle /\ hash_pc = Idle /\ hash_i = Idle /\ hash_n = Idle /\ indices = Idle
IdleVer == vb = Idle /\ wanted = Idle /\ file = Idle /\ pos = Idle /\ left = Idle /\ current = Idle
           /\ left_versions = Idle /\ sym = Idle /\ at = Idle /\ soname = Idle /\ version = Idle
           /\ answers = Idle /\ version_pc = Idle
IdleCie == cie = Idle /\ cie_pc = Idle /\ cie_offset = Idle /\ aug_head = Idle
           /\ FDE_encoding = Idle /\ LSDA_encoding = Idle
IdleEfh == bins = Idle /\ label = Idle /\ bn = Idle /\ ph = Idle /\ entry = Idle /\ loads = Idle
           /\ tls = Idle /\ table_in = Idle /\ seen = Idle /\ offsets = Idle /\ offset = Idle
           /\ table = Idle /\ fde_count = Idle /\ ip = Idle /\ low = Idle /\ high = Idle /\ found = Idle
IdleDir == system = Idle /\ stack = Idle /\ res = Idle

Init ==
    \/ part = "dynamic"  /\ Dyn!Init /\ IdleSym /\ IdleVer /\ IdleCie /\ IdleEfh /\ IdleDir
    \/ part = "symbols"  /\ Sym!Init /\ IdleDyn /\ IdleVer /\ IdleCie /\ IdleEfh /\ IdleDir
    \/ part = "versions" /\ Ver!Init /\ IdleDyn /\ IdleSym /\ IdleCie /\ IdleEfh /\ IdleDir
    \/ part = "cie"      /\ Cie!Init /\ IdleDyn /\ IdleSym /\ IdleVer /\ IdleEfh /\ IdleDir
    \/ part = "frames"   /\ Efh!Init /\ IdleDyn /\ IdleSym /\ IdleVer /\ IdleCie /\ IdleDir
    \/ part = "ldsoconf" /\ Dir!Init /\ IdleDyn /\ IdleSym /\ IdleVer /\ IdleCie /\ IdleEfh

ReadDynamic ==
    part = "dynamic" /\ Dyn!Next /\ UNCHANGED <<part, sym_vars, ver_vars, cie_vars, efh_vars, dir_vars>>
ReadSymbols ==
    part = "symbols" /\ Sym!Next /\ UNCHANGED <<part, dyn_vars, ver_vars, cie_vars, efh_vars, dir_vars>>
ReadVersions ==
    part = "versions" /\ Ver!Next /\ UNCHANGED <<part, dyn_vars, sym_vars, cie_vars, efh_vars, dir_vars>>
ReadCIE ==
    part = "cie" /\ Cie!Next /\ UNCHANGED <<part, dyn_vars, sym_vars, ver_vars, efh_vars, dir_vars>>
ReadFrames ==
    part = "frames" /\ Efh!Next /\ UNCHANGED <<part, dyn_vars, sym_vars, ver_vars, cie_vars, dir_vars>>
ReadLdSoConf ==
    part = "ldsoconf" /\ Dir!Next /\ UNCHANGED <<part, dyn_vars, sym_vars, ver_vars, cie_vars, efh_vars>>

Next == ReadDynamic \/ ReadSymbols \/ ReadVersions \/ ReadCIE \/ ReadFrames \/ ReadLdSoConf

Spec == Init /\ [][Next]_vars /\ WF_vars(Next)

-----------------------------------------------------------------------------
(***************************************************************************)
(* Properties.                                                             *)
(***************************************************************************)
\* Every variable of the part that runs has its type, and every place it reads
\* from is one of the file.
TypeOK ==
    CASE part = "dynamic"  -> Dyn!TypeOK
      [] part = "symbols"  -> Sym!TypeOK
      [] part = "versions" -> Ver!TypeOK
      [] part = "cie"      -> Cie!TypeOK
      [] part = "frames"   -> Efh!TypeOK
      [] part = "ldsoconf" -> Dir!TypeOK

\* What sold writes, sold reads back, and so does the loader: .dynamic with its
\* names before its string table (sold.cc:201-242), the hash table of one bucket,
\* also empty and with colliding hashes (sold.cc:352-374), and the version
\* records with their counts, distances and planned size (version_builder.cc:60-107).
OutputReadBack ==
    /\ part = "dynamic" => Dyn!ReadsBack
    /\ part = "symbols" => Sym!EmittedReadBack /\ Sym!EmittedLooksUp
    /\ part = "versions" => Ver!EmittedSize /\ Ver!EmittedReadBack /\ Ver!DistancesReach

\* In whatever order another linker has written the entries of .dynamic, names
\* and arrays are read as that linker meant them, and ParseDynamic stops exactly
\* on what it cannot handle: a size that is not one of entries, relocations without
\* addends, a pointer into no segment, no string table (elf_binary.cc:511-592, 603).
DynamicUnderstood == part = "dynamic" => Dyn!ReadInAnyOrder /\ Dyn!StopsOnUnsupported

\* From hash tables, relocations and version records of other linkers the reader
\* finds exactly the symbols the file shows, each once and none beyond the
\* table, and the version of each; only a version of a file that is not among
\* the libraries stops it (elf_binary.cc:105-168, 219-281).
SymbolsFound ==
    /\ part = "symbols" => Sym!ExactlyTheShown /\ Sym!NothingBeyond /\ Sym!NeverTwice
    /\ part = "versions" => Ver!WalkAgrees /\ Ver!AbortsOnUnknownFile

\* .eh_frame is moved exactly when it stays right, and then the process unwinds
\* from every instruction of every binary with that binary's own FDE and from
\* nowhere else (elf_binary.cc:355-482, sold.h:170-183, ehframe_builder.h:52-69).
FramesFound ==
    /\ part = "cie" => Cie!EncodingsAsWritten /\ Cie!AcceptsWhatStaysRight
    /\ part = "frames" =>
          Efh!LooksAtFDEs /\ Efh!UnwindsFromEverywhere /\ Efh!StopsExactlyOnBadHeaders

\* The directories to search come in the order of the text with its includes
\* expanded, also when files include each other or are missing (ldsoconf.cc:24-49).
DirectoriesInOrder == part = "ldsoconf" => Dir!OrderOfTheText

Ended ==
    CASE part = "dynamic"  -> phase \in {"done", "aborted"}
      [] part = "symbols"  -> hash_pc \in {"done", "aborted"}
      [] part = "versions" -> Ver!Done \/ version_pc = "aborted"
      [] part = "cie"      -> cie_pc \in {"done", "aborted"}
      [] part = "frames"   -> label \in {"found", "aborted"}
      [] part = "ldsoconf" -> stack = <<>>

\* No reader is kept going for ever by a chain, a list of records, a string of
\* letters it does not know or a file that includes itself.
EveryReaderEnds == <>Ended
=============================================================================
