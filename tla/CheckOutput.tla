----------------------------- MODULE CheckOutput -----------------------------
(***************************************************************************)
(* sold --check-output: main links a binary and then, in the same process, *)
(* links the output again with another Sold.  Everything belongs to the    *)
(* Sold except the function statics that cache TLSMemSize, TLSFileSize and *)
(* EHFrameSize, which the second Sold inherits.  Binaries are reduced to   *)
(* what the search, the sizes and the names of versions depend on;         *)
(* LibraryResolve, VersionBuilder, SymbolLink and OutputLayout have the    *)
(* details.                                                                *)
(***************************************************************************)
EXTENDS Integers, Sequences, FiniteSets, FiniteSetsExt, SequencesExt

\* A command line is [main, from, out, to, exclude, disk]: the names and the
\* directories of the input and the output, the sonames excluded, and in each
\* directory the binaries found under each name.  A binary is [soname, needs,
\* paths, expands, tls, fdes, imports, exports, reexports].  paths is what
\* GetLibraryPaths returns for it in a directory, which $ORIGIN stands for;
\* expands says that no other variable is in the way.  tls has the sizes of its
\* PT_TLS, zeros without one; imports are the <<file, version>> of the undefined
\* symbols it refers to; of its own symbols that are copied to the output,
\* exports has the versions it defines and reexports the <<file, version>> of
\* those that an earlier link wrote as needed.
CONSTANT CommandLines

NoSoname == ""
Nowhere  == ""

\* The command lines are those of programs that were linked: no binary needs
\* the program itself or the output, binaries of different names have different
\* sonames, and the versions of a binary are of the libraries it needs.
CommandLinesAssumption ==
    \A c \in CommandLines :
        /\ {c.from, c.to} \subseteq DOMAIN c.disk /\ Nowhere \notin DOMAIN c.disk
        /\ c.main \in DOMAIN c.disk[c.from]
        /\ \A d \in DOMAIN c.disk : \A n \in DOMAIN c.disk[d] :
              LET b == c.disk[d][n]
              IN  /\ b.tls \in [filesz : Nat, memsz : Nat] /\ b.tls.filesz <= b.tls.memsz /\ b.fdes \in Nat
                  /\ b.paths \in [DOMAIN c.disk -> Seq(DOMAIN c.disk)]
                  /\ b.needs \in Seq(ToSet(b.needs)) /\ {c.main, c.out} \cap ToSet(b.needs) = {}
                  /\ \A e \in DOMAIN c.disk : \A m \in DOMAIN c.disk[e] :
                        b.soname = c.disk[e][m].soname => m = n \/ b.soname = NoSoname
                  /\ \A v \in b.imports \cup b.reexports : v = <<v[1], v[2]>> /\ v[1] \in ToSet(b.needs)

VARIABLES
    cmd, run, label,
    queue,                 \* bfs_queue
    libraries,             \* libraries_ of both Solds: where each library was found
    file_of,               \* soname_to_filename_
    exposed, public,       \* the <<file, version>> put into version_
    TLSMemSize_s, TLSFileSize_s, EHFrameSize_s,    \* the statics
    output                 \* the files written

vars == <<cmd, run, label, queue, libraries, file_of, exposed, public,
          TLSMemSize_s, TLSFileSize_s, EHFrameSize_s, output>>
statics == <<TLSMemSize_s, TLSFileSize_s, EHFrameSize_s>>

HeaderSize == 12
LINUX_PAGE_SIZE == 4096

AlignNext(a) == ((a + LINUX_PAGE_SIZE - 1) \div LINUX_PAGE_SIZE) * LINUX_PAGE_SIZE

Main  == IF run = 1 THEN cmd.main ELSE cmd.out
Names == DOMAIN libraries[run]

\* The directory of a binary, and the binary.
Here(name) == IF name # Main THEN libraries[run][name] ELSE IF run = 1 THEN cmd.from ELSE cmd.to
Bin(name)  == IF run = 2 /\ name = Main THEN output[1] ELSE cmd.disk[Here(name)][name]

\* The names are registered under their sonames one after the other.
Register(map, names, soname) ==
    LET with(s) == {k \in DOMAIN names : soname[names[k]] = s}
        sonames == {soname[n] : n \in {m \in ToSet(names) : soname[m] # NoSoname}}
    IN  [s \in DOMAIN map \cup sonames |-> IF s \in sonames THEN names[Max(with(s))] ELSE map[s]]

Init ==
    /\ cmd \in CommandLines /\ run = 1 /\ label = "construct"
    /\ queue = <<>> /\ libraries = [r \in 1..2 |-> <<>>] /\ file_of = <<>>
    /\ exposed = {} /\ public = {}
    /\ TLSMemSize_s = 0 /\ TLSFileSize_s = 0 /\ EHFrameSize_s = 0 /\ output = <<>>

Goto(l) == label' = l

-----------------------------------------------------------------------------
\* Sold::Sold starts with the maps empty and the main binary registered.
Construct ==
    /\ label = "construct"
    /\ file_of' = Register(<<>>, <<Main>>, [n \in {Main} |-> Bin(n).soname])
    /\ queue' = <<Main>> /\ exposed' = {} /\ public' = {}
    /\ Goto("resolve")
    /\ UNCHANGED <<cmd, run, libraries, statics, output>>

\* Of what a binary needs, the libraries that were not loaded before.
NotLoaded(neededs) ==
    LET new[k \in 0..Len(neededs)] ==
            IF k = 0 THEN <<>>
            ELSE IF neededs[k] \in Names \cup ToSet(new[k - 1]) THEN new[k - 1]
            ELSE Append(new[k - 1], neededs[k])
    IN  new[Len(neededs)]

\* The first directory of the list that has the library.
FirstOf(dirs, name) ==
    LET hits == {k \in DOMAIN dirs : name \in DOMAIN cmd.disk[dirs[k]]}
    IN  IF hits = {} THEN Nowhere ELSE dirs[Min(hits)]

\* Where a binary finds what it needs.
Where(name, needed) == FirstOf(Bin(name).paths[Here(name)], needed)

\* A binary was found, and it has a soname.
Loadable(dir, name) == dir # Nowhere /\ cmd.disk[dir][name].soname # NoSoname

\* ResolveLibraryPaths: the front of the queue and what it needs.
ResolveLibrary ==
    /\ label = "resolve" /\ queue # <<>>
    /\ LET new == NotLoaded(Bin(Head(queue)).needs)
           dir == [m \in ToSet(new) |-> Where(Head(queue), m)]
       IN  IF Bin(Head(queue)).expands /\ \A m \in ToSet(new) : Loadable(dir[m], m)
           THEN /\ libraries' = [libraries EXCEPT ![run] =
                                    [m \in Names \cup ToSet(new) |-> IF m \in Names THEN @[m] ELSE dir[m]]]
                /\ queue' = Tail(queue) \o new
                /\ file_of' = Register(file_of, new, [m \in ToSet(new) |-> cmd.disk[dir[m]][m].soname])
                /\ UNCHANGED label
           ELSE Goto("aborted") /\ UNCHANGED <<queue, libraries, file_of>>
    /\ UNCHANGED <<cmd, run, exposed, public, statics, output>>

ShouldLink(soname) == soname \notin cmd.exclude

link_binaries == {Main} \cup {n \in Names : ShouldLink(Bin(n).soname)}

Sum(size) == MapThenSumSet(LAMBDA n : size[n], link_binaries)

\* Mutant of Cached: computed in every call.
CachedFresh(s, size) == size

\* "if (s != 0) return s;"
Cached(s, size) == IF s # 0 THEN s ELSE size

\* What CollectTLS adds up to tls_.memsz and tls_.filesz.
TLSMemBuilt  == Sum([n \in link_binaries |-> Bin(n).tls.memsz])
TLSFileBuilt == Sum([n \in link_binaries |-> Bin(n).tls.filesz])

TLSMemSize  == Cached(TLSMemSize_s, TLSMemBuilt)
TLSFileSize == Cached(TLSFileSize_s, TLSFileBuilt)

\* ehframe_builder_.Size() after BuildEHFrameHeader.
EHFrameBuilt == HeaderSize + 8 * Sum([n \in link_binaries |-> Bin(n).fdes])

EHFrameSize == Cached(EHFrameSize_s, EHFrameBuilt)

\* The first calls of TLSMemSize and EHFrameSize are in DecideMemOffset.
DecideMemOffset ==
    /\ label = "resolve" /\ queue = <<>>
    /\ TLSMemSize_s' = TLSMemSize /\ EHFrameSize_s' = EHFrameSize
    /\ Goto("tls")
    /\ UNCHANGED <<cmd, run, queue, libraries, file_of, exposed, public, TLSFileSize_s, output>>

CollectTLS ==
    /\ label = "tls"
    /\ Goto(IF TLSMemBuilt = TLSMemSize THEN "symbols" ELSE "aborted")
    /\ UNCHANGED <<cmd, run, queue, libraries, file_of, exposed, public, statics, output>>

Registered == {file_of[s] : s \in DOMAIN file_of}
SonameOf(name) == Bin(name).soname
Imported == UNION {Bin(n).imports : n \in link_binaries}
Reexported == UNION {Bin(n).reexports : n \in link_binaries}
Exporters == {n \in link_binaries : Bin(n).exports # {}}

\* CollectSymbols: GetVersion is fatal for a file that is not registered.
CollectSymbols ==
    /\ label = "symbols"
    /\ Goto(IF {v[1] : v \in Imported \cup Reexported} \subseteq Registered THEN "versions" ELSE "aborted")
    /\ UNCHANGED <<cmd, run, queue, libraries, file_of, exposed, public, statics, output>>

Needed(soname, version) == <<file_of[soname], version>>

\* VersionBuilder::Add for the exposed symbols, which no linked binary defines,
\* and for the public ones under the name of the binary that has them.  A CHECK
\* wants the soname of that binary to be registered.
BuildVersions ==
    /\ label = "versions"
    /\ IF Exporters \subseteq Registered
       THEN /\ exposed' = {Needed(SonameOf(v[1]), v[2]) : v \in {w \in Imported : w[1] \notin link_binaries}}
            /\ public' = {Needed(SonameOf(v[1]), v[2]) : v \in Reexported}
                   \cup UNION {{Needed(SonameOf(n), v) : v \in Bin(n).exports} : n \in link_binaries}
            /\ Goto("loads")
       ELSE Goto("aborted") /\ UNCHANGED <<exposed, public>>
    /\ UNCHANGED <<cmd, run, queue, libraries, file_of, statics, output>>

\* The first call of TLSFileSize is in BuildLoads.
BuildLoads ==
    /\ label = "loads"
    /\ TLSFileSize_s' = TLSFileSize
    /\ Goto("ehframe")
    /\ UNCHANGED <<cmd, run, queue, libraries, file_of, exposed, public, TLSMemSize_s, EHFrameSize_s, output>>

BuildEHFrameHeader ==
    /\ label = "ehframe"
    /\ Goto(IF EHFrameSize = EHFrameBuilt THEN "emit" ELSE "aborted")
    /\ UNCHANGED <<cmd, run, queue, libraries, file_of, exposed, public, statics, output>>

\* BuildDynamic: all libraries that were not linked in.
Needs == SetToSeq(Names \ link_binaries)

\* The headers of the output say what was written, and it has the RPATH and the
\* RUNPATH of the main binary.  The template starts a page, and what follows it
\* is where TLSFileSize says, rounded up: EmitPad wants the template to end before.
Emit ==
    /\ label = "emit"
    /\ IF TLSFileBuilt <= AlignNext(TLSFileSize)
       THEN /\ output' = Append(output,
                 [soname |-> Bin(Main).soname, needs |-> Needs,
                  paths |-> Bin(Main).paths, expands |-> Bin(Main).expands,
                  tls |-> [filesz |-> TLSFileBuilt, memsz |-> TLSMemBuilt],
                  fdes |-> (EHFrameBuilt - HeaderSize) \div 8,
                  imports |-> exposed, exports |-> {}, reexports |-> public])
            /\ IF run = 1 THEN run' = 2 /\ Goto("construct") ELSE Goto("done") /\ UNCHANGED run
       ELSE Goto("aborted") /\ UNCHANGED <<run, output>>
    /\ UNCHANGED <<cmd, queue, libraries, file_of, exposed, public, statics>>

Next ==
    \/ Construct \/ ResolveLibrary \/ DecideMemOffset \/ CollectTLS
    \/ CollectSymbols \/ BuildVersions \/ BuildLoads \/ BuildEHFrameHeader \/ Emit

Spec == Init /\ [][Next]_vars

-----------------------------------------------------------------------------
Labels == {"construct", "resolve", "tls", "symbols", "versions", "loads", "ehframe", "emit", "done", "aborted"}

\* Types; the statics keep what the first Sold put there.
TypeOK ==
    /\ label \in Labels /\ run \in {1, 2} /\ Len(output) = run - (IF label = "done" THEN 0 ELSE 1)
    /\ \A r \in 1..2 : \A n \in DOMAIN libraries[r] : n \in DOMAIN cmd.disk[libraries[r][n]]
    /\ queue \in Seq(Names \cup {Main})
    /\ TLSMemSize_s \in Nat /\ TLSFileSize_s \in Nat
    /\ EHFrameSize_s # 0 => EHFrameSize_s >= HeaderSize /\ (EHFrameSize_s - HeaderSize) % 8 = 0

\* A library is found nowhere or has no soname, a search path has a variable, or
\* the main binary defines versions but has no soname.
Unlinkable ==
    \/ \E n \in Names \cup {Main} :
          ~Bin(n).expands \/ \E m \in ToSet(Bin(n).needs) \ Names : ~Loadable(Where(n, m), m)
    \/ Bin(Main).exports # {} /\ Bin(Main).soname = NoSoname

\* Of the search, the sizes and the versions, the first link never stops because
\* of a cache: the sizes agree, and every version of a complete set of libraries
\* is registered.  (What the relocations of an input must be is OutputLayout's.)
FirstLinkSucceeds == run = 1 /\ label = "aborted" => Unlinkable

\* Where the first link found a library.
Before(name) == IF name \in DOMAIN libraries[1] THEN libraries[1][name] ELSE Nowhere

\* The second link found another copy of a library, or looks for one in vain.
Misplaced ==
    \/ \E n \in DOMAIN libraries[2] : libraries[2][n] # Before(n)
    \/ queue # <<>> /\ \E m \in ToSet(Bin(Head(queue)).needs) \ Names : Where(Head(queue), m) # Before(m)

\* All binaries search the same directories, wherever they are.
OnePath ==
    \A d, e \in DOMAIN cmd.disk : \A n \in DOMAIN cmd.disk[d], m \in DOMAIN cmd.disk[e] :
        \A x, y \in DOMAIN cmd.disk : cmd.disk[d][n].paths[x] = cmd.disk[e][m].paths[y]

\* That takes a binary that searches elsewhere: in the output, its RPATH and its
\* RUNPATH are those of the main binary, and $ORIGIN is the directory of the output.
MisplacedOnlyByPaths == run = 2 /\ Misplaced => ~OnePath

\* The output needs no library that is inside it, so the check links the output
\* alone, unless an excluded library needs one that was linked.
RelinksOnlyThroughExcluded ==
    run = 2 /\ label \in {"tls", "symbols"} =>
        \/ link_binaries = {Main} \/ Misplaced
        \/ \E n \in Names \ link_binaries : ToSet(Bin(n).needs) \cap link_binaries # {}

\* When the check passes, its cached sizes were the ones it would have computed
\* itself, and both outputs need the same and have the same versions.
PassMeansSame ==
    label = "done" =>
        /\ TLSMemSize = TLSMemBuilt /\ TLSFileSize = TLSFileBuilt /\ EHFrameSize = EHFrameBuilt
        /\ output[2].fdes = output[1].fdes
        /\ Misplaced \/ /\ output[2].tls = output[1].tls
                        /\ ToSet(output[2].needs) = ToSet(output[1].needs)
                        /\ output[2].imports = output[1].imports /\ output[2].reexports = output[1].reexports

\* Of the search, the sizes and the versions, three things make the check fail:
\* libraries that are not found where they were, sizes of libraries that are
\* linked again, and versions of symbols of a binary that is inside the output,
\* under the name it was linked from.  The second link may stop for a relocation
\* of the output too, as any link may (Refused in OutputLayout).
FailsOnlyForThreeReasons ==
    run = 2 /\ label = "aborted" =>
        \/ Misplaced
        \/ link_binaries # {Main}
        \/ \E v \in output[1].reexports : v[1] # cmd.out /\ v[1] \notin ToSet(output[1].needs)

=============================================================================
