---------------------------- MODULE LibraryResolve ----------------------------
(***************************************************************************)
(* Sold::ResolveLibraryPaths: the breadth-first search for the shared      *)
(* objects the main binary needs, the choice of those that are linked, the *)
(* sort that follows, and the DT_NEEDED entries BuildDynamic writes for    *)
(* the others.  What a file contains is chosen when ReadELF reads it.      *)
(***************************************************************************)
EXTENDS TopologicalSort

CONSTANTS
    OwnName,           \* the file name of the main binary
    Sonames, Soname,   \* Soname[n]: the DT_SONAME of n, "" when it has none
    Dirs, RootDir,     \* directories; that of the main binary
    Kind,              \* Kind[d, f]: what the file f of directory d is
    Rpath, Runpath,    \* search paths of each binary, sequences of path elements
    LdLibraryPath,     \* $LD_LIBRARY_PATH
    SystemPath,        \* ld.so.conf, /lib, /usr/lib, /usr/lib64
    CustomPath,        \* --custom-library-path
    NeededLists,       \* NeededLists[n]: DT_NEEDED lists n may have
    ExcludeChoices     \* sets of sonames that --exclude-so and the built-in list match

\* No file; a shared object for the machine of the main binary, for another
\* 64-bit machine, for a 32-bit machine; an executable that is not
\* position-independent; anything else, such as a linker script.
Kinds == {"none", "so", "foreign", "so32", "exec", "other"}

Variables    == {"$ORIGIN", "$LIB"}
PathElements == Dirs \cup Variables

ASSUME PathAssumption ==
    /\ "" \notin Sonames /\ Soname \in [Names -> Sonames \cup {""}]
    /\ OwnName \in Libs /\ Soname[OwnName] = Soname[Root]
    /\ Dirs \cap Variables = {} /\ RootDir \in Dirs /\ Kind \in [Dirs \X Libs -> Kinds]
    /\ Rpath \in [Names -> Seq(PathElements)] /\ Runpath \in [Names -> Seq(PathElements)]
    /\ {LdLibraryPath, SystemPath, CustomPath} \subseteq Seq(Dirs)
    /\ NeededLists \in [Names -> SUBSET Seq(Libs)]
    /\ ExcludeChoices \subseteq SUBSET Sonames

VARIABLES
    phase,                \* "search", "sort", "dynamic", "done" or "aborted"
    queue,                \* bfs_queue
    nth,                  \* next DT_NEEDED entry of the binary at its head
    libraries,            \* libraries_: name -> the directory it was found in
    link_binaries_buf,    \* names of the binaries to link, as found
    filename_to_soname, soname_to_filename,
    exclude,              \* the sonames ShouldLink refuses
    needed_out            \* the DT_NEEDED entries of the output

maps == <<libraries, filename_to_soname, soname_to_filename>>
sort == <<buf, i, sorted>>
vars == <<phase, queue, nth, maps, link_binaries_buf, exclude, needed_out, neededs, sort>>

\* std::map assignment m[k] = v
Put(m, k, v) == [x \in DOMAIN m \cup {k} |-> IF x = k THEN v ELSE m[x]]

Elements(s) == {s[j] : j \in DOMAIN s}

\* ELFBinary::name(); in link_binaries_buf the main binary has no name.
FileName(n) == IF n = Root THEN OwnName ELSE n

Registered(n) == IF Soname[n] = "" THEN {} ELSE {n}

\* The constructor registers the main binary when it has a soname.
Init ==
    /\ phase = "search" /\ queue = <<Root>> /\ nth = 1
    /\ libraries = [f \in {} |-> 0] /\ link_binaries_buf = <<Root>>
    /\ filename_to_soname = [f \in {FileName(n) : n \in Registered(Root)} |-> Soname[f]]
    /\ soname_to_filename = [s \in {Soname[n] : n \in Registered(Root)} |-> OwnName]
    /\ exclude \in ExcludeChoices /\ needed_out = {}
    /\ \E ns \in NeededLists[Root] : neededs = [n \in {Root} |-> ns]
    /\ buf = <<>> /\ i = 1 /\ sorted = FALSE

-----------------------------------------------------------------------------
\* The search path a binary states itself, where it is consulted.
OwnRpath(b) == IF CustomPath = <<>> /\ Runpath[b] = <<>> THEN Rpath[b] ELSE <<>>

\* ResolveRunPathVariables aborts on a variable it does not know.
BadRunPath(b) == "$LIB" \in Elements(OwnRpath(b)) \cup Elements(Runpath[b])

\* dirname(binary->filename())
Origin(b) == IF b = Root THEN RootDir ELSE libraries[b]

Resolved(b, path) == [j \in DOMAIN path |-> IF path[j] = "$ORIGIN" THEN Origin(b) ELSE path[j]]

GetLibraryPaths(b) ==
    Resolved(b, OwnRpath(b)) \o LdLibraryPath \o Resolved(b, Runpath[b])
    \o (IF CustomPath = <<>> THEN SystemPath ELSE <<>>)
    \o CustomPath

\* Not there, or ReadELF returns nullptr: the search goes on.
Skipped(kind) == kind \in {"none", "so32"}

\* The rest of ReadELF and the CHECKs of ELFBinary's constructor.  The one on
\* e_machine has a comma where == is meant and holds for every machine.
Accepted(kind) == kind \notin {"exec", "other"}

\* Positions of the search path of b where the search for f ends.
Found(b, f) == {j \in DOMAIN GetLibraryPaths(b) : ~Skipped(Kind[GetLibraryPaths(b)[j], f])}

\* The directory of the first of them.
Locate(b, f) == GetLibraryPaths(b)[CHOOSE j \in Found(b, f) : \A l \in Found(b, f) : j <= l]

ShouldLink(s) == s \notin exclude

Needed == neededs[Head(queue)][nth]

AtBinary == phase = "search" /\ queue # <<>> /\ ~BadRunPath(Head(queue))

Searching == AtBinary /\ nth <= Len(neededs[Head(queue)])

AbortOnRunPath ==
    /\ phase = "search" /\ queue # <<>> /\ BadRunPath(Head(queue))
    /\ phase' = "aborted"
    /\ UNCHANGED <<queue, nth, maps, link_binaries_buf, exclude, needed_out, neededs, sort>>

\* Mutant of Known: a library is forgotten once its own entries are done.
KnownQueued(f) == f \in Elements(queue)

Known(f) == f \in DOMAIN libraries

\* The entry is in libraries_ already.
SkipNeeded ==
    /\ Searching /\ Known(Needed)
    /\ nth' = nth + 1
    /\ UNCHANGED <<phase, queue, maps, link_binaries_buf, exclude, needed_out, neededs, sort>>

\* Found, a file sold reads, and with a soname; otherwise the program stops.
Loadable ==
    /\ Found(Head(queue), Needed) # {}
    /\ Accepted(Kind[Locate(Head(queue), Needed), Needed])
    /\ Soname[Needed] # ""

\* The DT_NEEDED lists the file may have; there is one main binary.
Contents(f) == IF f = OwnName THEN {neededs[Root]} ELSE NeededLists[f]

\* Mutant of Inserted: the copy is the one the main binary would get.
InsertedFromRoot == Put(libraries, Needed,
                        IF Found(Root, Needed) # {} THEN Locate(Root, Needed)
                        ELSE Locate(Head(queue), Needed))

Inserted == Put(libraries, Needed, Locate(Head(queue), Needed))

\* Mutant of NewSonames: only the libraries that are linked are registered.
NewSonamesLinked == IF ShouldLink(Soname[Needed])
                    THEN Put(soname_to_filename, Soname[Needed], Needed) ELSE soname_to_filename

NewSonames == Put(soname_to_filename, Soname[Needed], Needed)

\* Mutant of Enqueued: what excluded libraries need is not searched for.
EnqueuedLinked == IF ShouldLink(Soname[Needed]) THEN Append(queue, Needed) ELSE queue

Enqueued == Append(queue, Needed)

\* The library is read, registered, marked for linking, and queued.
LoadNeeded ==
    /\ Searching /\ ~Known(Needed)
    /\ IF Loadable
       THEN /\ \E ns \in Contents(Needed) : neededs' = Put(neededs, Needed, ns)
            /\ filename_to_soname' = Put(filename_to_soname, Needed, Soname[Needed])
            /\ soname_to_filename' = NewSonames
            /\ link_binaries_buf' = IF ShouldLink(Soname[Needed])
                                    THEN Append(link_binaries_buf, Needed)
                                    ELSE link_binaries_buf
            /\ libraries' = Inserted
            /\ queue' = Enqueued
            /\ nth' = nth + 1
            /\ UNCHANGED phase
       ELSE /\ phase' = "aborted"
            /\ UNCHANGED <<neededs, maps, link_binaries_buf, queue, nth>>
    /\ UNCHANGED <<exclude, needed_out, sort>>

PopBinary ==
    /\ AtBinary /\ nth > Len(neededs[Head(queue)])
    /\ queue' = Tail(queue) /\ nth' = 1
    /\ UNCHANGED <<phase, maps, link_binaries_buf, exclude, needed_out, neededs, sort>>

StartSort ==
    /\ phase = "search" /\ queue = <<>>
    /\ phase' = "sort" /\ buf' = ListOf(link_binaries_buf)
    /\ UNCHANGED <<queue, nth, maps, link_binaries_buf, exclude, needed_out, neededs, i, sorted>>

Sort ==
    /\ phase = "sort" /\ SortStep
    /\ phase' = IF sorted' THEN "dynamic" ELSE phase
    /\ UNCHANGED <<queue, nth, maps, link_binaries_buf, exclude, needed_out>>

\* Mutant of NeededOut: the entries are sonames, not file names.
NeededOutSonames == {Soname[f] : f \in DOMAIN libraries \ Elements(Order)}

\* libraries_ less link_binaries_
NeededOut == DOMAIN libraries \ Elements(Order)

\* The DT_NEEDED part of BuildDynamic.
BuildDynamic ==
    /\ phase = "dynamic"
    /\ needed_out' = NeededOut
    /\ phase' = "done"
    /\ UNCHANGED <<queue, nth, maps, link_binaries_buf, exclude, neededs, sort>>

Next ==
    \/ SkipNeeded \/ LoadNeeded \/ PopBinary \/ AbortOnRunPath
    \/ StartSort \/ Sort \/ BuildDynamic

\* The program is sequential and keeps running until it returns or aborts.
Spec == Init /\ [][Next]_vars /\ WF_vars(Next)

-----------------------------------------------------------------------------
(***************************************************************************)
(* Properties.                                                             *)
(***************************************************************************)
\* Every variable has the shape the C++ declarations give it.
TypeOK ==
    /\ phase \in {"search", "sort", "dynamic", "done", "aborted"}
    /\ queue \in Seq(Names) /\ nth \in Nat /\ i \in Nat /\ sorted \in BOOLEAN
    /\ DOMAIN libraries \subseteq Libs /\ Elements(link_binaries_buf) \subseteq Names
    /\ DOMAIN neededs = DOMAIN libraries \cup {Root}
    /\ buf \in Seq([name : Names, seen : Nat])
    /\ exclude \subseteq Sonames /\ needed_out \subseteq Libs

\* What is needed, directly or not, from the main binary on: the smallest set
\* that holds the main binary and whatever a member of it needs.
Closed(S) == \A n \in S \cap DOMAIN neededs : Elements(neededs[n]) \subseteq S
Closure   == {n \in Names : \A S \in SUBSET Names : Root \in S /\ Closed(S) => n \in S}

\* When the search returns, the linked binaries and the DT_NEEDED entries of
\* the output are together exactly what the main binary needs directly or not,
\* and nothing is both (sold.cc:191-203, 962-1018).
OutputCoversNeeds ==
    phase = "done" =>
        /\ Elements(Order) \cup needed_out = Closure
        /\ Elements(Order) \cap needed_out = {}
        /\ \A n \in Elements(Order) \ {Root} : ShouldLink(Soname[n])

\* The sort neither loses nor repeats a binary, even when it gives up on a
\* cycle, and keeps the main binary first.
SortPermutes ==
    phase \in {"sort", "dynamic", "done"} =>
        /\ Len(buf) = Len(link_binaries_buf)
        /\ Elements(Order) = Elements(link_binaries_buf)
        /\ \A j, k \in DOMAIN buf : buf[j].name = buf[k].name => j = k
        /\ buf[1].name = Root

\* No cycle of DT_NEEDED entries among linked binaries: of any of them, there is
\* one that none of these needs.
Linked  == Elements(link_binaries_buf)
Acyclic == \A S \in SUBSET Linked : S # {} => \E n \in S : \A m \in S : ~Needs(m, n)

\* Without cycles, a binary is linked before every binary it needs: CollectArrays
\* relies on it to run the initialisers of a library before its users'.
DependentsFirst ==
    phase = "done" /\ Acyclic =>
        \A j, k \in DOMAIN buf : Needs(buf[j].name, buf[k].name) => j < k

\* The two name tables agree: GetVersion turns a file into a soname and
\* VersionBuilder turns it back, possibly into another file of that soname.
SonameRoundTrip ==
    /\ \A f \in DOMAIN libraries : filename_to_soname[f] \in DOMAIN soname_to_filename
    /\ \A s \in DOMAIN soname_to_filename : filename_to_soname[soname_to_filename[s]] = s

\* The binaries in the order a breadth-first walk over what was read meets them:
\* of several binaries that need a name, the first in this order is its needer.
AppendNew(seq, f) == IF f \in Elements(seq) THEN seq ELSE Append(seq, f)
Met(seq, k) ==
    LET needs  == IF k \in DOMAIN seq THEN neededs[seq[k]] ELSE <<>>
        met[j \in 0..Len(needs)] == IF j = 0 THEN seq ELSE AppendNew(met[j - 1], needs[j])
    IN  met[Len(needs)]
Walk == LET walk[k \in 0..Cardinality(DOMAIN neededs)] ==
              IF k = 0 THEN <<Root>> ELSE Met(walk[k - 1], k)
        IN  walk[Cardinality(DOMAIN neededs)]
FirstNeeder(walk, f) == walk[CHOOSE k \in DOMAIN walk :
                              /\ f \in Elements(neededs[walk[k]])
                              /\ \A l \in 1..(k - 1) : f \notin Elements(neededs[walk[l]])]
Needer(f) == FirstNeeder(Walk, f)

\* When directories hold different copies of a library, the copy that is linked
\* is the one the search path of its first needer leads to, as for the dynamic
\* loader (sold.cc:963); $ORIGIN is where that needer itself was found.
CopyOfFirstNeeder ==
    phase = "dynamic" => \A f \in DOMAIN libraries : libraries[f] = Locate(Needer(f), f)

\* A file is linked twice, and its initialisers run twice, only when it is the
\* main binary and a library needs it by its file name (sold.cc:967, 977).
OnlyMainLinkedTwice ==
    phase = "dynamic" =>
        \A j, k \in DOMAIN link_binaries_buf :
            j < k /\ FileName(link_binaries_buf[j]) = FileName(link_binaries_buf[k])
                => link_binaries_buf[j] = Root

\* Cycles of DT_NEEDED entries stop neither the search nor the sort.
Terminates == <>(phase \in {"done", "aborted"})
=============================================================================
