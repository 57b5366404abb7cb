----------------------------- MODULE MCSymbolLink -----------------------------
(***************************************************************************)
(* Small instances of SymbolLink: an executable, a library with symbol     *)
(* versions it defines and needs, and a library with no version table.     *)
(***************************************************************************)
EXTENDS SymbolLink

\* No DT_NEEDED entry lists gone.so, so it is not registered, and neither is the
\* executable, which has no DT_SONAME; its linker put its file name into the base
\* version definition.
MCFilenames == {"b.so", "ext.so", "gone.so"}
MCSonames   == {"b", "ext", "a.out"}
MCFilenameToSoname == [f \in {"b.so", "ext.so"} |-> IF f = "b.so" THEN "b" ELSE "ext"]
MCSonameToFilename == [s \in {"b", "ext"} |-> IF s = "b" THEN "b.so" ELSE "ext.so"]

S(n, v, d, t, b) == [name |-> n, versym |-> v, def |-> d, tls |-> t, bind |-> b]
G == "global"
W == "weak"

\* Two binaries and their versions.  Index 2 is b's own version V1, 3 is ext's
\* V2 in the executable and its V1 in b, 5 the executable's own V1 and 6 gone.so's V1.
VersionedVerneed == <<{[ndx |-> 2, file |-> "b.so", version |-> "V1"],
                       [ndx |-> 3, file |-> "ext.so", version |-> "V2"]},
                      {[ndx |-> 3, file |-> "ext.so", version |-> "V1"],
                       [ndx |-> 6, file |-> "gone.so", version |-> "V1"]}>>
VersionedVerdef  == <<{[ndx |-> 5, soname |-> "a.out", version |-> "V1"]},
                      {[ndx |-> 2, soname |-> "b", version |-> "V1"]}>>

\* Versioned and unversioned references, colliding definitions, TLS, a COPY
\* target with a version, and a hidden definition (0x8002).
VersionedDynSyms ==
  <<{S("f", 2, FALSE, FALSE, G), S("f", 1, FALSE, FALSE, W), S("f", 1, TRUE, FALSE, W),
     S("g", 3, TRUE, FALSE, G), S("g", 5, TRUE, FALSE, G), S("t", 2, FALSE, TRUE, G)},
    {S("f", 2, TRUE, FALSE, G), S("f", 1, TRUE, FALSE, G), S("f", 32770, TRUE, FALSE, G),
     S("g", 3, FALSE, FALSE, G), S("g", 6, FALSE, FALSE, G),
     S("t", 2, TRUE, TRUE, G)}>>

\* Three binaries that reference and define the same two names without
\* versions; the last has no .gnu.version table at all.
NoVersions == <<{}, {}, {}>>
OrderedDynSyms ==
  <<{S("f", 1, FALSE, FALSE, W), S("f", 1, TRUE, FALSE, G), S("t", 1, FALSE, TRUE, G)},
    {S("f", 1, FALSE, FALSE, G), S("f", 1, TRUE, FALSE, W), S("t", 1, TRUE, TRUE, G)},
    {S("f", 65535, FALSE, FALSE, G), S("f", 65535, TRUE, FALSE, G),
     S("t", 65535, FALSE, TRUE, G), S("t", 65535, TRUE, TRUE, G)}>>

\* The instances meet the conditions under which some properties are theorems.
ASSUME ConditionsMet == TlsByName /\ OneIndexPerVersion
=============================================================================
