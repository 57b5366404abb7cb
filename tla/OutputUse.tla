------------------------------ MODULE OutputUse -------------------------------
(***************************************************************************)
(* What becomes of an output: it is loaded, where its own code protects    *)
(* the RELRO regions and its arrays run, it is renamed, or it is checked   *)
(* by a second link.  The parts share no state; a behaviour is that of one *)
(* of them, `part'; the variables of the others are idle.                  *)
(***************************************************************************)
EXTENDS Integers, Sequences

CONSTANTS
    Page,
    Machines, Regions, Bases, Piece, Garbage,   \* of Mprotect
    NBins, Binaries, ExcludeChoices,            \* of InitOrder
    HashWidth, Objects, MappingFiles, Strays,   \* of Renamer
    CommandLines                                \* of CheckOutput

VARIABLES
    part,
    machine, input, base, code, ip, reg, readonly, calls, code_pc,
    bin, needs, excluded, phase, cur, init_array, fini_array, dynamic, ran,
    original, lines, object, mapping, tos, strtab_builder, sym_names, layout, gnu_hash, renamer_pc, next,
    cmd, run, label, queue, libraries, file_of, exposed, public, TLSMemSize_s, TLSFileSize_s, EHFrameSize_s, output

Relro == INSTANCE Mprotect WITH Inputs <- Regions, pc <- code_pc
Start == INSTANCE InitOrder
Ren   == INSTANCE Renamer WITH Binaries <- Objects, bin <- object, pc <- renamer_pc, i <- next
Check == INSTANCE CheckOutput

ASSUME OutputUseAssumption ==
    /\ Relro!MachinesAssumption /\ Relro!WidthAssumption /\ Relro!InputsAssumption
    /\ Start!BinariesAssumption
    /\ Ren!PageAssumption /\ Ren!HashWidthAssumption
    /\ Ren!BinariesAssumption /\ Ren!MappingFilesAssumption /\ Ren!StraysAssumption
    /\ Check!CommandLinesAssumption

relro_vars ==
    <<machine, input, base, code, ip, reg, readonly, calls, code_pc>>
start_vars ==
    <<bin, needs, excluded, phase, cur, init_array, fini_array, dynamic, ran>>
ren_vars ==
    <<original, lines, object, mapping, tos, strtab_builder, sym_names, layout,
      gnu_hash, renamer_pc, next>>
check_vars ==
    <<cmd, run, label, queue, libraries, file_of, exposed, public, TLSMemSize_s,
      TLSFileSize_s, EHFrameSize_s, output>>

vars == <<part, relro_vars, start_vars, ren_vars, check_vars>>

Idle == <<>>

IdleRelro == machine = Idle /\ input = Idle /\ base = Idle /\ code = Idle /\ ip = Idle /\ reg = Idle
             /\ readonly = Idle /\ calls = Idle /\ code_pc = Idle
IdleStart == bin = Idle /\ needs = Idle /\ excluded = Idle /\ phase = Idle /\ cur = Idle
             /\ init_array = Idle /\ fini_array = Idle /\ dynamic = Idle /\ ran = Idle
IdleRen   == original = Idle /\ lines = Idle /\ object = Idle /\ mapping = Idle /\ tos = Idle
             /\ strtab_builder = Idle /\ sym_names = Idle /\ layout = Idle /\ gnu_hash = Idle
             /\ renamer_pc = Idle /\ next = Idle
IdleCheck == cmd = Idle /\ run = Idle /\ label = Idle /\ queue = Idle /\ libraries = Idle
             /\ file_of = Idle /\ exposed = Idle /\ public = Idle /\ TLSMemSize_s = Idle
             /\ TLSFileSize_s = Idle /\ EHFrameSize_s = Idle /\ output = Idle

Init ==
    \/ part = "protect" /\ Relro!Init /\ IdleStart /\ IdleRen /\ IdleCheck
    \/ part = "load"    /\ Start!Init /\ IdleRelro /\ IdleRen /\ IdleCheck
    \/ part = "rename"  /\ Ren!Init /\ IdleRelro /\ IdleStart /\ IdleCheck
    \/ part = "check"   /\ Check!Init /\ IdleRelro /\ IdleStart /\ IdleRen

Protect == part = "protect" /\ Relro!Next /\ UNCHANGED <<part, start_vars, ren_vars, check_vars>>
Load    == part = "load" /\ Start!Next /\ UNCHANGED <<part, relro_vars, ren_vars, check_vars>>
Rename  == part = "rename" /\ Ren!Next /\ UNCHANGED <<part, relro_vars, start_vars, check_vars>>
Relink  == part = "check" /\ Check!Next /\ UNCHANGED <<part, relro_vars, start_vars, ren_vars>>

Next == Protect \/ Load \/ Rename \/ Relink

Spec == Init /\ [][Next]_vars

-----------------------------------------------------------------------------
(***************************************************************************)
(* Properties.                                                             *)
(***************************************************************************)
\* Every variable of the part that runs has its type.
TypeOK ==
    CASE part = "protect" -> Relro!TypeOK
      [] part = "load"    -> Start!TypeOK
      [] part = "rename"  -> Ren!TypeOK
      [] part = "check"   -> Check!TypeOK

\* When the x86-64 code returns, exactly the pages of the RELRO regions are
\* read-only, wherever the output is mapped, if the sizes fit in 32 bits; with
\* 2 GiB or more it does not return.  It traps when a call fails, and at no time
\* is another page read-only.  The code has the length that the layout planned.
\* The aarch64 code protects nothing (mprotect_builder.h:26-90,
\* mprotect_builder.cc:7-69, sold.h:147-163).
RelroProtected ==
    part = "protect" =>
        /\ Relro!SizeIsPlanned /\ Relro!NothingElseProtected
        /\ Relro!PagesProtected /\ Relro!TrapsOnFailure /\ Relro!CallsNameRegions

\* The functions of many binaries run from one array as they would from their
\* own at start: libraries first, each once, behind the RELRO code.  At exit
\* they run in the same order once more, libraries first (sold.cc:436-455).
ArraysRun ==
    part = "load" =>
        /\ Start!InitialisersInOrder /\ Start!EachRunsOnce /\ Start!ProtectedFirst
        /\ Start!LibrariesFinalisedFirst

\* Whatever the mapping swaps or chains, the loader finds every symbol of the
\* renamed object under its new name, and the strings that .dynamic and one
\* versioned symbol need, in a segment of its own; only what the program rejects
\* for a reason aborts (renamer_main.cc:67-254).
EverythingRenamed ==
    part = "rename" =>
        /\ Ren!StringsAgree /\ Ren!NamesRenamed /\ Ren!LookupFinds
        /\ Ren!DynamicStringsFound /\ Ren!VersionsKeptOnce
        /\ Ren!NewSegmentApart /\ Ren!LoadsAscending /\ Ren!ValidRequestSucceeds

\* The sizes that the second Sold of --check-output inherits never stop the first
\* link; the check passes only when it would have computed the same.  Of the aborts
\* of CheckOutput (a library not found or without a soname, a search path with a
\* variable, the three sizes, GetVersion), the check meets one only when libraries
\* are not where they were, when an excluded library brings a linked one back, or
\* when versions of what is inside the output are filed under another name
\* (sold_main.cc:101-110).
CheckDecides ==
    part = "check" =>
        /\ Check!FirstLinkSucceeds /\ Check!MisplacedOnlyByPaths
        /\ Check!RelinksOnlyThroughExcluded
        /\ Check!PassMeansSame /\ Check!FailsOnlyForThreeReasons
=============================================================================
