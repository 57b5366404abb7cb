------------------------------- MODULE InitOrder -------------------------------
(***************************************************************************)
(* What runs when the output is loaded and unloaded: CollectArrays merges  *)
(* the initialisers and finalisers of the linked binaries, BuildDynamic    *)
(* keeps DT_INIT and DT_FINI, and the dynamic loader runs what it finds.   *)
(* Binaries are numbered in link order, 1 is the main binary; a function   *)
(* is [bin, kind, k], the k-th of an array or, with k = 0, the one of      *)
(* DT_INIT or DT_FINI.  Binary 0 owns the RELRO code.                      *)
(***************************************************************************)
EXTENDS Integers, Sequences, FiniteSets

CONSTANTS
    NBins,
    Binaries,        \* what a binary may hold: [init, fini, dt], dt the entries it has of Entries
    ExcludeChoices   \* sets of binaries --exclude-from-fini may name

Bins == 1..NBins
Main == 1
Entries == {"dt_init", "dt_fini"}

BinariesAssumption ==
    /\ NBins \in Nat \ {0}
    /\ Binaries \subseteq [init : Nat, fini : Nat, dt : SUBSET Entries]
    /\ ExcludeChoices \subseteq SUBSET Bins

VARIABLES
    bin, needs, excluded,    \* the input, as linked
    phase,                   \* "init", "fini", "dynamic", "load", "run", "exit", "done" or "aborted"
    cur,                     \* the binary a loop of CollectArrays is at, or the slot the loader is at
    init_array, fini_array,  \* of the output
    dynamic,                 \* the functions of DT_INIT and DT_FINI
    ran                      \* what has run so far, in order

input == <<bin, needs, excluded>>
vars  == <<input, phase, cur, init_array, fini_array, dynamic, ran>>

Function(b, kind, k) == [bin |-> b, kind |-> kind, k |-> k]

\* The input's DT_NEEDED graph has no cycle; users come before what they use.
Init ==
    /\ bin \in [Bins -> Binaries]
    /\ needs \in {n \in [Bins -> SUBSET Bins] : \A b \in Bins : \A c \in n[b] : b < c}
    /\ excluded \in ExcludeChoices
    /\ phase = "init" /\ cur = NBins
    /\ init_array = <<Function(0, "mprotect", 0)>> /\ fini_array = <<>>
    /\ dynamic = {} /\ ran = <<>>

Slots(b, kind, n) == [k \in 1..n |-> Function(b, kind, k)]

\* Mutant of WithInits: a binary's own initialisers are walked backwards too.
WithInitsBackward(b) ==
    init_array \o [k \in 1..bin[b].init |-> Function(b, "init", bin[b].init + 1 - k)]

WithInits(b) == init_array \o Slots(b, "init", bin[b].init)

\* The last binary first.
CollectInit ==
    /\ phase = "init"
    /\ init_array' = WithInits(cur)
    /\ IF cur > 1 THEN cur' = cur - 1 /\ UNCHANGED phase
       ELSE cur' = 1 /\ phase' = "fini"
    /\ UNCHANGED <<input, fini_array, dynamic, ran>>

Collected(b) == b \notin excluded

\* The first binary first.  The relocations of the slots of an array that was
\* left out find no place, and Relocate aborts.
CollectFini ==
    /\ phase = "fini"
    /\ fini_array' = IF Collected(cur)
                     THEN fini_array \o Slots(cur, "fini", bin[cur].fini)
                     ELSE fini_array
    /\ IF cur < NBins THEN cur' = cur + 1 /\ UNCHANGED phase
       ELSE /\ cur' = 1
            /\ phase' = IF \E b \in excluded : bin[b].fini > 0 THEN "aborted" ELSE "dynamic"
    /\ UNCHANGED <<input, init_array, dynamic, ran>>

\* Each entry of the main binary on its own.
Kept == {Function(Main, kind, 0) : kind \in bin[Main].dt}

BuildDynamic ==
    /\ phase = "dynamic"
    /\ dynamic' = Kept
    /\ phase' = "load"
    /\ UNCHANGED <<input, cur, init_array, fini_array, ran>>

-----------------------------------------------------------------------------
\* The dynamic loader: DT_INIT, then DT_INIT_ARRAY from its first slot; at exit
\* DT_FINI_ARRAY from its last slot, then DT_FINI.
RunEntry(kind) == IF \E f \in dynamic : f.kind = kind
                  THEN Append(ran, CHOOSE f \in dynamic : f.kind = kind)
                  ELSE ran

RunDtInit ==
    /\ phase = "load"
    /\ ran' = RunEntry("dt_init")
    /\ phase' = "run" /\ cur' = 1
    /\ UNCHANGED <<input, init_array, fini_array, dynamic>>

RunInitArray ==
    /\ phase = "run" /\ cur <= Len(init_array)
    /\ ran' = Append(ran, init_array[cur]) /\ cur' = cur + 1
    /\ UNCHANGED <<input, phase, init_array, fini_array, dynamic>>

Exit ==
    /\ phase = "run" /\ cur > Len(init_array)
    /\ phase' = "exit" /\ cur' = Len(fini_array)
    /\ UNCHANGED <<input, init_array, fini_array, dynamic, ran>>

RunFiniArray ==
    /\ phase = "exit" /\ cur > 0
    /\ ran' = Append(ran, fini_array[cur]) /\ cur' = cur - 1
    /\ UNCHANGED <<input, phase, init_array, fini_array, dynamic>>

RunDtFini ==
    /\ phase = "exit" /\ cur = 0
    /\ ran' = RunEntry("dt_fini")
    /\ phase' = "done"
    /\ UNCHANGED <<input, cur, init_array, fini_array, dynamic>>

Next ==
    \/ CollectInit \/ CollectFini \/ BuildDynamic
    \/ RunDtInit \/ RunInitArray \/ Exit \/ RunFiniArray \/ RunDtFini

Spec == Init /\ [][Next]_vars

-----------------------------------------------------------------------------
(***************************************************************************)
(* Properties.                                                             *)
(***************************************************************************)
Functions == [bin : 0..NBins, k : Nat,
              kind : {"mprotect", "init", "fini", "dt_init", "dt_fini"}]

\* Every variable has its type.
TypeOK ==
    /\ bin \in [Bins -> Binaries] /\ needs \in [Bins -> SUBSET Bins] /\ excluded \subseteq Bins
    /\ phase \in {"init", "fini", "dynamic", "load", "run", "exit", "done", "aborted"}
    /\ cur \in 0..Len(init_array) + Len(fini_array) + NBins
    /\ init_array \in Seq(Functions) /\ fini_array \in Seq(Functions)
    /\ dynamic \subseteq {Function(Main, kind, 0) : kind \in Entries}
    /\ ran \in Seq(Functions)

Initialises(f) == f.kind \in {"init", "dt_init"}

\* A binary is initialised after every binary it needs, and its initialisers
\* run in their order; the one exception is DT_INIT of the main binary, which
\* the loader runs before anything CollectArrays collected (sold.cc:436-445,
\* 214-216).
InitialisersInOrder ==
    \A j, k \in DOMAIN ran : j < k /\ Initialises(ran[j]) /\ Initialises(ran[k]) =>
        /\ ran[k].bin = ran[j].bin => ran[j].k < ran[k].k
        /\ ran[k].bin \in needs[ran[j].bin] => ran[j] = Function(Main, "dt_init", 0)

Times(f) == Cardinality({j \in DOMAIN ran : ran[j] = f})

\* Every slot of every array runs exactly once; of the functions of DT_INIT and
\* DT_FINI only those of the main binary do (sold.cc:214-219, 436-455).
EachRunsOnce ==
    phase = "done" => \A b \in Bins :
        /\ \A k \in 1..bin[b].init : Times(Function(b, "init", k)) = 1
        /\ \A k \in 1..bin[b].fini : Times(Function(b, "fini", k)) = 1
        /\ \A kind \in Entries :
              Times(Function(b, kind, 0)) = IF b = Main /\ kind \in bin[b].dt THEN 1 ELSE 0

\* The RELRO regions of all binaries are read-only before any initialiser of an
\* array runs, and the code runs once (sold.cc:437, 171-189).
ProtectedFirst ==
    \A k \in DOMAIN ran : ran[k].kind \in {"init", "fini"} =>
        Cardinality({j \in 1..(k - 1) : ran[j].kind = "mprotect"}) = 1

\* At exit the loader runs the array from its end, so a binary is finalised
\* after every binary it needs, the other way round from a process with separate
\* libraries (sold.cc:446-455).
LibrariesFinalisedFirst ==
    \A j, k \in DOMAIN ran : j < k /\ ran[j].kind = "fini" /\ ran[k].kind = "fini" =>
        ran[k].bin \notin needs[ran[j].bin]
=============================================================================
