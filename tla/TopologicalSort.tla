--------------------------- MODULE TopologicalSort ---------------------------
(***************************************************************************)
(* TopologicalSort of sold.cc: the order in which the binaries are linked. *)
(* The list buf starts in the order the libraries were found.  The binary  *)
(* at position i is sent to the end of the list when a later one needs it; *)
(* `seen' counts how often it was looked at, so that a dependency cycle    *)
(* does not send its members round for ever.                               *)
(***************************************************************************)
EXTENDS Integers, Sequences, FiniteSets

CONSTANTS
    Libs,      \* names a DT_NEEDED entry can hold
    Root       \* the main binary, which the list holds under an empty name

ASSUME RootAssumption == Root \notin Libs

Names == Libs \cup {Root}

VARIABLES
    neededs,   \* neededs[n]: the DT_NEEDED entries of binary n, in order
    buf,       \* the list: [name, seen]
    i,         \* i_it, as a position
    sorted     \* the loop has been left

Needs(k, n) == n \in {neededs[k][j] : j \in DOMAIN neededs[k]}

ListOf(names) == [j \in DOMAIN names |-> [name |-> names[j], seen |-> 0]]

\* n_rest is the length of the list throughout.
n_rest == Len(buf)

\* Mutant of NeededLater: k_it starts one element before the last.
NeededBeforeLast ==
    \E k \in (i + 1)..(Len(buf) - 1) : buf[i].name # Root /\ Needs(buf[k].name, buf[i].name)

\* A binary behind position i needs the one at i.  Nothing needs the main
\* binary: its name in the list is "".
NeededLater ==
    \E k \in (i + 1)..Len(buf) : buf[i].name # Root /\ Needs(buf[k].name, buf[i].name)

Looked == [buf EXCEPT ![i].seen = @ + 1]

\* Mutant of MovedToEnd: the last element is overwritten.
MovedOverLast == [j \in DOMAIN buf |-> IF j = Len(buf) THEN Looked[i] ELSE buf[j]]

\* Mutant of MovedToEnd: the look is not counted.
MovedUnseen == [j \in DOMAIN buf |-> IF j < i THEN buf[j]
                                     ELSE IF j < Len(buf) THEN buf[j + 1]
                                     ELSE buf[i]]

\* Erase position i and append its element, whose look has been counted.
MovedToEnd == [j \in DOMAIN buf |-> IF j < i THEN buf[j]
                                    ELSE IF j < Len(buf) THEN buf[j + 1]
                                    ELSE Looked[i]]

\* ++i_it, and seen starts again from 0 for what is left.
Advance(list) ==
    /\ i' = i + 1
    /\ IF i = Len(list)
       THEN buf' = list /\ sorted' = TRUE
       ELSE /\ buf' = [j \in DOMAIN list |->
                         IF j > i THEN [list[j] EXCEPT !.seen = 0] ELSE list[j]]
            /\ UNCHANGED sorted

\* The next binary has come round more often than there are binaries.
Exhausted == MovedToEnd[i].seen > n_rest

\* One turn of the outer loop.
SortStep ==
    /\ ~sorted /\ i <= Len(buf)
    /\ IF ~NeededLater THEN Advance(Looked)
       ELSE IF Exhausted THEN Advance(MovedToEnd)
       ELSE buf' = MovedToEnd /\ UNCHANGED <<i, sorted>>
    /\ UNCHANGED neededs

Order == [j \in DOMAIN buf |-> buf[j].name]
=============================================================================
