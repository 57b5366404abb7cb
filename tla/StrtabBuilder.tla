---------------------------- MODULE StrtabBuilder ----------------------------
(***************************************************************************)
(* StrtabBuilder (strtab_builder.h, strtab_builder.cc) and the reading of  *)
(* a string table.  A name is a sequence of positive letters; a string     *)
(* table is a sequence of letters and NULs (0), positions count from 0.    *)
(***************************************************************************)
EXTENDS Integers, Sequences

NewStrtab == [strtab |-> <<>>, cache |-> <<>>, is_freezed |-> FALSE]

\* The constructor's rename_mapping is applied once to every string.
Renamed(mapping, s) == IF s \in DOMAIN mapping THEN mapping[s] ELSE s

Put(f, k, v) == [x \in DOMAIN f \cup {k} |-> IF x = k THEN v ELSE f[x]]

\* Mutant of Appended: the cache gets the position after the string.
AppendedLate(b, t) ==
    [b EXCEPT !.strtab = @ \o Append(t, 0), !.cache = Put(@, t, Len(b.strtab) + Len(t) + 1)]

Appended(b, t) ==
    [b EXCEPT !.strtab = @ \o Append(t, 0), !.cache = Put(@, t, Len(b.strtab))]

\* CHECK(!is_freezed_) cannot fail: the callers add everything before they freeze
\* the builder (TypeOK of Renamer).
Add(b, mapping, s) ==
    LET t == Renamed(mapping, s)
    IN  IF t \in DOMAIN b.cache THEN b ELSE Appended(b, t)

GetPos(b, mapping, s) == b.cache[Renamed(mapping, s)]

\* Mutant of Freeze: strings may still be added.
FreezeForgotten(b) == b

Freeze(b) == [b EXCEPT !.is_freezed = TRUE]

\* The C string at position pos of the bytes tab (ELFBinary::Str).
Str(tab, pos) ==
    LET End == CHOOSE e \in pos..Len(tab) :
                  /\ e = Len(tab) \/ tab[e + 1] = 0
                  /\ \A k \in pos..(e - 1) : tab[k + 1] # 0
    IN  SubSeq(tab, pos + 1, End)

\* Every string the builder handed out is at the position it handed out.
CacheAgrees(b) == \A t \in DOMAIN b.cache : Str(b.strtab, b.cache[t]) = t
=============================================================================
