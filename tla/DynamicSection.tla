---------------------------- MODULE DynamicSection ----------------------------
(***************************************************************************)
(* ELFBinary::ParseDynamic, which reads the entries of .dynamic in two     *)
(* passes: a name can be read only once the string table is known, and the *)
(* entries come in any order.  Its input is a file of some other linker,   *)
(* or the section BuildDynamic has written.  Each member of ELFBinary that *)
(* an entry fills is called by the tag; 0 is its initial value.            *)
(***************************************************************************)
EXTENDS Integers, SequencesExt

CONSTANTS
    Entries,      \* the entries [tag, val] another linker may write
    MaxEntries,   \* bound: how many of them a file has
    Remainders,   \* what p_filesz of PT_DYNAMIC may leave after whole entries
    InSegments,   \* the addresses in a PT_LOAD, and that of the TLS segment
    Outputs       \* what BuildDynamic may be given

\* Pointers and numbers, and names: offsets in the string table.
Numbers == {"STRTAB", "SYMTAB", "GNU_HASH", "HASH", "RELA", "RELASZ", "JMPREL", "PLTRELSZ",
            "INIT_ARRAY", "INIT_ARRAYSZ", "FINI_ARRAY", "FINI_ARRAYSZ", "INIT", "FINI",
            "VERSYM", "VERNEED", "VERNEEDNUM", "VERDEF", "VERDEFNUM"}

\* Those that get_ptr turns into a place in the file.
Pointers == {"STRTAB", "SYMTAB", "GNU_HASH", "HASH", "RELA", "JMPREL", "INIT_ARRAY", "FINI_ARRAY",
             "VERSYM", "VERNEED", "VERDEF"}
SingleNames == {"SONAME", "RUNPATH", "RPATH"}

Tags == Numbers \cup SingleNames
        \cup {"NEEDED", "PLTREL", "REL", "RELSZ", "RELENT", "ignored"}

\* No string table is at the start of its file, and DT_PLTREL says that the
\* relocations have addends, DT_RELA, 7, or none, DT_REL, 17.
SectionEntries ==
    {e \in [tag : Tags, val : Nat] :
        (e.tag = "STRTAB" => e.val # 0) /\ (e.tag = "PLTREL" => e.val \in {7, 17})}

EntriesAssumption ==
    MaxEntries \in Nat /\ Remainders \subseteq Nat /\ Entries \subseteq SectionEntries

\* Names, addresses and numbers; the tables lie behind the ELF header, and they
\* and the arrays in the first segment.
OutputsAssumption ==
    \A o \in Outputs :
        /\ o.needed \in Seq(Nat) /\ o.tables \in Nat \ {0}
        /\ {o.soname, o.rpath, o.runpath, o.init, o.fini} \subseteq Nat
        /\ {o.init_array, o.ninit, o.nfini, o.nverneed, o.nrels} \subseteq Nat
        /\ {o.tables, o.init_array, o.init_array + 8 * o.ninit} \subseteq InSegments

VARIABLES
    dyns,      \* the section
    rest,      \* size % sizeof(Elf_Dyn)
    written,   \* <<what BuildDynamic was given>>, or <<>>: another linker
    phase,     \* "size", "first", "second", "done" or "aborted"
    cur,       \* the entry the loop is at
    number,    \* the members that hold a pointer or a number
    name,      \* soname_, runpath_, rpath_: [table, at], or None
    neededs,   \* neededs_, in order
    array      \* init_array_, fini_array_: the addresses their words were read at

members == <<number, name, neededs, array>>
vars    == <<dyns, rest, written, phase, cur, members>>

None == [table |-> 0, at |-> 0]

D(tag, val) == [tag |-> tag, val |-> val]
Present(tag) == {j \in DOMAIN dyns : dyns[j].tag = tag}

Start(section) ==
    /\ dyns = section /\ phase = "size" /\ cur = 1
    /\ number = [t \in Numbers |-> 0] /\ name = [t \in SingleNames |-> None]
    /\ neededs = <<>> /\ array = [t \in {"INIT_ARRAY", "FINI_ARRAY"} |-> <<>>]

\* The entry exists when the member it is for does.
Unless(value, tag) == IF value = 0 THEN <<>> ELSE <<D(tag, value)>>

RelSize(o) == 24 * o.nrels

\* The entries that are read back, in the order they are written.
BuildDynamic(o) ==
    [k \in DOMAIN o.needed |-> D("NEEDED", o.needed[k])]
    \o Unless(o.soname, "SONAME") \o Unless(o.rpath, "RPATH") \o Unless(o.runpath, "RUNPATH")
    \o Unless(o.init, "INIT") \o Unless(o.fini, "FINI")
    \o <<D("INIT_ARRAY", o.init_array), D("INIT_ARRAYSZ", 8 * o.ninit),
         D("FINI_ARRAY", o.init_array + 8 * o.ninit), D("FINI_ARRAYSZ", 8 * o.nfini),
         D("GNU_HASH", o.tables), D("STRTAB", o.tables), D("SYMTAB", o.tables)>>
    \o (IF o.nverneed > 0
        THEN <<D("VERSYM", o.tables), D("VERNEEDNUM", o.nverneed), D("VERNEED", o.tables)>>
        ELSE <<>>)
    \o <<D("RELA", o.tables), D("RELASZ", RelSize(o))>>

\* A linker writes the size of an array only with its address.
Sized(section) ==
    \A t \in {<<"INIT_ARRAYSZ", "INIT_ARRAY">>, <<"FINI_ARRAYSZ", "FINI_ARRAY">>} :
        (\E j \in DOMAIN section : section[j].tag = t[1])
            => (\E j \in DOMAIN section : section[j].tag = t[2])

Init ==
    \/ \E n \in 0..MaxEntries : \E section \in [1..n -> Entries] :
         /\ \A j, k \in 1..n : j # k => section[j] # section[k]
         /\ Sized(section)
         /\ Start(section) /\ rest \in Remainders /\ written = <<>>
    \/ \E o \in Outputs : Start(BuildDynamic(o)) /\ rest = 0 /\ written = <<o>>

-----------------------------------------------------------------------------
CheckSize ==
    /\ phase = "size"
    /\ phase' = IF rest = 0 THEN "first" ELSE "aborted"
    /\ UNCHANGED <<dyns, rest, written, cur, members>>

Entry == dyns[cur]

\* CHECKs on a file with relocations without addends, DT_RELA being 7, and the
\* LOG(FATAL) of OffsetFromAddr.
Unsupported(e) ==
    \/ e.tag \in {"REL", "RELSZ", "RELENT"} \/ (e.tag = "PLTREL" /\ e.val # 7)
    \/ e.tag \in Pointers /\ e.val \notin InSegments

\* What a member takes from its entry; a number of relocations from their size.
Taken(e) == IF e.tag \in {"RELASZ", "PLTRELSZ"} THEN e.val \div 24 ELSE e.val

Str(at) == [table |-> number["STRTAB"], at |-> at]

Filled(e) == IF e.tag \in Numbers THEN [number EXCEPT ![e.tag] = Taken(e)] ELSE number

\* Mutant of FirstPass: a needed name is read as soon as it is met.
FirstPassReadsNeeded ==
    /\ phase = "first" /\ cur <= Len(dyns) /\ ~Unsupported(Entry)
    /\ number' = Filled(Entry)
    /\ neededs' = IF Entry.tag = "NEEDED" THEN Append(neededs, Str(Entry.val)) ELSE neededs
    /\ cur' = cur + 1
    /\ UNCHANGED <<dyns, rest, written, phase, name, array>>

FirstPass ==
    /\ phase = "first" /\ cur <= Len(dyns)
    /\ IF Unsupported(Entry)
       THEN phase' = "aborted" /\ UNCHANGED <<number, cur>>
       ELSE number' = Filled(Entry) /\ cur' = cur + 1 /\ UNCHANGED phase
    /\ UNCHANGED <<dyns, rest, written, name, neededs, array>>

Words(addr, size) == [k \in 1..(size \div 8) |-> addr + 8 * (k - 1)]

ParseArrays ==
    [t \in {"INIT_ARRAY", "FINI_ARRAY"} |->
        Words(number[t], number[IF t = "INIT_ARRAY" THEN "INIT_ARRAYSZ" ELSE "FINI_ARRAYSZ"])]

\* CHECK(strtab_)
BetweenPasses ==
    /\ phase = "first" /\ cur > Len(dyns)
    /\ IF number["STRTAB"] = 0
       THEN phase' = "aborted" /\ UNCHANGED <<array, cur>>
       ELSE array' = ParseArrays /\ phase' = "second" /\ cur' = 1
    /\ UNCHANGED <<dyns, rest, written, number, name, neededs>>

SecondPass ==
    /\ phase = "second" /\ cur <= Len(dyns)
    /\ neededs' = IF Entry.tag = "NEEDED" THEN Append(neededs, Str(Entry.val)) ELSE neededs
    /\ name' = IF Entry.tag \in SingleNames
               THEN [name EXCEPT ![Entry.tag] = Str(Entry.val)] ELSE name
    /\ cur' = cur + 1
    /\ UNCHANGED <<dyns, rest, written, phase, number, array>>

EndSecondPass ==
    /\ phase = "second" /\ cur > Len(dyns)
    /\ phase' = "done"
    /\ UNCHANGED <<dyns, rest, written, cur, members>>

Next == CheckSize \/ FirstPass \/ BetweenPasses \/ SecondPass \/ EndSecondPass

Spec == Init /\ [][Next]_vars

-----------------------------------------------------------------------------
(***************************************************************************)
(* Properties.                                                             *)
(***************************************************************************)
Strings == [table : Nat, at : Nat]

\* Every variable has its type.
TypeOK ==
    /\ dyns \in Seq(SectionEntries)
    /\ rest \in Nat /\ phase \in {"size", "first", "second", "done", "aborted"} /\ cur \in 1..(Len(dyns) + 1)
    /\ number \in [Numbers -> Nat] /\ name \in [SingleNames -> Strings]
    /\ neededs \in Seq(Strings)
    /\ array \in [{"INIT_ARRAY", "FINI_ARRAY"} -> Seq(Nat)]

\* The value of the last entry of a tag, 0 without one.
ValueOf(tag) == IF Present(tag) = {} THEN 0
                ELSE dyns[CHOOSE j \in Present(tag) : \A k \in Present(tag) : k <= j].val

InTable(at) == [table |-> ValueOf("STRTAB"), at |-> at]

\* The names of the libraries, in their order: the one of entry j comes after
\* those of the entries before j.
Place(j) == Cardinality({k \in Present("NEEDED") : k <= j})

\* Wherever the entries stand, names are read from the file's string table, in
\* their order, and arrays with their own size (elf_binary.cc:511-592).
ReadInAnyOrder ==
    phase = "done" =>
        /\ Len(neededs) = Cardinality(Present("NEEDED"))
        /\ \A j \in Present("NEEDED") : neededs[Place(j)] = InTable(dyns[j].val)
        /\ \A t \in SingleNames : Present(t) # {} => name[t] = InTable(ValueOf(t))
        /\ array["INIT_ARRAY"] = Words(ValueOf("INIT_ARRAY"), ValueOf("INIT_ARRAYSZ"))
        /\ array["FINI_ARRAY"] = Words(ValueOf("FINI_ARRAY"), ValueOf("FINI_ARRAYSZ"))

\* A section BuildDynamic wrote, which has its names before its string table, is
\* read back as what it was given: the libraries, the slots of the arrays, the
\* relocations and the version records (sold.cc:201-242).
ReadsBack ==
    phase \in {"done", "aborted"} => \A o \in Range(written) :
        /\ phase = "done"
        /\ neededs = [k \in DOMAIN o.needed |-> InTable(o.needed[k])]
        /\ name["SONAME"].at = o.soname
        /\ name["RPATH"].at = o.rpath /\ name["RUNPATH"].at = o.runpath
        /\ number["INIT"] = o.init /\ number["FINI"] = o.fini
        /\ Len(array["INIT_ARRAY"]) = o.ninit /\ Len(array["FINI_ARRAY"]) = o.nfini
        /\ number["RELASZ"] = o.nrels /\ number["VERNEEDNUM"] = o.nverneed

Rel(e) == e.tag \in {"REL", "RELSZ", "RELENT"} \/ (e.tag = "PLTREL" /\ e.val = 17)

Lost(e) == e.tag \in Pointers /\ e.val \notin InSegments

Understood == /\ rest = 0 /\ Present("STRTAB") # {}
              /\ \A j \in DOMAIN dyns : ~Rel(dyns[j]) /\ ~Lost(dyns[j])

\* ParseDynamic stops exactly on a section that ends within an entry, on relocations
\* without addends, on a table or an array in no segment, and without a string
\* table, before it reads a name or a word (elf_binary.cc:513, 521, 538-544, 569, 603).
StopsOnUnsupported ==
    /\ phase = "done" => Understood
    /\ phase = "aborted" => ~Understood /\ neededs = <<>> /\ array["INIT_ARRAY"] = <<>>
=============================================================================
