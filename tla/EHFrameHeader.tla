---------------------------- MODULE EHFrameHeader ----------------------------
(***************************************************************************)
(* .eh_frame_hdr from end to end: ELFBinary::ParsePhdrs decodes the table  *)
(* of each binary and looks at the FDE and the CIE behind every entry,     *)
(* EHFrameBuilder::Add moves the entries into one table, and the unwinder  *)
(* of the process looks a program counter up in it by bisection.  The      *)
(* contents of CIEs are in CIEParser.                                      *)
(***************************************************************************)
EXTENDS Integers, Sequences, SequencesExt

\* A binary has phdrs, a sequence of [type, vaddr, offset, filesz, memsz],
\* whether its header has the usual encodings, and fdes, a sequence of
\* [pc, len, at, cie, extended]: code range and place of each FDE and the place
\* of its CIE, all in addresses of the binary.
CONSTANTS
    Inputs,    \* sequences of binaries in link order
    Base,      \* where the first binary is mapped
    Page,
    Width      \* the bits of int32_t

EHFrameHeaderAssumption ==
    Base \in Nat /\ Page \in Nat \ {0} /\ Width \in Nat \ {0}

VARIABLES
    bins, label,
    b, ph, i,             \* the current binary, program header and entry
    loads, tls,           \* loads_ and tls_ of each binary
    table_in,             \* eh_frame_header_.table of each binary
    seen,                 \* the file offsets taken for [fde, cie] of each entry
    offsets, offset,      \* offsets_, and where the next part is mapped
    table, fde_count,     \* of ehframe_builder_
    ip, lo, hi, found     \* of the unwinder

input == <<ph, i, loads, tls, table_in, seen>>
output == <<offsets, offset, table, fde_count>>
lookup == <<ip, lo, hi, found>>
vars == <<bins, label, b, input, output, lookup>>

None == -1

ForEach(x) == [k \in DOMAIN bins |-> x]

Init ==
    /\ bins \in Inputs /\ label = "collect" /\ b = 1 /\ ph = 1 /\ i = 1
    /\ loads = ForEach(<<>>) /\ tls = ForEach(<<>>)
    /\ table_in = ForEach(<<>>) /\ seen = ForEach(<<>>)
    /\ offsets = <<>> /\ offset = Base /\ table = <<>> /\ fde_count = 0
    /\ ip = None /\ lo = 0 /\ hi = 0 /\ found = None

Goto(l) == label' = l
Abort == Goto("aborted")

NextBinary(this, next) ==
    IF b < Len(bins) THEN b' = b + 1 /\ Goto(this) ELSE b' = 1 /\ Goto(next)

AlignNext(x) == ((x + Page - 1) \div Page) * Page

Int32(x) == ((x + 2^(Width - 1)) % 2^Width) - 2^(Width - 1)

-----------------------------------------------------------------------------
InMemory(l, addr) == l.vaddr <= addr /\ addr < l.vaddr + l.memsz

InFile(l, off) == l.offset <= off /\ off < l.offset + l.filesz

\* ELFBinary::OffsetFromAddr and AddrFromOffset; None stands for LOG(FATAL).
OffsetFromAddr(addr) ==
    LET k == SelectInSeq(loads[b], LAMBDA l : InMemory(l, addr))
    IN  CASE k # 0 -> addr - loads[b][k].vaddr + loads[b][k].offset
          [] k = 0 /\ tls[b] # <<>> /\ tls[b].vaddr = addr -> tls[b].offset
          [] OTHER -> None

AddrFromOffset(off) ==
    LET k == SelectInSeq(loads[b], LAMBDA l : InFile(l, off))
    IN  CASE k # 0 -> off - loads[b][k].offset + loads[b][k].vaddr
          [] k = 0 /\ tls[b] # <<>> /\ tls[b].offset = off -> tls[b].vaddr
          [] OTHER -> None

-----------------------------------------------------------------------------
(***************************************************************************)
(* ParsePhdrs goes over the headers twice: PT_GNU_EH_FRAME may come before *)
(* the PT_LOAD that maps it.                                               *)
(***************************************************************************)
Phdr == bins[b].phdrs[ph]
LastPhdr == ph = Len(bins[b].phdrs)

CollectsFirst == TRUE

CollectPhdr ==
    /\ label = "collect"
    /\ loads' = [loads EXCEPT ![b] = IF Phdr.type = "LOAD" THEN Append(@, Phdr) ELSE @]
    /\ tls' = [tls EXCEPT ![b] = IF Phdr.type = "TLS" THEN Phdr ELSE @]
    /\ IF ~CollectsFirst THEN Goto("parse") /\ UNCHANGED ph
       ELSE IF LastPhdr THEN ph' = 1 /\ Goto("parse")
       ELSE ph' = ph + 1 /\ UNCHANGED label
    /\ UNCHANGED <<bins, b, i, table_in, seen, output, lookup>>

EndPhdr(phdr, binary, end) ==
    IF LastPhdr THEN ph' = 1 /\ NextBinary(binary, end)
    ELSE ph' = ph + 1 /\ Goto(phdr) /\ UNCHANGED b

OtherPhdr ==
    /\ label = "parse" /\ Phdr.type # "GNU_EH_FRAME"
    /\ EndPhdr("parse", "collect", "map")
    /\ UNCHANGED <<bins, i, loads, tls, table_in, seen, output, lookup>>

HeaderSize == 12

StartHeader ==
    /\ label = "parse" /\ Phdr.type = "GNU_EH_FRAME"
    /\ IF bins[b].usual /\ HeaderSize + 8 * Len(bins[b].fdes) <= Phdr.filesz
       THEN Goto("entry") ELSE Abort
    /\ UNCHANGED <<bins, b, ph, i, loads, tls, table_in, seen, output, lookup>>

\* What the linker of the binary wrote for FDE f: its entry, and the distance
\* from the CIE to the field that holds the distance.
EntryOf(f) == [initial_loc |-> f.pc - Phdr.vaddr, fde_ptr |-> f.at - Phdr.vaddr]
CIEDelta(f) == f.at + (IF f.extended THEN 12 ELSE 4) - f.cie

LengthSize(f) == IF f.extended THEN 12 ELSE 4

\* From the entry to the FDE, and from the FDE to the CIE.
FDEOffset(f) == OffsetFromAddr(AddrFromOffset(Phdr.offset) + EntryOf(f).fde_ptr)
CIEOffset(f, fde) == OffsetFromAddr(AddrFromOffset(fde + LengthSize(f)) - CIEDelta(f))

ReadEntry ==
    /\ label = "entry" /\ i <= Len(bins[b].fdes)
    /\ LET f == bins[b].fdes[i]
       IN  /\ table_in' = [table_in EXCEPT ![b] = Append(@, EntryOf(f))]
           /\ \E fde \in {FDEOffset(f)} : \E cie \in {CIEOffset(f, fde)} :
                 /\ seen' = [seen EXCEPT ![b] = Append(@, [fde |-> fde, cie |-> cie])]
                 /\ IF None \in {fde, cie} THEN Abort ELSE UNCHANGED label
    /\ i' = i + 1
    /\ UNCHANGED <<bins, b, ph, loads, tls, output, lookup>>

EndHeader ==
    /\ label = "entry" /\ i > Len(bins[b].fdes)
    /\ EndPhdr("parse", "collect", "map")
    /\ i' = 1
    /\ UNCHANGED <<bins, loads, tls, table_in, seen, output, lookup>>

-----------------------------------------------------------------------------
\* DecideMemOffset: the binaries one after the other, then the new header.
RangeEnd(ls) == Max({0} \cup {AlignNext(l.vaddr + l.memsz) : l \in Range(ls)})

DecideMemOffset ==
    /\ label = "map"
    /\ offsets' = Append(offsets, offset)
    /\ offset' = offset + RangeEnd(loads[b])
    /\ NextBinary("map", "add")
    /\ UNCHANGED <<bins, input, table, fde_count, lookup>>

Rebased(efh_vaddr, ptr, load_offset, new_efh_vaddr) ==
    Int32(Int32(efh_vaddr) + ptr + Int32(load_offset) - new_efh_vaddr)

\* Mutant of Extended: the binaries come in the opposite order.
ExtendedFront(old, new) == new \o old

Extended(old, new) == old \o new

Counted(n, more) == n + more

\* EHFrameBuilder::Add, once for each PT_GNU_EH_FRAME.
AddHeader ==
    /\ label = "add" /\ Phdr.type = "GNU_EH_FRAME"
    /\ LET to(ptr) == Rebased(AddrFromOffset(Phdr.offset), ptr, offsets[b], offset)
       IN  table' = Extended(table, [k \in DOMAIN table_in[b] |->
                        [initial_loc |-> to(table_in[b][k].initial_loc),
                         fde_ptr |-> to(table_in[b][k].fde_ptr)]])
    /\ fde_count' = Counted(fde_count, Len(bins[b].fdes))
    /\ UNCHANGED <<bins, offsets, offset, i, loads, tls, table_in, seen, lookup>>
    /\ EndPhdr("add", "add", "run")

AddOther ==
    /\ label = "add" /\ Phdr.type # "GNU_EH_FRAME"
    /\ EndPhdr("add", "add", "run")
    /\ UNCHANGED <<bins, i, loads, tls, table_in, seen, output, lookup>>

-----------------------------------------------------------------------------
(***************************************************************************)
(* The unwinder, which takes the addresses relative to the header.         *)
(***************************************************************************)
At(k) == table[k].initial_loc + offset

StartLookup ==
    /\ label = "run"
    /\ ip' \in (Base - 1)..offset
    /\ IF table = <<>> \/ ip' < At(1) THEN Goto("found") /\ UNCHANGED <<lo, hi>>
       ELSE Goto("bisect") /\ lo' = 1 /\ hi' = fde_count
    /\ UNCHANGED <<bins, b, input, output, found>>

\* The entry sought is in lo..hi.
Mid == (lo + hi + 1) \div 2

Bisect ==
    /\ label = "bisect" /\ lo < hi
    /\ IF ip < At(Mid) THEN hi' = Mid - 1 /\ UNCHANGED lo ELSE lo' = Mid /\ UNCHANGED hi
    /\ UNCHANGED <<bins, label, b, input, output, ip, found>>

\* All binaries' FDEs where they are mapped.
Mapped == UNION {{[pc |-> offsets[k] + f.pc, len |-> f.len, at |-> offsets[k] + f.at] :
                     f \in Range(bins[k].fdes)} : k \in DOMAIN bins}

\* The FDE's range decides; a pointer to anything else is taken for an FDE.
EndLookup ==
    /\ label = "bisect" /\ lo >= hi
    /\ LET at == table[lo].fde_ptr + offset
           fs == {f \in Mapped : f.at = at}
       IN  found' = IF fs = {} THEN None
                    ELSE IF \E f \in fs : f.pc <= ip /\ ip < f.pc + f.len THEN at ELSE None
    /\ Goto("found")
    /\ UNCHANGED <<bins, b, input, output, ip, lo, hi>>

Next ==
    \/ CollectPhdr \/ OtherPhdr \/ StartHeader \/ ReadEntry \/ EndHeader
    \/ DecideMemOffset \/ AddHeader \/ AddOther
    \/ StartLookup \/ Bisect \/ EndLookup

Spec == Init /\ [][Next]_vars

-----------------------------------------------------------------------------
\* Entries are 32-bit integers, there are as many as the count says, and the
\* search stays inside them.
TypeOK ==
    /\ label \in {"collect", "parse", "entry", "map", "add", "run", "bisect", "found", "aborted"}
    /\ b \in DOMAIN bins /\ ph \in DOMAIN bins[b].phdrs /\ i \in 1..(Len(bins[b].fdes) + 1)
    /\ \A k \in DOMAIN table : {table[k].initial_loc, table[k].fde_ptr} \subseteq (-(2^(Width - 1)))..(2^(Width - 1) - 1)
    /\ label \in {"run", "bisect", "found"} => fde_count = Len(table)
    /\ label = "bisect" => lo \in DOMAIN table /\ hi \in DOMAIN table
    /\ found \in Nat \cup {None}

\* Addresses and file offsets differ, by another amount in each segment, and
\* the path to a CIE changes between them four times: the bytes looked at are
\* those of the entry's FDE and its CIE.
InSegment(x, addr, off) ==
    \E k \in DOMAIN x.phdrs : LET l == x.phdrs[k] IN
        /\ l.type = "LOAD" /\ off \in l.offset..(l.offset + l.filesz - 1)
        /\ addr - l.vaddr = off - l.offset

LooksAtFDEs ==
    label # "aborted" =>
        \A k \in DOMAIN bins : \A n \in DOMAIN seen[k] :
            /\ InSegment(bins[k], bins[k].fdes[n].at, seen[k][n].fde)
            /\ InSegment(bins[k], bins[k].fdes[n].cie, seen[k][n].cie)

\* The process unwinds from every instruction of every binary with that
\* binary's own FDE, and from nowhere else.  One table serves them all, so this
\* needs the moved locations, the moved FDEs and the order together.
UnwindsFromEverywhere ==
    label = "found" =>
        IF \E f \in Mapped : f.pc <= ip /\ ip < f.pc + f.len
        THEN \E f \in Mapped : f.pc <= ip /\ ip < f.pc + f.len /\ found = f.at
        ELSE found = None

\* An unusual header and one shorter than its own count stop the program, and
\* nothing else does, whatever the order of the program headers.
BadHeader(x) == \E k \in DOMAIN x.phdrs :
    /\ x.phdrs[k].type = "GNU_EH_FRAME"
    /\ ~x.usual \/ x.phdrs[k].filesz < 12 + 8 * Len(x.fdes)

StopsExactlyOnBadHeaders ==
    /\ label = "aborted" => BadHeader(bins[b])
    /\ label = "map" => \A k \in DOMAIN bins : ~BadHeader(bins[k])
=============================================================================
