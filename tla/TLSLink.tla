------------------------------- MODULE TLSLink -------------------------------
(***************************************************************************)
(* From the PT_TLS segments of the linked binaries to the block a thread   *)
(* gets: CollectTLS builds the template, LoadDynSymtab moves the symbols,  *)
(* the relocation passes move what refers to a variable without a symbol,  *)
(* EmitTLS writes the initial values.  A variable is a byte <<b, off>> of  *)
(* binary b's own block; a reference to it is where the output ends up     *)
(* looking for it in the block of the output.                              *)
(***************************************************************************)
EXTENDS TLSTemplate, FiniteSets

CONSTANTS
    Headers,   \* PT_TLS headers a binary may have
    MaxRefs    \* bound: references in all

ASSUME HeadersAssumption ==
    /\ Headers \subseteq [filesz : Nat, memsz : Nat]
    /\ \A h \in Headers : h.filesz <= h.memsz
    /\ MaxRefs \in Nat

VARIABLES
    phase,   \* "collect", "symbols", "relocate", "emit", "done" or "aborted"
    cur,     \* the binary (for "emit", the template entry) the stage is at
    refs,    \* references: [bin, off, how, at]
    image    \* what EmitTLS has written: the variable each byte initialises

vars == <<phdr, tls_, phase, cur, refs, image>>

Init ==
    /\ phdr \in [Bins -> Headers]
    /\ InitTLS
    /\ phase = "collect" /\ cur = 1 /\ refs = {} /\ image = <<>>

CollectTLS ==
    /\ phase = "collect" /\ cur <= NBins
    /\ CollectTLSOf(cur)
    /\ cur' = cur + 1
    /\ UNCHANGED <<phdr, phase, refs, image>>

EndCollectTLS ==
    /\ phase = "collect" /\ cur > NBins
    /\ IF memsz = TLSMemSize
       THEN FinishTLS /\ phase' = "symbols"
       ELSE UNCHANGED tls_ /\ phase' = "aborted"
    /\ cur' = 1
    /\ UNCHANGED <<phdr, refs, image>>

-----------------------------------------------------------------------------
Offsets(b) == 0..(phdr[b].memsz - 1)

NewRef(off, how, at) ==
    /\ Cardinality(refs) < MaxRefs
    /\ refs' = refs \cup {[bin |-> cur, off |-> off, how |-> how, at |-> at]}
    /\ UNCHANGED <<phdr, tls_, phase, cur, image>>

\* LoadDynSymtab: st_value of a defined TLS symbol, in place.
LoadTLSSymbol ==
    /\ phase = "symbols"
    /\ \E off \in Offsets(cur) : NewRef(off, "symbol", RemapTLS(cur, off))

\* A relocation of a place in the initial values; r_offset is kept relative to
\* tls_offset_.
RelocateInTLSData ==
    /\ phase = "relocate"
    /\ \E off \in Offsets(cur) :
          InData(cur, off) /\ NewRef(off, "place", RemapTLS(cur, off))

\* DTPMOD64 with no DTPOFF64 beside it: the word after it in the GOT holds the
\* whole offset of a variable.  The binary has a TLS segment and the word is in it
\* (sold.cc:641, 677, 695, elf_binary.cc:103: OutputLayout's ModuleKnown).
RelocateFixedOffset ==
    /\ phase = "relocate"
    /\ \E off \in Offsets(cur) : NewRef(off, "fixed", RemapFixed(cur, off))

\* The same, when the word holds the start of the binary's block and the code
\* adds the offset of the variable.
RelocateBase ==
    /\ phase = "relocate"
    /\ \E off \in Offsets(cur) : NewRef(off, "base", RemapFixed(cur, 0) + off)

\* TLSDESC without a symbol name: the addend is the offset.
RelocateTLSDESC ==
    /\ phase = "relocate"
    /\ \E off \in Offsets(cur) : NewRef(off, "desc", RemapFixed(cur, off))

\* TPOFF64 without a symbol name (initial exec, a static variable): the addend
\* is the offset in the binary's own block and is not corrected.
RelocateTPOFF ==
    /\ phase = "relocate"
    /\ \E off \in Offsets(cur) : NewRef(off, "tpoff", off)

NextBinary ==
    /\ phase \in {"symbols", "relocate"}
    /\ IF cur < NBins THEN cur' = cur + 1 /\ UNCHANGED phase
       ELSE cur' = 1 /\ phase' = IF phase = "symbols" THEN "relocate" ELSE "emit"
    /\ UNCHANGED <<phdr, tls_, refs, image>>

-----------------------------------------------------------------------------
Bytes(d) == [k \in 1..d.size |-> <<d.bin, k - 1>>]

\* Mutant of EmitTLS: an entry is padded to its size in memory.
EmitTLSPadded ==
    /\ phase = "emit" /\ cur <= Len(data)
    /\ image' = image \o [k \in 1..phdr[data[cur].bin].memsz |-> <<data[cur].bin, k - 1>>]
    /\ cur' = cur + 1
    /\ UNCHANGED <<phdr, tls_, phase, refs>>

EmitTLS ==
    /\ phase = "emit" /\ cur <= Len(data)
    /\ image' = image \o Bytes(data[cur])
    /\ cur' = cur + 1
    /\ UNCHANGED <<phdr, tls_, phase, refs>>

EndEmitTLS ==
    /\ phase = "emit" /\ cur > Len(data)
    /\ phase' = "done"
    /\ UNCHANGED <<phdr, tls_, cur, refs, image>>

Next ==
    \/ CollectTLS \/ EndCollectTLS
    \/ LoadTLSSymbol
    \/ RelocateInTLSData \/ RelocateFixedOffset \/ RelocateBase \/ RelocateTLSDESC
    \/ RelocateTPOFF
    \/ NextBinary
    \/ EmitTLS \/ EndEmitTLS

Spec == Init /\ [][Next]_vars

-----------------------------------------------------------------------------
(***************************************************************************)
(* Properties.                                                             *)
(***************************************************************************)
Data == [bin : Bins, size : Nat, file_offset : Nat, bss_offset : Nat]
Hows == {"symbol", "place", "fixed", "base", "desc", "tpoff"}

\* Every variable has its type; offsets never go below zero.
TypeOK ==
    /\ phdr \in [Bins -> Headers]
    /\ data \in Seq(Data) /\ filesz \in Nat /\ memsz \in Nat /\ bss_offset \in Nat
    /\ phase \in {"collect", "symbols", "relocate", "emit", "done", "aborted"}
    /\ cur \in Nat
    /\ refs \subseteq [bin : Bins, off : Nat, how : Hows, at : Nat]
    /\ image \in Seq(Bins \X Nat)

\* What is found where r refers to is the initial value of its variable.
Reaches(r) == r.at + 1 \in DOMAIN image /\ image[r.at + 1] = <<r.bin, r.off>>

\* However a variable with an initial value is referred to, the output finds at
\* that place the byte EmitTLS wrote for it (sold.cc:704-709, sold.h:280-286);
\* the initial exec model, which sold does not support, is the exception.
DataReachesImage ==
    phase = "done" =>
        \A r \in refs : InData(r.bin, r.off) /\ r.how # "tpoff" => Reaches(r)

\* An initial exec reference without a symbol is right exactly when no binary
\* linked before has initial values: the main binary's own are, and those of a
\* library silently read another binary's variable (sold.cc:714-721,
\* README.md:72).
InitialExecOfFirst ==
    phase = "done" =>
        \A r \in refs : InData(r.bin, r.off) /\ r.how = "tpoff" =>
            (Reaches(r) <=> \A b \in 1..(r.bin - 1) : phdr[b].filesz = 0)

\* References to a variable the compiler's linker fixed the offset of.
Fixed(r) == r.how \in {"place", "fixed", "desc"}

\* No two fixed offsets of different variables fall on the same byte, one to a
\* variable without an initial value never falls on an initial value, and all
\* stay in the block (the comment at sold.cc:697-702).
FixedOffsetsApart ==
    \A r \in refs : Fixed(r) =>
        /\ r.at < memsz
        /\ ~InData(r.bin, r.off) => filesz <= r.at
        /\ \A s \in refs : Fixed(s) /\ s.at = r.at => s.bin = r.bin /\ s.off = r.off

\* The bytes of other binaries that stand before the variable of r in the block.
OthersBefore(r) ==
    SumBins([b \in Bins |->
        IF b = r.bin THEN 0
        ELSE IF InData(r.bin, r.off) THEN IF b < r.bin THEN phdr[b].filesz ELSE 0
        ELSE IF b < r.bin THEN phdr[b].memsz ELSE phdr[b].filesz])

\* Alignments a segment may ask for.
Alignments == {2, 4}

\* CollectTLS puts no padding between segments: a variable keeps the alignment it
\* had in its own binary exactly when the bytes of the others before it happen to
\* be a multiple of it (sold.cc:413-422; the block itself is page aligned).
AlignedUnlessShifted ==
    \A r \in refs : Fixed(r) =>
        \A a \in Alignments : r.at % a = r.off % a <=> OthersBefore(r) % a = 0

\* What sold does not promise holds exactly when the binaries linked before leave
\* it alone: initial exec references are right, and variables are aligned.
RightUnlessShifted == InitialExecOfFirst /\ AlignedUnlessShifted

\* The comment at sold.cc:699-702 for a reference r: a variable without an
\* initial value goes to [bss_offset, bss_offset + memsz - filesz) of its binary.
Remapped(r) ==
    ~InData(r.bin, r.off) =>
        /\ Entry(r.bin).bss_offset <= r.at
        /\ r.at < Entry(r.bin).bss_offset + phdr[r.bin].memsz - phdr[r.bin].filesz

\* That comment, for symbols (RemapTLS, sold.cc:465-473).
BssSymbolRemapped == \A r \in refs : r.how = "symbol" => Remapped(r)

\* That comment, for code that adds the offset of the variable to the offset of
\* the block (sold.cc:698-709).
BssBaseRemapped == \A r \in refs : r.how = "base" => Remapped(r)
=============================================================================
