----------------------------- MODULE TLSTemplate -----------------------------
(***************************************************************************)
(* The TLS template of the output (struct TLS of utils.h, CollectTLS and   *)
(* RemapTLS of sold.cc).  Every linked binary brings one PT_TLS segment:   *)
(* filesz bytes of initial values, then zeros up to memsz.  The output has *)
(* one block: all the initial values in link order, then all the zeros.    *)
(***************************************************************************)
EXTENDS Integers, Sequences

CONSTANT NBins

ASSUME NBinsAssumption == NBins \in Nat \ {0}

Bins == 1..NBins

VARIABLES
    phdr,       \* phdr[b]: the PT_TLS header of binary b, memsz 0 when it has none
    data,       \* tls_.data
    filesz,     \* tls_.filesz
    memsz,      \* tls_.memsz
    bss_offset  \* the local of CollectTLS

tls_ == <<data, filesz, memsz, bss_offset>>

HasTLS(b) == phdr[b].memsz > 0

\* The sum of v over the linked binaries.
SumBins(v) ==
    LET sum[n \in 0..NBins] == IF n = 0 THEN 0 ELSE sum[n - 1] + v[n]
    IN  sum[NBins]

\* What DecideMemOffset and BuildLoads reserve for the template.
TLSMemSize  == SumBins([b \in Bins |-> phdr[b].memsz])
TLSFileSize == SumBins([b \in Bins |-> phdr[b].filesz])

InitTLS == data = <<>> /\ filesz = 0 /\ memsz = 0 /\ bss_offset = 0

\* Mutant of Collected: the offset is taken after filesz has grown.
CollectedLate(b) == [bin |-> b, size |-> phdr[b].filesz,
                     file_offset |-> filesz + phdr[b].filesz, bss_offset |-> bss_offset]

Collected(b) == [bin |-> b, size |-> phdr[b].filesz,
                 file_offset |-> filesz, bss_offset |-> bss_offset]

\* Mutant of BssSize: the sizes are swapped.
BssSizeSwapped(b) == phdr[b].filesz - phdr[b].memsz

BssSize(b) == phdr[b].memsz - phdr[b].filesz

CollectTLSOf(b) ==
    IF HasTLS(b)
    THEN /\ data' = Append(data, Collected(b))
         /\ memsz' = memsz + phdr[b].memsz
         /\ filesz' = filesz + phdr[b].filesz
         /\ bss_offset' = bss_offset + BssSize(b)
    ELSE UNCHANGED tls_

\* The zeros come after all the initial values.
FinishTLS ==
    /\ data' = [k \in DOMAIN data |-> [data[k] EXCEPT !.bss_offset = @ + filesz]]
    /\ UNCHANGED <<filesz, memsz, bss_offset>>

\* tls_.data[tls_.bin_to_index[b]]
Entry(b) == data[CHOOSE k \in DOMAIN data : data[k].bin = b]

InData(b, off) == off < phdr[b].filesz

\* RemapTLS, for symbols and for relocated places in the initial values.
RemapTLS(b, off) ==
    IF InData(b, off) THEN off + Entry(b).file_offset ELSE off + Entry(b).bss_offset

\* Mutant of RemapFixed: the offset of a zero is not rebased, as in RemapTLS.
RemapFixedUnrebased(b, off) ==
    IF InData(b, off) THEN off + Entry(b).file_offset ELSE off + Entry(b).bss_offset

\* The correction of an offset the compiler's linker fixed (local dynamic).
RemapFixed(b, off) ==
    IF InData(b, off) THEN off + Entry(b).file_offset
    ELSE off + Entry(b).bss_offset - phdr[b].filesz
=============================================================================
