---------------------------- MODULE TLSLink_proofs ----------------------------
(***************************************************************************)
(* Proofs about TLSLink for any number of binaries and any PT_TLS headers: *)
(* type correctness, and that every reference to a variable with an        *)
(* initial value finds that value in the image EmitTLS writes.             *)
(*                                                                         *)
(* The invariant behind the second: the entries of tls_.data tile the      *)
(* initial values without gaps (Tiled), one entry per binary (OneEntry),   *)
(* so that what EmitTLS appends for an entry lands at its file_offset      *)
(* (Written); and every reference points at the place its entry gives it   *)
(* (Aimed).                                                                *)
(*                                                                         *)
(* The theorems about offsets compare sums over the binaries.  OffsetInv   *)
(* says that the sizes so far and the entries' offsets are such sums       *)
(* (Summed), that a reference with a fixed offset is where these put it    *)
(* (Placed), and that each byte of the image belongs to an entry           *)
(* (Accounted).                                                            *)
(***************************************************************************)
EXTENDS TLSLink, SequenceTheorems, Induction_proofs, TLAPS

\* The first entry starts at 0, each one where its predecessor ends, and the
\* last one ends at filesz.
EndOf(k) == data[k].file_offset + data[k].size

Tiled ==
    /\ Len(data) = 0 => filesz = 0
    /\ Len(data) > 0 => data[1].file_offset = 0 /\ EndOf(Len(data)) = filesz
    /\ \A k \in 1..Len(data) : k < Len(data) => data[k + 1].file_offset = EndOf(k)

\* Each binary that has been collected has one entry, of the size of its
\* initial values.
OneEntry ==
    /\ \A k \in 1..Len(data) : data[k].size = phdr[data[k].bin].filesz
    /\ \A j, k \in 1..Len(data) : data[j].bin = data[k].bin => j = k
    /\ phase = "collect" => \A k \in 1..Len(data) : data[k].bin < cur
    /\ phase = "collect" =>
         \A b \in Bins : b < cur /\ HasTLS(b) => \E k \in 1..Len(data) : data[k].bin = b
    /\ phase \notin {"collect", "aborted"} =>
         \A b \in Bins : HasTLS(b) => \E k \in 1..Len(data) : data[k].bin = b

\* A reference to a variable with an initial value points into its entry, except
\* one of the initial exec model.
Aimed ==
    /\ phase = "collect" => refs = {}
    /\ \A r \in refs : InData(r.bin, r.off) /\ r.how # "tpoff" =>
         \E k \in 1..Len(data) : /\ data[k].bin = r.bin
                                 /\ r.at = r.off + data[k].file_offset

\* The bytes of entry k are where its file_offset says.
InPlace(k) ==
    /\ EndOf(k) <= Len(image)
    /\ \A o \in 0..(data[k].size - 1) :
          image[data[k].file_offset + o + 1] = <<data[k].bin, o>>

\* The entries before cur have been written, and nothing else.
Written ==
    /\ phase \in {"collect", "symbols", "relocate"} => image = <<>>
    /\ phase = "collect" => cur \in 1..(NBins + 1)
    /\ phase \in {"symbols", "relocate"} => cur \in Bins
    /\ phase = "emit" =>
         /\ cur >= 1
         /\ cur <= Len(data) => Len(image) = data[cur].file_offset
         /\ cur > Len(data) => Len(image) = filesz
         /\ \A k \in 1..Len(data) : k < cur => InPlace(k)
    /\ phase = "done" => \A k \in 1..Len(data) : InPlace(k)

IndInv == TypeOK /\ Tiled /\ OneEntry /\ Aimed /\ Written

-----------------------------------------------------------------------------
\* What the assumption on the headers says of a binary's header in TypeOK.
LEMMA HeaderSizes ==
    ASSUME TypeOK, NEW b \in Bins
    PROVE  /\ phdr[b] \in Headers
           /\ phdr[b].filesz \in Nat /\ phdr[b].memsz \in Nat
           /\ phdr[b].filesz <= phdr[b].memsz
  BY HeadersAssumption DEF TypeOK

\* The fields of an entry of tls_.data.
LEMMA EntryTyped ==
    ASSUME TypeOK
    PROVE  /\ data \in Seq(Data) /\ Len(data) \in Nat /\ DOMAIN data = 1..Len(data)
           /\ \A k \in 1..Len(data) :
                /\ data[k] \in Data
                /\ data[k].bin \in Bins /\ data[k].size \in Nat
                /\ data[k].file_offset \in Nat /\ data[k].bss_offset \in Nat
  <1>1. data \in Seq(Data)
    BY DEF TypeOK
  <1>2. \A k \in 1..Len(data) : data[k] \in Data
    BY <1>1
  <1>3. \A d \in Data : d.bin \in Bins /\ d.size \in Nat /\ d.file_offset \in Nat /\ d.bss_offset \in Nat
    BY DEF Data
  <1> QED
    BY <1>1, <1>2, <1>3

\* Once CollectTLS is done, a binary with TLS has an entry, and Entry finds it.
LEMMA EntryFound ==
    ASSUME IndInv, phase \in {"symbols", "relocate"}, NEW b \in Bins, HasTLS(b)
    PROVE  \E k \in 1..Len(data) : data[k].bin = b /\ Entry(b) = data[k] /\ data[k] \in Data
  <1>1. data \in Seq(Data) /\ DOMAIN data = 1..Len(data)
    BY DEF IndInv, TypeOK
  <1>2. \E k \in DOMAIN data : data[k].bin = b
    BY <1>1 DEF IndInv, OneEntry
  <1> DEFINE c == CHOOSE k \in DOMAIN data : data[k].bin = b
  <1>3. c \in DOMAIN data /\ data[c].bin = b
    BY <1>2
  <1>4. Entry(b) = data[c]
    BY DEF Entry
  <1> HIDE DEF c
  <1>5. data[c] \in Data
    BY <1>1, <1>3
  <1> QED
    BY <1>1, <1>3, <1>4, <1>5

\* The initial states satisfy the invariant.
LEMMA InvInit == Init => IndInv
  <1> SUFFICES ASSUME Init PROVE IndInv
    OBVIOUS
  <1>1. TypeOK
    BY NBinsAssumption DEF Init, InitTLS, TypeOK, Bins
  <1>2. Tiled /\ OneEntry /\ Aimed
    BY NBinsAssumption DEF Init, InitTLS, Tiled, OneEntry, Aimed, Bins
  <1>3. Written
    BY NBinsAssumption DEF Init, InitTLS, Written, InPlace, Bins
  <1> QED
    BY <1>1, <1>2, <1>3 DEF IndInv

\* CollectTLS: the new entry starts where the last one ended.
LEMMA InvCollect == IndInv /\ CollectTLS => IndInv'
  <1> SUFFICES ASSUME IndInv, CollectTLS PROVE IndInv'
    OBVIOUS
  <1>1. /\ cur \in Bins /\ cur' = cur + 1 /\ phase = "collect" /\ refs = {} /\ image = <<>>
        /\ UNCHANGED <<phdr, phase, refs, image>>
    BY NBinsAssumption DEF IndInv, Aimed, Written, CollectTLS, Bins
  <1>0. \A k \in 1..Len(data) : data[k].bin \in Bins /\ data[k].bin < cur
    BY <1>1, EntryTyped DEF IndInv, OneEntry
  <1>2. /\ phdr[cur].filesz \in Nat /\ phdr[cur].memsz \in Nat
        /\ phdr[cur].filesz <= phdr[cur].memsz
    BY <1>1, HeaderSizes DEF IndInv
  <1>3. (Aimed /\ Written)'
    BY <1>1, NBinsAssumption DEF Aimed, Written, InPlace, Bins
  <1>4. CASE ~HasTLS(cur)
    <2>1. UNCHANGED tls_
      BY <1>4 DEF CollectTLS, CollectTLSOf
    <2>2. (TypeOK /\ Tiled)'
      BY <1>1, <2>1, NBinsAssumption DEF IndInv, TypeOK, Tiled, EndOf, tls_, Bins
    <2>3. OneEntry'
      <3>1. \A b \in Bins : b < cur + 1 /\ HasTLS(b) => b < cur
        BY <1>1, <1>4, NBinsAssumption DEF Bins
      <3>2. /\ data' = data /\ phdr' = phdr /\ phase' = "collect" /\ cur' = cur + 1
            /\ \A b : HasTLS(b)' <=> HasTLS(b)
        BY <1>1, <2>1 DEF tls_, HasTLS
      <3>3. \A k \in 1..Len(data) : data[k].bin < cur + 1
        BY <1>0, <1>1, NBinsAssumption DEF Bins
      <3> QED
        BY <1>1, <3>1, <3>2, <3>3 DEF IndInv, OneEntry
    <2> QED
      BY <1>3, <2>2, <2>3 DEF IndInv
  <1>5. CASE HasTLS(cur)
    <2> DEFINE e == Collected(cur)
               L == Len(data)
    <2>1. /\ data' = Append(data, e)
          /\ memsz' = memsz + phdr[cur].memsz /\ filesz' = filesz + phdr[cur].filesz
          /\ bss_offset' = bss_offset + (phdr[cur].memsz - phdr[cur].filesz)
      BY <1>5 DEF CollectTLS, CollectTLSOf, BssSize
    <2>2. /\ data \in Seq(Data) /\ filesz \in Nat /\ memsz \in Nat /\ bss_offset \in Nat
          /\ L \in Nat
      BY DEF IndInv, TypeOK
    <2>3. /\ e \in Data /\ e.bin = cur /\ e.size = phdr[cur].filesz /\ e.file_offset = filesz
      BY <1>1, <1>2, <2>2 DEF Collected, Data
    <2>4. /\ Len(data') = L + 1 /\ data'[L + 1] = e /\ data' \in Seq(Data)
          /\ \A k \in 1..L : data'[k] = data[k] /\ data[k] \in Data
      BY <2>1, <2>2, <2>3
    <2> HIDE DEF e
    <2>5. TypeOK'
      <3>0. TypeOK
        BY DEF IndInv
      <3>1. /\ phdr' \in [Bins -> Headers] /\ image' \in Seq(Bins \X Nat)
            /\ refs' \subseteq [bin : Bins, off : Nat, how : Hows, at : Nat]
        <4>1. phdr' = phdr /\ refs' = refs /\ image' = image
          BY <1>1
        <4> QED
          BY <3>0, <4>1, Zenon DEF TypeOK
      <3>2. filesz' \in Nat /\ memsz' \in Nat /\ bss_offset' \in Nat
        <4> DEFINE h == phdr[cur]
        <4>1. /\ h.filesz \in Nat /\ h.memsz \in Nat /\ h.filesz <= h.memsz
              /\ filesz' = filesz + h.filesz /\ memsz' = memsz + h.memsz
              /\ bss_offset' = bss_offset + (h.memsz - h.filesz)
          BY <1>2, <2>1
        <4>2. filesz \in Nat /\ memsz \in Nat /\ bss_offset \in Nat
          BY <2>2
        <4> HIDE DEF h
        <4>3. h.memsz - h.filesz \in Nat
          BY <4>1
        <4> QED
          BY <4>1, <4>2, <4>3
      <3>3. cur' \in Nat
        BY <1>1, NBinsAssumption DEF Bins
      <3>4. phase' = "collect"
        BY <1>1
      <3> QED
        BY <2>4, <3>1, <3>2, <3>3, <3>4 DEF TypeOK
    <2>6. Tiled'
      <3>1. L = 0 => filesz = 0
        BY DEF IndInv, Tiled
      <3>2. L > 0 => data[1].file_offset = 0 /\ data[L].file_offset + data[L].size = filesz
        BY DEF IndInv, Tiled, EndOf
      <3>3. \A k \in 1..L : k < L => data[k + 1].file_offset = data[k].file_offset + data[k].size
        BY DEF IndInv, Tiled, EndOf
      <3>4. Len(data') > 0 /\ data'[1].file_offset = 0
        BY <2>2, <2>3, <2>4, <3>1, <3>2
      <3>5. EndOf(Len(data))' = filesz'
        BY <1>2, <2>1, <2>2, <2>3, <2>4 DEF EndOf
      <3>6. \A k \in 1..L+1 : k < L+1 => data'[k + 1].file_offset = EndOf(k)'
        BY <2>2, <2>3, <2>4, <3>2, <3>3 DEF EndOf
      <3> QED
        BY <2>2, <2>4, <3>4, <3>5, <3>6 DEF Tiled
    <2>7. OneEntry'
      <3>1. /\ \A k \in 1..L : data[k].size = phdr[data[k].bin].filesz /\ data[k].bin < cur
            /\ \A j, k \in 1..L : data[j].bin = data[k].bin => j = k
            /\ \A b \in Bins : b < cur /\ HasTLS(b) => \E k \in 1..L : data[k].bin = b
        BY <1>1 DEF IndInv, OneEntry
      <3>2. \A k \in 1..L+1 : data'[k].size = phdr'[data'[k].bin].filesz /\ data'[k].bin < cur'
        <4> TAKE k \in 1..L+1
        <4>1. CASE k = L + 1
          BY <4>1, <1>1, <2>3, <2>4, NBinsAssumption DEF Bins
        <4>2. CASE k \in 1..L
          BY <4>2, <1>0, <1>1, <2>4, <3>1, NBinsAssumption DEF Bins
        <4> QED
          BY <2>2, <4>1, <4>2
      <3>3. \A j, k \in 1..L+1 : data'[j].bin = data'[k].bin => j = k
        <4> TAKE j, k \in 1..L+1
        <4>1. \A m \in 1..L : data'[m].bin # cur
          BY <1>0, <1>1, <2>4, NBinsAssumption DEF Bins
        <4>2. CASE j \in 1..L /\ k \in 1..L
          BY <4>2, <2>4, <3>1
        <4> QED
          BY <4>1, <4>2, <2>2, <2>3, <2>4
      <3>4. \A b \in Bins : b < cur' /\ HasTLS(b)' => \E k \in 1..L+1 : data'[k].bin = b
        <4> SUFFICES ASSUME NEW b \in Bins, b < cur', HasTLS(b)'
                     PROVE  \E k \in 1..L+1 : data'[k].bin = b
          OBVIOUS
        <4>1. CASE b = cur
          BY <4>1, <2>2, <2>3, <2>4
        <4>2. CASE b < cur
          BY <4>2, <1>1, <2>2, <2>4, <3>1 DEF HasTLS
        <4> QED
          BY <1>1, <4>1, <4>2 DEF Bins
      <3> QED
        BY <1>1, <2>4, <3>2, <3>3, <3>4 DEF OneEntry
    <2> QED
      BY <1>3, <2>5, <2>6, <2>7 DEF IndInv
  <1> QED
    BY <1>4, <1>5

\* EndCollectTLS changes no file_offset.
LEMMA InvEndCollect == IndInv /\ EndCollectTLS => IndInv'
  <1> SUFFICES ASSUME IndInv, EndCollectTLS PROVE IndInv'
    OBVIOUS
  <1>1. /\ phase = "collect" /\ cur > NBins /\ cur' = 1 /\ refs = {} /\ image = <<>>
        /\ UNCHANGED <<phdr, refs, image>> /\ phase' \in {"symbols", "aborted"}
    BY DEF IndInv, Aimed, Written, EndCollectTLS
  <1>2. /\ UNCHANGED <<filesz, memsz, bss_offset>>
        /\ data' = data \/ data' = [k \in DOMAIN data |-> [data[k] EXCEPT !.bss_offset = @ + filesz]]
    BY DEF EndCollectTLS, FinishTLS, tls_
  <1>3. /\ data' \in Seq(Data) /\ Len(data') = Len(data)
        /\ \A k \in 1..Len(data) : /\ data'[k].bin = data[k].bin /\ data'[k].size = data[k].size
                                   /\ data'[k].file_offset = data[k].file_offset
    <2> CASE data' = data
      BY EntryTyped DEF IndInv
    <2> CASE data' = [k \in DOMAIN data |-> [data[k] EXCEPT !.bss_offset = @ + filesz]]
      <3>1. DOMAIN data = 1..Len(data) /\ Len(data) \in Nat /\ filesz \in Nat
        BY EntryTyped DEF IndInv, TypeOK
      <3>2. \A k \in 1..Len(data) : /\ data'[k].bin = data[k].bin /\ data'[k].size = data[k].size
                                   /\ data'[k].file_offset = data[k].file_offset
                                   /\ data'[k] \in Data
        <4> TAKE k \in 1..Len(data)
        <4>1. data[k] \in Data /\ data[k].bss_offset + filesz \in Nat
          BY <3>1, EntryTyped DEF IndInv
        <4>2. data'[k] = [data[k] EXCEPT !.bss_offset = data[k].bss_offset + filesz]
          BY <3>1
        <4> QED
          BY <4>1, <4>2, SMTT(30) DEF Data
      <3>3. DOMAIN data' = 1..Len(data)
        BY <3>1
      <3>4. data' \in Seq(Data) /\ Len(data') = Len(data)
        BY <3>1, <3>2, <3>3
      <3> QED
        BY <3>2, <3>4
    <2> QED
      BY <1>2
  <1>4. TypeOK'
    BY <1>1, <1>2, <1>3 DEF IndInv, TypeOK
  <1>5. Tiled'
    <2>1. Len(data) \in Nat
      BY EntryTyped DEF IndInv
    <2>2. \A k \in 1..Len(data) : EndOf(k)' = EndOf(k)
      BY <1>3 DEF EndOf
    <2>3. filesz' = filesz
      BY <1>2
    <2> QED
      BY <1>3, <2>1, <2>2, <2>3 DEF IndInv, Tiled
  <1>6. OneEntry'
    <2>1. \A b \in Bins : b < cur
      BY <1>1, NBinsAssumption DEF Bins, IndInv, TypeOK
    <2>2. phdr' = phdr /\ \A b : HasTLS(b)' <=> HasTLS(b)
      BY <1>1 DEF HasTLS
    <2>3. \A b \in Bins : HasTLS(b) => \E k \in 1..Len(data) : data'[k].bin = b
      BY <1>1, <1>3, <2>1 DEF IndInv, OneEntry
    <2> QED
      BY <1>1, <1>3, <2>2, <2>3 DEF IndInv, OneEntry
  <1>7. (Aimed /\ Written)'
    BY <1>1, NBinsAssumption DEF Aimed, Written, InPlace, Bins
  <1> QED
    BY <1>4, <1>5, <1>6, <1>7 DEF IndInv

\* A new reference of the binary the stage is at, aimed by its entry.
LEMMA InvNewRef ==
    ASSUME IndInv, phase \in {"symbols", "relocate"}, NEW off \in Offsets(cur),
           NEW how \in Hows, NEW at \in Nat,
           InData(cur, off) /\ how # "tpoff" =>
             \E e \in 1..Len(data) : data[e].bin = cur /\ at = off + data[e].file_offset,
           NewRef(off, how, at)
    PROVE  IndInv'
  <1>1. /\ UNCHANGED <<phdr, tls_, phase, cur, image>>
        /\ refs' = refs \cup {[bin |-> cur, off |-> off, how |-> how, at |-> at]}
    BY DEF NewRef
  <1>2. off \in Nat /\ cur \in Bins
    BY HeaderSizes DEF Offsets, IndInv, Written
  <1>3. TypeOK'
    BY <1>1, <1>2 DEF IndInv, TypeOK, tls_
  <1>4. (Tiled /\ OneEntry)'
    BY <1>1 DEF IndInv, Tiled, OneEntry, EndOf, HasTLS, tls_
  <1>5. Written'
    BY <1>1 DEF IndInv, Written, InPlace, EndOf, tls_
  <1>6. Aimed'
    <2>1. \A r \in refs' : InData(r.bin, r.off) /\ r.how # "tpoff" =>
             \E k \in 1..Len(data) : data[k].bin = r.bin /\ r.at = r.off + data[k].file_offset
      BY <1>1 DEF IndInv, Aimed
    <2> QED
      BY <1>1, <2>1 DEF Aimed, InData, tls_
  <1> QED
    BY <1>3, <1>4, <1>5, <1>6 DEF IndInv

\* The actions that move a reference.
LEMMA InvRefs ==
    ASSUME IndInv,
           LoadTLSSymbol \/ RelocateInTLSData \/ RelocateFixedOffset \/ RelocateBase
              \/ RelocateTLSDESC
    PROVE  IndInv'
  <1>1. phase \in {"symbols", "relocate"} /\ cur \in Bins
    BY DEF LoadTLSSymbol, RelocateInTLSData, RelocateFixedOffset, RelocateBase,
           RelocateTLSDESC, IndInv, Written
  <1> DEFINE Ats(off) == {RemapTLS(cur, off), RemapFixed(cur, off), RemapFixed(cur, 0) + off}
  <1>0. PICK off \in Offsets(cur), how \in Hows :
          \E at \in Ats(off) : NewRef(off, how, at)
    BY DEF LoadTLSSymbol, RelocateInTLSData, RelocateFixedOffset, RelocateBase,
           RelocateTLSDESC, Hows
  <1>2. PICK at \in Ats(off) : NewRef(off, how, at)
    BY <1>0
  <1>3. /\ phdr[cur].filesz \in Nat /\ phdr[cur].memsz \in Nat /\ off \in Nat
        /\ HasTLS(cur)
    BY <1>1, HeaderSizes DEF IndInv, Offsets, HasTLS
  <1>4. PICK e \in 1..Len(data) : data[e].bin = cur /\ Entry(cur) = data[e] /\ data[e] \in Data
    BY <1>1, <1>3, EntryFound
  <1>5. data[e].file_offset \in Nat /\ data[e].bss_offset \in Nat
    BY <1>4 DEF Data
  <1>6. RemapTLS(cur, off) \in Nat /\ RemapFixed(cur, off) \in Nat /\ RemapFixed(cur, 0) + off \in Nat
    <2> DEFINE size == phdr[cur].filesz
               data_at == data[e].file_offset
               bss_at  == data[e].bss_offset
    <2>1. size \in Nat /\ data_at \in Nat /\ bss_at \in Nat /\ off \in Nat
      BY <1>3, <1>5
    <2>2. \A o : /\ RemapTLS(cur, o) = IF o < size THEN o + data_at ELSE o + bss_at
                 /\ RemapFixed(cur, o) = IF o < size THEN o + data_at ELSE o + bss_at - size
      BY <1>4 DEF RemapTLS, RemapFixed, InData
    <2> HIDE DEF size, data_at, bss_at
    <2>3. \A o \in Nat : /\ (IF o < size THEN o + data_at ELSE o + bss_at) \in Nat
                         /\ (IF o < size THEN o + data_at ELSE o + bss_at - size) \in Nat
      BY <2>1
    <2>4. \A o \in Nat : RemapTLS(cur, o) \in Nat /\ RemapFixed(cur, o) \in Nat
      BY <2>2, <2>3
    <2>5. RemapTLS(cur, off) \in Nat /\ RemapFixed(cur, off) \in Nat
      BY <2>1, <2>4
    <2>6. RemapFixed(cur, 0) \in Nat
      BY <2>4
    <2>7. \A m, n \in Nat : m + n \in Nat
      OBVIOUS
    <2> QED
      BY <2>1, <2>5, <2>6, <2>7, Zenon
  <1>7. InData(cur, off) => at = off + data[e].file_offset
    <2> SUFFICES ASSUME InData(cur, off) PROVE at = off + data[e].file_offset
      OBVIOUS
    <2>1. off < phdr[cur].filesz /\ 0 < phdr[cur].filesz
      BY <1>3 DEF InData
    <2>2. /\ RemapTLS(cur, off) = off + data[e].file_offset
          /\ RemapFixed(cur, off) = off + data[e].file_offset
          /\ RemapFixed(cur, 0) = 0 + data[e].file_offset
      <3>1. \A o : o < phdr[cur].filesz =>
              RemapTLS(cur, o) = o + data[e].file_offset /\ RemapFixed(cur, o) = o + data[e].file_offset
        BY <1>4 DEF RemapTLS, RemapFixed, InData
      <3> QED
        BY <2>1, <3>1
    <2>3. (0 + data[e].file_offset) + off = off + data[e].file_offset
      BY <1>3, <1>5
    <2> QED
      BY <1>2, <2>2, <2>3
  <1>8. at \in Nat
    BY <1>2, <1>6
  <1> HIDE DEF RemapTLS, RemapFixed
  <1> QED
    BY <1>1, <1>2, <1>4, <1>7, <1>8, InvNewRef

\* An initial exec reference is aimed at nothing.
LEMMA InvTPOFF == IndInv /\ RelocateTPOFF => IndInv'
  <1> SUFFICES ASSUME IndInv, RelocateTPOFF PROVE IndInv'
    OBVIOUS
  <1>1. phase \in {"symbols", "relocate"} /\ cur \in Bins
    BY DEF RelocateTPOFF, IndInv, Written
  <1>2. PICK off \in Offsets(cur) : NewRef(off, "tpoff", off)
    BY DEF RelocateTPOFF
  <1>3. off \in Nat /\ "tpoff" \in Hows
    BY <1>1, HeaderSizes DEF IndInv, Offsets, Hows
  <1> QED
    BY <1>1, <1>2, <1>3, InvNewRef

\* NextBinary moves the cursor only.
LEMMA InvNextBinary == IndInv /\ NextBinary => IndInv'
  <1> SUFFICES ASSUME IndInv, NextBinary PROVE IndInv'
    OBVIOUS
  <1>1. /\ UNCHANGED <<phdr, tls_, refs, image>> /\ phase \in {"symbols", "relocate"}
        /\ cur \in Bins /\ image = <<>>
        /\ \/ cur < NBins /\ cur' = cur + 1 /\ phase' = phase
           \/ cur' = 1 /\ phase' = "relocate"
           \/ cur' = 1 /\ phase' = "emit"
    BY DEF NextBinary, IndInv, Written
  <1>2. TypeOK'
    BY <1>1 DEF IndInv, TypeOK, tls_, Bins
  <1>3. (Tiled /\ OneEntry /\ Aimed)'
    BY <1>1 DEF IndInv, Tiled, OneEntry, Aimed, EndOf, HasTLS, InData, tls_
  <1>4. Written'
    <2>1. /\ 1 <= Len(data) => data[1].file_offset = 0
          /\ Len(data) = 0 => filesz = 0
          /\ Len(data) \in Nat
      BY DEF IndInv, Tiled, TypeOK
    <2>2. phase' \in {"symbols", "relocate"} => cur' \in Bins
      BY <1>1, NBinsAssumption DEF Bins
    <2>3. phase' = "emit" => cur' = 1 /\ image' = <<>> /\ data' = data /\ filesz' = filesz
      BY <1>1 DEF tls_
    <2> QED
      BY <1>1, <2>1, <2>2, <2>3 DEF Written
  <1> QED
    BY <1>2, <1>3, <1>4 DEF IndInv

\* EmitTLS appends entry cur at its file_offset and leaves the others in place.
LEMMA InvEmit == IndInv /\ EmitTLS => IndInv'
  <1> SUFFICES ASSUME IndInv, EmitTLS PROVE IndInv'
    OBVIOUS
  <1> DEFINE d == data[cur]
             L == Len(image)
  <1>1. /\ UNCHANGED <<phdr, tls_, phase, refs>> /\ phase = "emit" /\ cur' = cur + 1
        /\ cur \in 1..Len(data) /\ image' = image \o Bytes(d)
    BY DEF EmitTLS, IndInv, TypeOK, Written
  <1>2. d \in Data /\ d.size \in Nat /\ d.file_offset \in Nat /\ d.bin \in Bins
    BY <1>1, EntryTyped DEF IndInv
  <1>3. image \in Seq(Bins \X Nat) /\ L = d.file_offset /\ L \in Nat
    BY <1>1 DEF IndInv, TypeOK, Written
  <1>4. Bytes(d) \in Seq(Bins \X Nat) /\ Len(Bytes(d)) = d.size
    BY <1>2 DEF Bytes
  <1> HIDE DEF d
  <1>5. /\ image' \in Seq(Bins \X Nat) /\ Len(image') = L + d.size
        /\ \A j \in 1..L : image'[j] = image[j]
        /\ \A o \in 0..(d.size - 1) : image'[L + o + 1] = <<d.bin, o>>
    <2>1. /\ Len(image') = L + d.size /\ image' \in Seq(Bins \X Nat)
          /\ \A j \in 1..L : image'[j] = image[j]
          /\ \A j \in 1..d.size : image'[L + j] = Bytes(d)[j]
      <3> DEFINE bs == Bytes(d)
      <3>1. bs \in Seq(Bins \X Nat) /\ Len(bs) = d.size /\ image' = image \o bs
        BY <1>1, <1>4
      <3> HIDE DEF bs
      <3>2. /\ image \o bs \in Seq(Bins \X Nat) /\ Len(image \o bs) = L + Len(bs)
            /\ \A j \in 1..L : (image \o bs)[j] = image[j]
            /\ \A j \in 1..Len(bs) : (image \o bs)[L + j] = bs[j]
        <4>1. Len(bs) \in Nat
          BY <3>1
        <4>2. /\ image \o bs \in Seq(Bins \X Nat) /\ Len(image \o bs) = L + Len(bs)
              /\ \A j \in 1..(L + Len(bs)) :
                    (image \o bs)[j] = IF j <= L THEN image[j] ELSE bs[j - L]
          BY <1>3, <3>1, ConcatProperties
        <4> DEFINE c == image \o bs
        <4> HIDE DEF c, L
        <4>3. \A j \in 1..L : j \in 1..(L + Len(bs)) /\ j <= L
          BY <1>3, <4>1
        <4>4. \A j \in 1..Len(bs) : L + j \in 1..(L + Len(bs)) /\ ~(L + j <= L) /\ (L + j) - L = j
          BY <1>3, <4>1
        <4>5. \A j \in 1..L : c[j] = image[j]
          BY <4>2, <4>3 DEF c
        <4>6. \A j \in 1..Len(bs) : c[L + j] = bs[j]
          BY <4>2, <4>4 DEF c
        <4> QED
          BY <4>2, <4>5, <4>6 DEF c
      <3>3. /\ Len(image') = L + d.size /\ image' \in Seq(Bins \X Nat)
            /\ \A j \in 1..L : image'[j] = image[j]
            /\ \A j \in 1..d.size : image'[L + j] = bs[j]
        BY <3>1, <3>2
      <3> QED
        BY <3>3 DEF bs
    <2>2. \A o \in 0..(d.size - 1) :
             /\ o + 1 \in 1..d.size /\ L + (o + 1) = L + o + 1
             /\ Bytes(d)[o + 1] = <<d.bin, o>>
      <3> TAKE o \in 0..(d.size - 1)
      <3>1. o + 1 \in 1..d.size /\ L + (o + 1) = L + o + 1 /\ (o + 1) - 1 = o
        BY <1>2, <1>3
      <3>2. Bytes(d)[o + 1] = <<d.bin, (o + 1) - 1>>
        BY <3>1 DEF Bytes
      <3> QED
        BY <3>1, <3>2
    <2> QED
      BY <2>1, <2>2
  <1>6. TypeOK'
    BY <1>1, <1>5 DEF IndInv, TypeOK, tls_
  <1>7. Tiled' /\ OneEntry' /\ Aimed'
    <2>1. Tiled'
      BY <1>1 DEF IndInv, Tiled, EndOf, tls_
    <2>2. OneEntry'
      BY <1>1 DEF IndInv, OneEntry, HasTLS, tls_
    <2>3. Aimed'
      BY <1>1 DEF IndInv, Aimed, InData, tls_
    <2> QED
      BY <2>1, <2>2, <2>3
  <1>8. Written'
    <2>1. \A k \in 1..Len(data) : data[k] \in Data
      BY DEF IndInv, TypeOK
    <2>2. \A k \in 1..Len(data) : k < cur + 1 => InPlace(k)'
      <3> SUFFICES ASSUME NEW k \in 1..Len(data), k < cur + 1 PROVE InPlace(k)'
        OBVIOUS
      <3>0. data' = data
        BY <1>1 DEF tls_
      <3>1. CASE k = cur
        <4>1. /\ data[k].file_offset = L /\ EndOf(k) = Len(image')
              /\ data[k].size = d.size /\ data[k].bin = d.bin
          BY <3>1, <1>3, <1>5 DEF EndOf, d
        <4>2. EndOf(k)' = EndOf(k) /\ EndOf(k) <= Len(image')
          BY <3>0, <1>2, <1>3, <1>5, <4>1 DEF EndOf
        <4> QED
          BY <3>0, <1>5, <4>1, <4>2 DEF InPlace
      <3>2. CASE k < cur
        <4>1. InPlace(k)
          BY <3>2, <1>1 DEF IndInv, Written
        <4>2. data[k].file_offset \in Nat /\ data[k].size \in Nat
          BY <2>1 DEF Data
        <4>3. \A o \in 0..(data[k].size - 1) : data[k].file_offset + o + 1 \in 1..L
          <5> DEFINE start == data[k].file_offset
                     size  == data[k].size
          <5>1. start + size <= L /\ start \in Nat /\ size \in Nat /\ L \in Nat
            BY <1>3, <4>1, <4>2 DEF InPlace, EndOf
          <5> HIDE DEF start, size, L
          <5>2. \A o \in 0..(size - 1) : start + o + 1 \in 1..L
            BY <5>1
          <5> QED
            BY <5>2 DEF start, size
        <4>4. \A o \in 0..(data[k].size - 1) :
                 image'[data[k].file_offset + o + 1] = <<data[k].bin, o>>
          <5> TAKE o \in 0..(data[k].size - 1)
          <5>1. image[data[k].file_offset + o + 1] = <<data[k].bin, o>>
            BY <4>1 DEF InPlace
          <5>2. data[k].file_offset + o + 1 \in 1..L
            BY <4>3
          <5> QED
            BY <1>5, <5>1, <5>2
        <4>5. data[k].file_offset + data[k].size <= Len(image')
          BY <1>2, <1>3, <1>5, <4>1, <4>2, SMTT(30) DEF InPlace, EndOf
        <4> QED
          BY <3>0, <4>4, <4>5 DEF InPlace, EndOf
      <3> QED
        BY <1>1, <3>1, <3>2
    <2>3. /\ cur + 1 <= Len(data) => Len(image') = data[cur + 1].file_offset
          /\ cur + 1 > Len(data) => Len(image') = filesz
      <3>1. /\ \A k \in 1..Len(data) : k < Len(data) => data[k + 1].file_offset = EndOf(k)
            /\ EndOf(Len(data)) = filesz
        BY <1>1, EntryTyped DEF IndInv, Tiled
      <3>2. Len(image') = EndOf(cur)
        BY <1>3, <1>5 DEF EndOf, d
      <3>3. cur \in Nat /\ Len(data) \in Nat
        BY <1>1, EntryTyped DEF IndInv
      <3>4. /\ cur + 1 <= Len(data) => cur < Len(data)
            /\ cur + 1 > Len(data) => cur = Len(data)
        BY <1>1, <3>3
      <3> QED
        BY <1>1, <3>1, <3>2, <3>4
    <2> QED
      BY <1>1, <2>2, <2>3 DEF Written, tls_
  <1> QED
    BY <1>6, <1>7, <1>8 DEF IndInv

\* EndEmitTLS: every entry has been written.
LEMMA InvEndEmit == IndInv /\ EndEmitTLS => IndInv'
  <1> SUFFICES ASSUME IndInv, EndEmitTLS PROVE IndInv'
    OBVIOUS
  <1>1. /\ UNCHANGED <<phdr, tls_, cur, refs, image>> /\ phase = "emit" /\ phase' = "done"
        /\ cur > Len(data)
    BY DEF EndEmitTLS
  <1>2. (TypeOK /\ Tiled)'
    BY <1>1 DEF IndInv, TypeOK, Tiled, EndOf, tls_
  <1>5. OneEntry'
    BY <1>1 DEF IndInv, OneEntry, HasTLS, tls_
  <1>6. Aimed'
    BY <1>1 DEF IndInv, Aimed, InData, tls_
  <1>3. \A k \in 1..Len(data) : InPlace(k)
    BY <1>1 DEF IndInv, TypeOK, Written
  <1>4. Written'
    BY <1>1, <1>3 DEF Written, InPlace, EndOf, tls_
  <1> QED
    BY <1>2, <1>4, <1>5, <1>6 DEF IndInv

\* A step that changes nothing.
LEMMA InvStutter == IndInv /\ UNCHANGED vars => IndInv'
  <1> SUFFICES ASSUME IndInv, UNCHANGED vars PROVE IndInv'
    OBVIOUS
  <1>1. (TypeOK /\ Tiled)'
    BY DEF IndInv, TypeOK, Tiled, EndOf, vars, tls_
  <1>2. (OneEntry /\ Aimed)'
    BY DEF IndInv, OneEntry, Aimed, HasTLS, InData, vars, tls_
  <1>3. Written'
    BY DEF IndInv, Written, InPlace, EndOf, vars, tls_
  <1> QED
    BY <1>1, <1>2, <1>3 DEF IndInv

\* IndInv is an invariant of the specification.
THEOREM TLSInductive == Spec => []IndInv
  <1>1. IndInv /\ [Next]_vars => IndInv'
    BY InvCollect, InvEndCollect, InvRefs, InvTPOFF, InvNextBinary, InvEmit, InvEndEmit, InvStutter
       DEF Next
  <1> QED
    BY <1>1, InvInit, PTL DEF Spec

\* Type correctness, for every number of binaries and every header.
THEOREM TLSTypeCorrect == Spec => []TypeOK
  <1>1. IndInv => TypeOK
    BY DEF IndInv
  <1> QED
    BY <1>1, TLSInductive, PTL

\* Every reference to a variable with an initial value finds that value.
THEOREM DataReachesImageHolds == Spec => []DataReachesImage
  <1>1. IndInv => DataReachesImage
    <2> SUFFICES ASSUME IndInv, phase = "done", NEW r \in refs, InData(r.bin, r.off),
                        r.how # "tpoff"
                 PROVE  r.at + 1 \in DOMAIN image /\ image[r.at + 1] = <<r.bin, r.off>>
      BY DEF DataReachesImage, Reaches
    <2>1. PICK k \in 1..Len(data) : data[k].bin = r.bin /\ r.at = r.off + data[k].file_offset
      BY DEF IndInv, Aimed
    <2>2. /\ data[k].file_offset \in Nat /\ data[k].size \in Nat /\ r.off \in Nat /\ r.at \in Nat
          /\ image \in Seq(Bins \X Nat)
      <3>1. refs \subseteq [bin : Bins, off : Nat, how : Hows, at : Nat]
        BY DEF IndInv, TypeOK
      <3>2. r.off \in Nat /\ r.at \in Nat
        BY <3>1
      <3> QED
        BY <3>2, EntryTyped DEF IndInv, TypeOK
    <2>3. data[k].size = phdr[r.bin].filesz
      BY <2>1 DEF IndInv, OneEntry
    <2>4. InPlace(k)
      BY DEF IndInv, Written
    <2>5. r.off \in 0..(data[k].size - 1)
      BY <2>2, <2>3 DEF InData
    <2>6. r.at + 1 \in 1..Len(image) /\ r.at + 1 = data[k].file_offset + r.off + 1
      <3>1. data[k].file_offset + data[k].size <= Len(image) /\ Len(image) \in Nat
        BY <2>2, <2>4 DEF InPlace, EndOf
      <3>2. r.at = r.off + data[k].file_offset
        BY <2>1
      <3> DEFINE n == data[k].size
      <3>3. n \in Nat /\ r.off \in 0..(n - 1)
        BY <2>2, <2>5
      <3> HIDE DEF n
      <3>4. r.off < n
        BY <3>3
      <3> QED
        BY <2>2, <3>1, <3>2, <3>4 DEF n
    <2>7. image[data[k].file_offset + r.off + 1] = <<data[k].bin, r.off>>
      BY <2>4, <2>5 DEF InPlace
    <2> QED
      BY <2>1, <2>2, <2>6, <2>7
  <1> QED
    BY <1>1, TLSInductive, PTL

-----------------------------------------------------------------------------
\* The sum of v over the linked binaries is the last value of a running sum.
LEMMA SumsUp ==
    ASSUME NEW v \in [Bins -> Int], NEW s, RunningSum(NBins, s, v)
    PROVE  SumBins(v) = s[NBins]
  <1>1. v \in [1..NBins -> Int]
    BY DEF Bins
  <1> QED BY <1>1, SumChosen, NBinsAssumption DEF SumBins

-----------------------------------------------------------------------------
(***************************************************************************)
(* Where the block of the output has the bytes of each binary.             *)
(***************************************************************************)
FileSizes == [b \in Bins |-> phdr[b].filesz]
ZeroSizes == [b \in Bins |-> BssSize(b)]

\* How many initial values and how many zeros binaries 1, ..., n bring.
FileUpTo == CHOOSE s : RunningSum(NBins, s, FileSizes)
ZeroUpTo == CHOOSE s : RunningSum(NBins, s, ZeroSizes)

\* Where an offset of binary b the compiler's linker fixed ends up.
Place(b, off) ==
    IF InData(b, off) THEN off + FileUpTo[b - 1]
    ELSE off + ZeroUpTo[b - 1] + filesz - phdr[b].filesz

\* The template so far is the sum of what was collected.
Summed ==
    /\ phase # "aborted"
    /\ memsz = filesz + bss_offset
    /\ phase = "collect" => filesz = FileUpTo[cur - 1] /\ bss_offset = ZeroUpTo[cur - 1]
    /\ phase # "collect" => filesz = FileUpTo[NBins] /\ bss_offset = ZeroUpTo[NBins]
    /\ \A k \in 1..Len(data) :
          /\ data[k].file_offset = FileUpTo[data[k].bin - 1]
          /\ data[k].bss_offset = ZeroUpTo[data[k].bin - 1]
                                  + (IF phase = "collect" THEN 0 ELSE filesz)

\* References are where their kind puts them.
Placed ==
    \A r \in refs : /\ r.off < phdr[r.bin].memsz
                    /\ Fixed(r) => r.at = Place(r.bin, r.off)
                    /\ r.how = "tpoff" => r.at = r.off

\* Every byte of the image belongs to some entry.
Accounted ==
    \A p \in 1..Len(image) : \E k \in 1..Len(data) :
        image[p] = <<data[k].bin, p - 1 - data[k].file_offset>>

OffsetInv == Summed /\ Placed /\ Accounted

\* What is known of the sizes.
LEMMA Sizes ==
    ASSUME TypeOK
    PROVE  /\ FileSizes \in [Bins -> Int] /\ ZeroSizes \in [Bins -> Int]
           /\ \A b \in Bins : /\ FileSizes[b] = phdr[b].filesz /\ FileSizes[b] >= 0
                              /\ ZeroSizes[b] = phdr[b].memsz - phdr[b].filesz
                              /\ ZeroSizes[b] >= 0
           /\ RunningSum(NBins, FileUpTo, FileSizes) /\ RunningSum(NBins, ZeroUpTo, ZeroSizes)
  <1>1. \A b \in Bins : /\ phdr[b].filesz \in Nat /\ phdr[b].memsz \in Nat
                        /\ phdr[b].filesz <= phdr[b].memsz
    BY HeaderSizes
  <1>2. FileSizes \in [Bins -> Int] /\ ZeroSizes \in [Bins -> Int]
    BY <1>1 DEF FileSizes, ZeroSizes, BssSize
  <1>3. \A b \in Bins : FileSizes[b] = phdr[b].filesz /\ ZeroSizes[b] = phdr[b].memsz - phdr[b].filesz
    BY DEF FileSizes, ZeroSizes, BssSize
  <1>4. RunningSum(NBins, FileUpTo, FileSizes)
    <2>1. \E s : RunningSum(NBins, s, FileSizes)
      BY <1>2, RunningSumExists, NBinsAssumption DEF Bins
    <2> QED BY <2>1 DEF FileUpTo
  <1>5. RunningSum(NBins, ZeroUpTo, ZeroSizes)
    <2>1. \E s : RunningSum(NBins, s, ZeroSizes)
      BY <1>2, RunningSumExists, NBinsAssumption DEF Bins
    <2> QED BY <2>1 DEF ZeroUpTo
  <1> QED BY <1>1, <1>2, <1>3, <1>4, <1>5

\* The sums grow from binary to binary.
LEMMA UpToGrows ==
    ASSUME TypeOK
    PROVE  /\ FileUpTo[0] = 0 /\ ZeroUpTo[0] = 0
           /\ \A n \in 0..NBins : FileUpTo[n] \in Nat /\ ZeroUpTo[n] \in Nat
           /\ \A b \in Bins : /\ FileUpTo[b] = FileUpTo[b - 1] + phdr[b].filesz
                              /\ ZeroUpTo[b] = ZeroUpTo[b - 1] + phdr[b].memsz - phdr[b].filesz
           /\ \A m \in 0..NBins : \A n \in m..NBins :
                FileUpTo[m] <= FileUpTo[n] /\ ZeroUpTo[m] <= ZeroUpTo[n]
  <1>1. /\ FileUpTo \in [0..NBins -> Int] /\ ZeroUpTo \in [0..NBins -> Int]
        /\ FileUpTo[0] = 0 /\ ZeroUpTo[0] = 0
        /\ \A b \in Bins : /\ FileUpTo[b] = FileUpTo[b - 1] + FileSizes[b]
                           /\ ZeroUpTo[b] = ZeroUpTo[b - 1] + ZeroSizes[b]
    BY Sizes DEF RunningSum, Bins
  <1>2. \A m \in 0..NBins : \A n \in m..NBins :
           FileUpTo[m] <= FileUpTo[n] /\ ZeroUpTo[m] <= ZeroUpTo[n]
    <2>1. SUFFICES ASSUME NEW m \in 0..NBins, NEW n \in m..NBins
                   PROVE  FileUpTo[m] <= FileUpTo[n] /\ ZeroUpTo[m] <= ZeroUpTo[n]
      OBVIOUS
    <2>2. \A b \in (m + 1)..n : b \in Bins
      BY NBinsAssumption DEF Bins
    <2>3. \A b \in (m + 1)..n : FileSizes[b] >= 0 /\ ZeroSizes[b] >= 0
      BY <2>2, Sizes
    <2> QED BY <2>3, Sizes, RunningSumGrows, NBinsAssumption DEF Bins
  <1>3. \A n \in 0..NBins : FileUpTo[n] \in Nat /\ ZeroUpTo[n] \in Nat
    <2>1. SUFFICES ASSUME NEW n \in 0..NBins PROVE FileUpTo[n] \in Nat /\ ZeroUpTo[n] \in Nat
      OBVIOUS
    <2>2. FileUpTo[n] \in Int /\ ZeroUpTo[n] \in Int /\ 0 \in 0..NBins /\ n \in 0..NBins
      BY <1>1, NBinsAssumption
    <2>3. 0 <= FileUpTo[n] /\ 0 <= ZeroUpTo[n]
      BY <1>1, <1>2, <2>2
    <2> QED BY <2>2, <2>3
  <1>4. \A b \in Bins : ZeroUpTo[b - 1] \in Nat /\ phdr[b].filesz \in Nat /\ phdr[b].memsz \in Nat
    BY <1>3, HeaderSizes, NBinsAssumption DEF Bins
  <1>5. \A b \in Bins : ZeroUpTo[b] = ZeroUpTo[b - 1] + phdr[b].memsz - phdr[b].filesz
    <2>1. \A b \in Bins : ZeroUpTo[b] = ZeroUpTo[b - 1] + (phdr[b].memsz - phdr[b].filesz)
      BY <1>1, Sizes
    <2>2. \A x, y, z \in Nat : x + (y - z) = x + y - z
      OBVIOUS
    <2> QED BY <1>4, <2>1, <2>2
  <1>6. \A b \in Bins : FileUpTo[b] = FileUpTo[b - 1] + phdr[b].filesz
    BY <1>1, Sizes
  <1> QED BY <1>1, <1>2, <1>3, <1>5, <1>6

\* The sum the program reserves for the block is the sum of both.
LEMMA MemSizeSum ==
    ASSUME TypeOK
    PROVE  TLSMemSize = FileUpTo[NBins] + ZeroUpTo[NBins]
  <1> DEFINE v == [b \in Bins |-> phdr[b].memsz]
             s == [n \in 0..NBins |-> FileUpTo[n] + ZeroUpTo[n]]
  <1>1. v \in [Bins -> Int] /\ \A b \in Bins : v[b] = phdr[b].memsz /\ v[b] \in Nat /\ phdr[b].filesz \in Nat
    BY HeaderSizes
  <1>2. /\ \A n \in 0..NBins : FileUpTo[n] \in Nat /\ ZeroUpTo[n] \in Nat
                               /\ s[n] = FileUpTo[n] + ZeroUpTo[n]
        /\ FileUpTo[0] = 0 /\ ZeroUpTo[0] = 0
        /\ s \in [0..NBins -> Int]
    BY UpToGrows
  <1> HIDE DEF v, s
  <1>3. s[0] = 0
    BY <1>2, NBinsAssumption
  <1>4. \A b \in Bins : s[b] = s[b - 1] + v[b]
    <2>1. SUFFICES ASSUME NEW b \in Bins PROVE s[b] = s[b - 1] + v[b]
      OBVIOUS
    <2>2. b \in 0..NBins /\ b - 1 \in 0..NBins
      BY NBinsAssumption DEF Bins
    <2>3. /\ FileUpTo[b] = FileUpTo[b - 1] + phdr[b].filesz
          /\ ZeroUpTo[b] = ZeroUpTo[b - 1] + phdr[b].memsz - phdr[b].filesz
      BY UpToGrows
    <2>4. \A x, y, f, m \in Nat : (x + f) + (y + m - f) = (x + y) + m
      OBVIOUS
    <2> QED BY <1>1, <1>2, <2>2, <2>3, <2>4
  <1>5. RunningSum(NBins, s, v)
    BY <1>2, <1>3, <1>4 DEF RunningSum, Bins
  <1>6. SumBins(v) = s[NBins] /\ NBins \in 0..NBins
    BY <1>1, <1>5, SumsUp, NBinsAssumption
  <1> QED BY <1>2, <1>6 DEF TLSMemSize, v

\* The sums change only with the headers, which nothing changes.
LEMMA SameSums ==
    ASSUME phdr' = phdr
    PROVE  FileUpTo' = FileUpTo /\ ZeroUpTo' = ZeroUpTo
  <1>1. FileSizes' = FileSizes /\ ZeroSizes' = ZeroSizes
    BY DEF FileSizes, ZeroSizes, BssSize
  <1>2. \A s : /\ RunningSum(NBins, s, FileSizes)' <=> RunningSum(NBins, s, FileSizes)
               /\ RunningSum(NBins, s, ZeroSizes)' <=> RunningSum(NBins, s, ZeroSizes)
    BY <1>1 DEF RunningSum
  <1> QED BY <1>2 DEF FileUpTo, ZeroUpTo

LEMMA OffsetInit == Init /\ IndInv => OffsetInv
  <1> SUFFICES ASSUME Init, IndInv PROVE OffsetInv
    OBVIOUS
  <1>1. /\ phase = "collect" /\ cur = 1 /\ refs = {} /\ image = <<>> /\ data = <<>>
        /\ filesz = 0 /\ memsz = 0 /\ bss_offset = 0
    BY DEF Init, InitTLS
  <1>2. FileUpTo[0] = 0 /\ ZeroUpTo[0] = 0
    BY UpToGrows DEF IndInv
  <1>3. Summed
    BY <1>1, <1>2 DEF Summed
  <1>4. Placed /\ Accounted
    BY <1>1 DEF Placed, Accounted
  <1> QED BY <1>3, <1>4 DEF OffsetInv

\* CollectTLS adds the sizes of the binary it is at.
LEMMA OffsetCollect ==
    ASSUME IndInv, OffsetInv, CollectTLS
    PROVE  OffsetInv'
  <1>1. /\ cur \in Bins /\ cur' = cur + 1 /\ phase = "collect" /\ refs = {} /\ image = <<>>
        /\ UNCHANGED <<phdr, phase, refs, image>>
    BY NBinsAssumption DEF IndInv, Aimed, Written, CollectTLS, Bins
  <1>2. FileUpTo' = FileUpTo /\ ZeroUpTo' = ZeroUpTo
    BY <1>1, SameSums
  <1>3. /\ phdr[cur].filesz \in Nat /\ phdr[cur].memsz \in Nat
        /\ phdr[cur].filesz <= phdr[cur].memsz
        /\ filesz \in Nat /\ memsz \in Nat /\ bss_offset \in Nat
    BY <1>1, HeaderSizes DEF IndInv, TypeOK
  <1>4. /\ FileUpTo[cur] = FileUpTo[cur - 1] + phdr[cur].filesz
        /\ ZeroUpTo[cur] = ZeroUpTo[cur - 1] + phdr[cur].memsz - phdr[cur].filesz
        /\ ZeroUpTo[cur - 1] \in Nat /\ FileUpTo[cur - 1] \in Nat /\ (cur + 1) - 1 = cur
    <2>1. cur - 1 \in 0..NBins /\ (cur + 1) - 1 = cur
      BY <1>1, NBinsAssumption DEF Bins
    <2> QED BY <1>1, <2>1, UpToGrows DEF IndInv
  <1>5. /\ memsz = filesz + bss_offset
        /\ filesz = FileUpTo[cur - 1] /\ bss_offset = ZeroUpTo[cur - 1]
        /\ \A k \in 1..Len(data) : /\ data[k].file_offset = FileUpTo[data[k].bin - 1]
                                   /\ data[k].bss_offset = ZeroUpTo[data[k].bin - 1] + 0
    BY <1>1 DEF OffsetInv, Summed
  <1>6. Placed' /\ Accounted'
    BY <1>1 DEF Placed, Accounted
  <1>7. CASE ~HasTLS(cur)
    <2>1. UNCHANGED tls_
      BY <1>7 DEF CollectTLS, CollectTLSOf
    <2>2. phdr[cur].memsz = 0 /\ phdr[cur].filesz = 0
      BY <1>3, <1>7 DEF HasTLS
    <2>3. FileUpTo[cur] = FileUpTo[cur - 1] /\ ZeroUpTo[cur] = ZeroUpTo[cur - 1]
      BY <1>4, <2>2
    <2>4. filesz' = FileUpTo'[cur' - 1] /\ bss_offset' = ZeroUpTo'[cur' - 1]
      BY <1>1, <1>2, <1>4, <1>5, <2>1, <2>3 DEF tls_
    <2>5. phase' = "collect" /\ data' = data /\ memsz' = filesz' + bss_offset'
      BY <1>1, <1>5, <2>1 DEF tls_
    <2>6. Summed'
      BY <1>2, <1>5, <2>4, <2>5 DEF Summed
    <2> QED BY <1>6, <2>6 DEF OffsetInv
  <1>8. CASE HasTLS(cur)
    <2> DEFINE e == Collected(cur)
               L == Len(data)
    <2>1. /\ data' = Append(data, e)
          /\ memsz' = memsz + phdr[cur].memsz /\ filesz' = filesz + phdr[cur].filesz
          /\ bss_offset' = bss_offset + (phdr[cur].memsz - phdr[cur].filesz)
      BY <1>8 DEF CollectTLS, CollectTLSOf, BssSize
    <2>2. /\ e \in Data /\ e.bin = cur /\ e.file_offset = filesz /\ e.bss_offset = bss_offset
      BY <1>1, <1>3 DEF Collected, Data
    <2>3. data \in Seq(Data) /\ L \in Nat
      BY EntryTyped DEF IndInv
    <2>4. /\ Len(data') = L + 1 /\ data'[L + 1] = e
          /\ \A k \in 1..L : data'[k] = data[k]
      BY <2>1, <2>2, <2>3
    <2> HIDE DEF e
    <2>5. filesz' = FileUpTo'[cur' - 1] /\ bss_offset' = ZeroUpTo'[cur' - 1]
      <3>1. \A x, y, z \in Nat : x + (y - z) = x + y - z
        OBVIOUS
      <3> QED BY <1>1, <1>2, <1>3, <1>4, <1>5, <2>1, <3>1
    <2>6. memsz' = filesz' + bss_offset'
      <3>1. \A x, y, m, f \in Nat : (x + y) + m = (x + f) + (y + (m - f))
        OBVIOUS
      <3>2. (filesz + bss_offset) + phdr[cur].memsz
              = (filesz + phdr[cur].filesz) + (bss_offset + (phdr[cur].memsz - phdr[cur].filesz))
        BY <1>3, <3>1
      <3> QED BY <1>5, <2>1, <3>2, Zenon
    <2>7. \A k \in 1..L + 1 : /\ data'[k].file_offset = FileUpTo[data'[k].bin - 1]
                              /\ data'[k].bss_offset = ZeroUpTo[data'[k].bin - 1] + 0
      <3>1. SUFFICES ASSUME NEW k \in 1..L + 1
                     PROVE  /\ data'[k].file_offset = FileUpTo[data'[k].bin - 1]
                            /\ data'[k].bss_offset = ZeroUpTo[data'[k].bin - 1] + 0
        OBVIOUS
      <3>2. CASE k \in 1..L
        BY <1>5, <2>4, <3>2
      <3>3. CASE k = L + 1
        <4>1. ZeroUpTo[cur - 1] + 0 = ZeroUpTo[cur - 1]
          BY <1>4
        <4> QED BY <1>5, <2>2, <2>4, <3>3, <4>1
      <3> QED BY <2>3, <3>2, <3>3
    <2>8. phase' = "collect"
      BY <1>1
    <2>9. Summed'
      BY <1>2, <2>4, <2>5, <2>6, <2>7, <2>8 DEF Summed
    <2> QED BY <1>6, <2>9 DEF OffsetInv
  <1> QED BY <1>7, <1>8

\* The check at the end of CollectTLS never fails, and the zeros are moved behind
\* the initial values.
LEMMA OffsetEndCollect ==
    ASSUME IndInv, OffsetInv, EndCollectTLS
    PROVE  OffsetInv'
  <1>1. /\ phase = "collect" /\ cur > NBins /\ refs = {} /\ image = <<>>
        /\ UNCHANGED <<phdr, refs, image>> /\ cur \in 1..(NBins + 1)
    BY DEF IndInv, Aimed, Written, EndCollectTLS
  <1>2. FileUpTo' = FileUpTo /\ ZeroUpTo' = ZeroUpTo
    BY <1>1, SameSums
  <1>3. cur - 1 = NBins
    BY <1>1, NBinsAssumption
  <1>4. /\ memsz = filesz + bss_offset /\ filesz = FileUpTo[NBins] /\ bss_offset = ZeroUpTo[NBins]
        /\ \A k \in 1..Len(data) : /\ data[k].file_offset = FileUpTo[data[k].bin - 1]
                                   /\ data[k].bss_offset = ZeroUpTo[data[k].bin - 1] + 0
    BY <1>1, <1>3 DEF OffsetInv, Summed
  <1>5. memsz = TLSMemSize
    BY <1>4, MemSizeSum DEF IndInv
  <1>6. /\ phase' = "symbols" /\ UNCHANGED <<filesz, memsz, bss_offset>>
        /\ data' = [k \in DOMAIN data |-> [data[k] EXCEPT !.bss_offset = @ + filesz]]
    BY <1>5 DEF EndCollectTLS, FinishTLS
  <1>7. DOMAIN data = 1..Len(data) /\ Len(data) \in Nat /\ filesz \in Nat
    BY EntryTyped DEF IndInv, TypeOK
  <1>8. \A k \in 1..Len(data) : /\ data'[k].bin = data[k].bin
                                /\ data'[k].file_offset = data[k].file_offset
                                /\ data'[k].bss_offset = data[k].bss_offset + filesz
                                /\ data[k].bss_offset \in Nat
    <2> TAKE k \in 1..Len(data)
    <2>1. data[k] \in Data /\ data[k].bss_offset \in Nat
      BY <1>7, EntryTyped DEF IndInv
    <2>2. data'[k] = [data[k] EXCEPT !.bss_offset = data[k].bss_offset + filesz]
      BY <1>6, <1>7
    <2> QED BY <2>1, <2>2, SMTT(30) DEF Data
  <1>9. Len(data') = Len(data)
    <2>1. DOMAIN data' = 1..Len(data)
      BY <1>6, <1>7
    <2>2. data' \in Seq(Data)
      BY InvEndCollect DEF IndInv, TypeOK
    <2> QED BY <1>7, <2>1, <2>2
  <1>10. \A k \in 1..Len(data) : data'[k].bss_offset = ZeroUpTo[data'[k].bin - 1] + filesz
    <2> TAKE k \in 1..Len(data)
    <2>1. /\ data'[k].bss_offset = data[k].bss_offset + filesz /\ data[k].bss_offset \in Nat
          /\ data[k].bss_offset = ZeroUpTo[data[k].bin - 1] + 0
          /\ data'[k].bin = data[k].bin
      BY <1>4, <1>8
    <2>2. ZeroUpTo[data[k].bin - 1] \in Nat
      <3>1. data[k].bin \in Bins
        BY EntryTyped DEF IndInv
      <3>2. data[k].bin - 1 \in 0..NBins
        BY <3>1, NBinsAssumption DEF Bins
      <3> QED BY <3>2, UpToGrows DEF IndInv
    <2> QED BY <2>1, <2>2
  <1>11. Summed'
    BY <1>2, <1>4, <1>6, <1>8, <1>9, <1>10, ZenonT(40) DEF Summed
  <1>12. Placed' /\ Accounted'
    BY <1>1 DEF Placed, Accounted
  <1> QED BY <1>11, <1>12 DEF OffsetInv

\* The actions that leave the template alone keep what is known of it.
LEMMA SummedKept ==
    ASSUME Summed, UNCHANGED <<phdr, tls_>>, phase \notin {"collect"}, phase' \notin {"collect", "aborted"}
    PROVE  Summed'
  <1>1. UNCHANGED <<phdr, data, filesz, memsz, bss_offset>>
    BY DEF tls_
  <1>2. FileUpTo' = FileUpTo /\ ZeroUpTo' = ZeroUpTo
    BY SameSums
  <1> QED BY <1>1, <1>2 DEF Summed

LEMMA PlacedKept ==
    ASSUME Placed, UNCHANGED <<phdr, tls_>>, refs' = refs
    PROVE  Placed'
  <1>1. UNCHANGED <<phdr, data, filesz, memsz, bss_offset>>
    BY DEF tls_
  <1>2. FileUpTo' = FileUpTo /\ ZeroUpTo' = ZeroUpTo
    BY SameSums
  <1>3. \A b, off : Place(b, off)' = Place(b, off)
    BY <1>1, <1>2 DEF Place, InData
  <1> QED BY <1>1, <1>3 DEF Placed, Fixed

\* A new reference is where its kind puts it.
LEMMA OffsetNewRef ==
    ASSUME IndInv, OffsetInv, phase \in {"symbols", "relocate"}, NEW off \in Offsets(cur),
           NEW how, NEW at,
           how \in {"place", "fixed", "desc"} => at = Place(cur, off),
           how = "tpoff" => at = off,
           NewRef(off, how, at)
    PROVE  OffsetInv'
  <1>1. /\ UNCHANGED <<phdr, tls_, phase, cur, image>>
        /\ refs' = refs \cup {[bin |-> cur, off |-> off, how |-> how, at |-> at]}
    BY DEF NewRef
  <1>2. off < phdr[cur].memsz
    <2>1. cur \in Bins
      BY DEF IndInv, Written
    <2> QED BY <2>1, HeaderSizes DEF Offsets, IndInv
  <1>3. UNCHANGED <<phdr, data, filesz, memsz, bss_offset>>
    BY <1>1 DEF tls_
  <1>4. FileUpTo' = FileUpTo /\ ZeroUpTo' = ZeroUpTo
    BY <1>1, SameSums
  <1>5. \A b, o : Place(b, o)' = Place(b, o)
    BY <1>3, <1>4 DEF Place, InData
  <1>6. \A r \in refs' : /\ r.off < phdr[r.bin].memsz
                         /\ Fixed(r) => r.at = Place(r.bin, r.off)
                         /\ r.how = "tpoff" => r.at = r.off
    <2>1. SUFFICES ASSUME NEW r \in refs'
                   PROVE  /\ r.off < phdr[r.bin].memsz
                          /\ Fixed(r) => r.at = Place(r.bin, r.off)
                          /\ r.how = "tpoff" => r.at = r.off
      OBVIOUS
    <2>2. CASE r \in refs
      BY <2>2 DEF OffsetInv, Placed
    <2>3. CASE r = [bin |-> cur, off |-> off, how |-> how, at |-> at]
      <3>1. r.bin = cur /\ r.off = off /\ r.how = how /\ r.at = at
        BY <2>3
      <3> QED BY <1>2, <3>1 DEF Fixed
    <2> QED BY <1>1, <2>2, <2>3
  <1>7. Placed'
    BY <1>1, <1>5, <1>6 DEF Placed, Fixed
  <1>8. Summed'
    BY <1>1, SummedKept DEF OffsetInv
  <1>9. Accounted'
    BY <1>1, <1>3 DEF OffsetInv, Accounted
  <1> QED BY <1>7, <1>8, <1>9 DEF OffsetInv

\* RemapFixed moves an offset to its place, and so does RemapTLS one in the
\* initial values.
LEMMA RemapsToPlace ==
    ASSUME IndInv, OffsetInv, phase \in {"symbols", "relocate"}, NEW off \in Offsets(cur)
    PROVE  /\ RemapFixed(cur, off) = Place(cur, off)
           /\ InData(cur, off) => RemapTLS(cur, off) = Place(cur, off)
  <1>1. cur \in Bins
    BY DEF IndInv, Written
  <1>2. /\ phdr[cur].filesz \in Nat /\ phdr[cur].memsz \in Nat /\ off \in Nat /\ filesz \in Nat
        /\ HasTLS(cur)
    BY <1>1, HeaderSizes DEF IndInv, Offsets, HasTLS, TypeOK
  <1>3. PICK e \in 1..Len(data) : data[e].bin = cur /\ Entry(cur) = data[e]
    BY <1>1, <1>2, EntryFound
  <1>4. /\ data[e].file_offset = FileUpTo[cur - 1]
        /\ data[e].bss_offset = ZeroUpTo[cur - 1] + filesz
    BY <1>3 DEF OffsetInv, Summed
  <1>5. ZeroUpTo[cur - 1] \in Nat /\ FileUpTo[cur - 1] \in Nat
    <2>1. cur - 1 \in 0..NBins
      BY <1>1, NBinsAssumption DEF Bins
    <2> QED BY <2>1, UpToGrows DEF IndInv
  <1>6. InData(cur, off) => /\ RemapFixed(cur, off) = Place(cur, off)
                            /\ RemapTLS(cur, off) = Place(cur, off)
    BY <1>3, <1>4 DEF RemapFixed, RemapTLS, Place
  <1>7. ~InData(cur, off) => RemapFixed(cur, off) = Place(cur, off)
    <2>1. \A o, z, f, s \in Nat : o + (z + f) - s = o + z + f - s
      OBVIOUS
    <2>2. ~InData(cur, off) =>
             /\ RemapFixed(cur, off) = off + (ZeroUpTo[cur - 1] + filesz) - phdr[cur].filesz
             /\ Place(cur, off) = off + ZeroUpTo[cur - 1] + filesz - phdr[cur].filesz
      BY <1>3, <1>4 DEF RemapFixed, Place
    <2> QED BY <1>2, <1>5, <2>1, <2>2
  <1> QED BY <1>6, <1>7

LEMMA OffsetRefs ==
    ASSUME IndInv, OffsetInv,
           LoadTLSSymbol \/ RelocateInTLSData \/ RelocateFixedOffset \/ RelocateBase
              \/ RelocateTLSDESC \/ RelocateTPOFF
    PROVE  OffsetInv'
  <1>1. phase \in {"symbols", "relocate"}
    BY DEF LoadTLSSymbol, RelocateInTLSData, RelocateFixedOffset, RelocateBase,
           RelocateTLSDESC, RelocateTPOFF
  <1>2. CASE LoadTLSSymbol
    <2>1. PICK off \in Offsets(cur) : NewRef(off, "symbol", RemapTLS(cur, off))
      BY <1>2 DEF LoadTLSSymbol
    <2> QED BY <1>1, <2>1, OffsetNewRef
  <1>3. CASE RelocateInTLSData
    <2>1. PICK off \in Offsets(cur) : InData(cur, off) /\ NewRef(off, "place", RemapTLS(cur, off))
      BY <1>3 DEF RelocateInTLSData
    <2>2. RemapTLS(cur, off) = Place(cur, off)
      BY <1>1, <2>1, RemapsToPlace
    <2> QED BY <1>1, <2>1, <2>2, OffsetNewRef
  <1>4. CASE RelocateFixedOffset
    <2>1. PICK off \in Offsets(cur) : NewRef(off, "fixed", RemapFixed(cur, off))
      BY <1>4 DEF RelocateFixedOffset
    <2>2. RemapFixed(cur, off) = Place(cur, off)
      BY <1>1, RemapsToPlace
    <2> QED BY <1>1, <2>1, <2>2, OffsetNewRef
  <1>5. CASE RelocateBase
    <2>1. PICK off \in Offsets(cur) : NewRef(off, "base", RemapFixed(cur, 0) + off)
      BY <1>5 DEF RelocateBase
    <2> QED BY <1>1, <2>1, OffsetNewRef
  <1>6. CASE RelocateTLSDESC
    <2>1. PICK off \in Offsets(cur) : NewRef(off, "desc", RemapFixed(cur, off))
      BY <1>6 DEF RelocateTLSDESC
    <2>2. RemapFixed(cur, off) = Place(cur, off)
      BY <1>1, RemapsToPlace
    <2> QED BY <1>1, <2>1, <2>2, OffsetNewRef
  <1>7. CASE RelocateTPOFF
    <2>1. PICK off \in Offsets(cur) : NewRef(off, "tpoff", off)
      BY <1>7 DEF RelocateTPOFF
    <2> QED BY <1>1, <2>1, OffsetNewRef
  <1> QED BY <1>2, <1>3, <1>4, <1>5, <1>6, <1>7

\* The bytes EmitTLS appends are those of its entry.
LEMMA OffsetEmit ==
    ASSUME IndInv, OffsetInv, EmitTLS
    PROVE  OffsetInv'
  <1> DEFINE d == data[cur]
             n == Len(image)
             bytes == Bytes(d)
  <1>1. /\ phase = "emit" /\ cur <= Len(data) /\ image' = image \o bytes
        /\ UNCHANGED <<phdr, tls_, phase, refs>>
    BY DEF EmitTLS
  <1>2. cur \in 1..Len(data) /\ d \in Data /\ d.size \in Nat /\ d.file_offset \in Nat /\ d.bin \in Bins
    <2>1. cur \in 1..Len(data)
      BY <1>1, EntryTyped DEF IndInv, Written, TypeOK
    <2> QED BY <2>1, EntryTyped DEF IndInv
  <1>3. n = d.file_offset /\ image \in Seq(Bins \X Nat) /\ n \in Nat
    BY <1>1 DEF IndInv, Written, TypeOK
  <1>4. /\ bytes = [k \in 1..d.size |-> <<d.bin, k - 1>>]
        /\ bytes \in Seq(Bins \X Nat) /\ Len(bytes) = d.size
    <2>1. bytes = [k \in 1..d.size |-> <<d.bin, k - 1>>]
      BY DEF Bytes
    <2>2. \A k \in 1..d.size : <<d.bin, k - 1>> \in Bins \X Nat
      BY <1>2
    <2>3. bytes \in [1..d.size -> Bins \X Nat]
      BY <2>1, <2>2
    <2> HIDE DEF bytes
    <2> QED BY <1>2, <2>1, <2>3, SMTT(40)
  <1> HIDE DEF bytes, d, n
  <1>5. /\ Len(image') = n + d.size
        /\ \A p \in 1..n : image'[p] = image[p]
        /\ \A p \in (n + 1)..(n + d.size) : image'[p] = bytes[p - n]
    <2>1. image \in Seq(Bins \X Nat) /\ bytes \in Seq(Bins \X Nat)
      BY <1>3, <1>4
    <2>2. /\ Len(image \o bytes) = Len(image) + Len(bytes)
          /\ \A p \in 1..(Len(image) + Len(bytes)) :
               (image \o bytes)[p] = IF p <= Len(image) THEN image[p] ELSE bytes[p - Len(image)]
      BY <2>1, ConcatProperties
    <2>3. n = Len(image) /\ n \in Nat /\ d.size \in Nat /\ Len(bytes) = d.size
      BY <1>2, <1>3, <1>4 DEF n
    <2>4. \A p \in 1..n : p \in 1..(n + d.size) /\ p <= n
      BY <2>3
    <2>5. \A p \in (n + 1)..(n + d.size) : p \in 1..(n + d.size) /\ ~(p <= n)
      BY <2>3
    <2> QED BY <1>1, <2>2, <2>3, <2>4, <2>5
  <1>6. \A p \in 1..Len(image') : \E k \in 1..Len(data) :
           image'[p] = <<data[k].bin, p - 1 - data[k].file_offset>>
    <2>1. SUFFICES ASSUME NEW p \in 1..Len(image')
                   PROVE  \E k \in 1..Len(data) : image'[p] = <<data[k].bin, p - 1 - data[k].file_offset>>
      OBVIOUS
    <2>2. CASE p \in 1..n
      BY <1>5, <2>2 DEF OffsetInv, Accounted, n
    <2>3. CASE p \in (n + 1)..(n + d.size)
      <3>1. p - n \in 1..d.size /\ (p - n) - 1 = p - 1 - d.file_offset
        BY <1>2, <1>3, <2>3, SMTT(40)
      <3>2. image'[p] = <<d.bin, (p - n) - 1>>
        BY <1>4, <1>5, <2>3, <3>1
      <3> QED BY <1>2, <3>1, <3>2 DEF d
    <2> QED BY <1>2, <1>3, <1>5, <2>1, <2>2, <2>3
  <1>7. Accounted'
    BY <1>1, <1>6 DEF Accounted, tls_
  <1>8. Summed' /\ Placed'
    BY <1>1, SummedKept, PlacedKept DEF OffsetInv
  <1> QED BY <1>7, <1>8 DEF OffsetInv

\* The other actions move the cursor and the phase.
LEMMA OffsetOthers ==
    ASSUME IndInv, OffsetInv, NextBinary \/ EndEmitTLS \/ UNCHANGED vars
    PROVE  OffsetInv'
  <1>1. UNCHANGED <<phdr, tls_, refs, image>>
    BY DEF NextBinary, EndEmitTLS, vars
  <1>2. Placed'
    BY <1>1, PlacedKept DEF OffsetInv
  <1>3. Accounted'
    BY <1>1 DEF OffsetInv, Accounted, tls_
  <1>4. CASE NextBinary \/ EndEmitTLS
    <2>1. phase # "collect" /\ phase' \notin {"collect", "aborted"}
      BY <1>4 DEF NextBinary, EndEmitTLS
    <2> QED BY <1>1, <1>2, <1>3, <2>1, SummedKept DEF OffsetInv
  <1>5. CASE UNCHANGED vars
    <2>1. UNCHANGED <<phdr, data, filesz, memsz, bss_offset, phase, cur>>
      BY <1>5 DEF vars, tls_
    <2>2. FileUpTo' = FileUpTo /\ ZeroUpTo' = ZeroUpTo
      BY <2>1, SameSums
    <2>3. Summed'
      BY <2>1, <2>2 DEF OffsetInv, Summed
    <2> QED BY <1>2, <1>3, <2>3 DEF OffsetInv
  <1> QED BY <1>4, <1>5

LEMMA OffsetInductive == Spec => [](IndInv /\ OffsetInv)
  <1>1. Init => IndInv /\ OffsetInv
    BY InvInit, OffsetInit
  <1>2. IndInv /\ OffsetInv /\ [Next]_vars => OffsetInv'
    BY OffsetCollect, OffsetEndCollect, OffsetRefs, OffsetEmit, OffsetOthers DEF Next
  <1> QED BY <1>1, <1>2, TLSInductive, PTL DEF Spec

-----------------------------------------------------------------------------
(***************************************************************************)
(* What the places of the offsets mean for the block.                      *)
(***************************************************************************)
\* The initial values of a binary lie between those of its neighbours, and so do
\* its zeros, behind all the initial values.
LEMMA PlaceRange ==
    ASSUME IndInv, OffsetInv, phase # "collect", NEW b \in Bins, NEW off \in Nat,
           off < phdr[b].memsz
    PROVE  /\ InData(b, off) => /\ FileUpTo[b - 1] <= Place(b, off)
                                /\ Place(b, off) < FileUpTo[b]
                                /\ FileUpTo[b] <= filesz
           /\ ~InData(b, off) => /\ filesz + ZeroUpTo[b - 1] <= Place(b, off)
                                 /\ Place(b, off) < filesz + ZeroUpTo[b]
                                 /\ ZeroUpTo[b] <= bss_offset
           /\ Place(b, off) \in Nat
  <1>1. /\ phdr[b].filesz \in Nat /\ phdr[b].memsz \in Nat
        /\ filesz \in Nat /\ bss_offset \in Nat
    BY HeaderSizes DEF IndInv, TypeOK
  <1>2. /\ FileUpTo[b] = FileUpTo[b - 1] + phdr[b].filesz
        /\ ZeroUpTo[b] = ZeroUpTo[b - 1] + phdr[b].memsz - phdr[b].filesz
    BY UpToGrows DEF IndInv
  <1>3. b \in 0..NBins /\ b - 1 \in 0..NBins /\ NBins \in b..NBins
    BY NBinsAssumption DEF Bins
  <1>4. /\ FileUpTo[b] \in Nat /\ FileUpTo[b - 1] \in Nat
        /\ ZeroUpTo[b] \in Nat /\ ZeroUpTo[b - 1] \in Nat
        /\ FileUpTo[b] <= FileUpTo[NBins] /\ ZeroUpTo[b] <= ZeroUpTo[NBins]
    BY <1>3, UpToGrows DEF IndInv
  <1>5. filesz = FileUpTo[NBins] /\ bss_offset = ZeroUpTo[NBins]
    BY DEF OffsetInv, Summed
  <1>6. ASSUME InData(b, off)
        PROVE  /\ FileUpTo[b - 1] <= Place(b, off) /\ Place(b, off) < FileUpTo[b]
               /\ FileUpTo[b] <= filesz /\ Place(b, off) \in Nat
    <2>1. Place(b, off) = off + FileUpTo[b - 1] /\ off < phdr[b].filesz
      BY <1>6 DEF Place, InData
    <2> QED BY <1>1, <1>2, <1>4, <1>5, <2>1
  <1>7. ASSUME ~InData(b, off)
        PROVE  /\ filesz + ZeroUpTo[b - 1] <= Place(b, off)
               /\ Place(b, off) < filesz + ZeroUpTo[b]
               /\ ZeroUpTo[b] <= bss_offset /\ Place(b, off) \in Nat
    <2>1. Place(b, off) = off + ZeroUpTo[b - 1] + filesz - phdr[b].filesz /\ phdr[b].filesz <= off
      BY <1>1, <1>7 DEF Place, InData
    <2>2. \A o, z, f, s, m, y \in Nat : s <= o /\ o < m /\ y = z + m - s
             => /\ f + z <= o + z + f - s /\ o + z + f - s < f + y /\ o + z + f - s \in Nat
      OBVIOUS
    <2> QED BY <1>1, <1>2, <1>4, <1>5, <2>1, <2>2
  <1> QED BY <1>6, <1>7

\* Different offsets have different places.
LEMMA PlacesApart ==
    ASSUME IndInv, OffsetInv, phase # "collect",
           NEW b \in Bins, NEW off \in Nat, off < phdr[b].memsz,
           NEW c \in Bins, NEW o \in Nat, o < phdr[c].memsz,
           Place(b, off) = Place(c, o)
    PROVE  b = c /\ off = o
  <1>1. /\ filesz \in Nat /\ phdr[b].filesz \in Nat
        /\ \A n \in 0..NBins : FileUpTo[n] \in Nat /\ ZeroUpTo[n] \in Nat
    BY UpToGrows, HeaderSizes DEF IndInv, TypeOK
  <1>2. ASSUME NEW x \in Bins, NEW y \in Bins, x < y
        PROVE  FileUpTo[x] <= FileUpTo[y - 1] /\ ZeroUpTo[x] <= ZeroUpTo[y - 1]
    <2>1. x \in 0..NBins /\ y - 1 \in x..NBins
      BY <1>2, NBinsAssumption DEF Bins
    <2> QED BY <2>1, UpToGrows DEF IndInv
  <1>3. \A x \in Bins : x \in 0..NBins /\ x - 1 \in 0..NBins
    BY NBinsAssumption DEF Bins
  <1>4. Place(b, off) \in Nat
    BY PlaceRange
  <1>5. InData(b, off) <=> InData(c, o)
    <2>1. InData(b, off) => Place(b, off) < filesz
      <3>1. InData(b, off) => Place(b, off) < FileUpTo[b] /\ FileUpTo[b] <= filesz
        BY PlaceRange
      <3> QED BY <1>1, <1>3, <1>4, <3>1
    <2>2. InData(c, o) => Place(c, o) < filesz
      <3>1. InData(c, o) => Place(c, o) < FileUpTo[c] /\ FileUpTo[c] <= filesz
        BY PlaceRange
      <3> QED BY <1>1, <1>3, <1>4, <3>1
    <2>3. ~InData(b, off) => filesz <= Place(b, off)
      <3>1. ~InData(b, off) => filesz + ZeroUpTo[b - 1] <= Place(b, off)
        BY PlaceRange
      <3> QED BY <1>1, <1>3, <1>4, <3>1
    <2>4. ~InData(c, o) => filesz <= Place(c, o)
      <3>1. ~InData(c, o) => filesz + ZeroUpTo[c - 1] <= Place(c, o)
        BY PlaceRange
      <3> QED BY <1>1, <1>3, <1>4, <3>1
    <2> QED BY <1>1, <1>4, <2>1, <2>2, <2>3, <2>4
  <1>6. b = c
    <2>1. /\ InData(b, off) => FileUpTo[b - 1] <= Place(b, off) /\ Place(b, off) < FileUpTo[b]
          /\ InData(c, o) => FileUpTo[c - 1] <= Place(c, o) /\ Place(c, o) < FileUpTo[c]
          /\ ~InData(b, off) => filesz + ZeroUpTo[b - 1] <= Place(b, off) /\ Place(b, off) < filesz + ZeroUpTo[b]
          /\ ~InData(c, o) => filesz + ZeroUpTo[c - 1] <= Place(c, o) /\ Place(c, o) < filesz + ZeroUpTo[c]
      BY PlaceRange
    <2>2. /\ FileUpTo[b] \in Nat /\ FileUpTo[c] \in Nat /\ ZeroUpTo[b] \in Nat /\ ZeroUpTo[c] \in Nat
          /\ FileUpTo[b - 1] \in Nat /\ FileUpTo[c - 1] \in Nat
          /\ ZeroUpTo[b - 1] \in Nat /\ ZeroUpTo[c - 1] \in Nat
      BY <1>1, <1>3
    <2>3. ~(b < c)
      <3> SUFFICES ASSUME b < c PROVE FALSE
        OBVIOUS
      <3>1. FileUpTo[b] <= FileUpTo[c - 1] /\ ZeroUpTo[b] <= ZeroUpTo[c - 1]
        BY <1>2
      <3> QED BY <1>1, <1>4, <1>5, <2>1, <2>2, <3>1
    <2>4. ~(c < b)
      <3> SUFFICES ASSUME c < b PROVE FALSE
        OBVIOUS
      <3>1. FileUpTo[c] <= FileUpTo[b - 1] /\ ZeroUpTo[c] <= ZeroUpTo[b - 1]
        BY <1>2
      <3> QED BY <1>1, <1>4, <1>5, <2>1, <2>2, <3>1
    <2> QED BY <2>3, <2>4, NBinsAssumption DEF Bins
  <1>7. FileUpTo[b - 1] \in Nat /\ ZeroUpTo[b - 1] \in Nat
    BY <1>1, <1>3
  <1>8. off = o
    <2>1. CASE InData(b, off)
      <3>1. Place(b, off) = off + FileUpTo[b - 1] /\ Place(b, o) = o + FileUpTo[b - 1]
        BY <1>5, <1>6, <2>1 DEF Place
      <3> QED BY <1>6, <1>7, <3>1
    <2>2. CASE ~InData(b, off)
      <3>1. /\ Place(b, off) = off + ZeroUpTo[b - 1] + filesz - phdr[b].filesz
            /\ Place(b, o) = o + ZeroUpTo[b - 1] + filesz - phdr[b].filesz
        BY <1>5, <1>6, <2>2 DEF Place
      <3>2. \A x, y, z, f, s \in Nat : x + z + f - s = y + z + f - s => x = y
        OBVIOUS
      <3> QED BY <1>1, <1>6, <1>7, <3>1, <3>2
    <2> QED BY <2>1, <2>2
  <1> QED BY <1>6, <1>8

\* What is known of a reference.
LEMMA RefTyped ==
    ASSUME IndInv, OffsetInv, NEW r \in refs
    PROVE  /\ r.bin \in Bins /\ r.off \in Nat /\ r.at \in Nat /\ phase # "collect"
           /\ r.off < phdr[r.bin].memsz
           /\ Fixed(r) => r.at = Place(r.bin, r.off)
           /\ r.how = "tpoff" => r.at = r.off
  <1>1. r \in [bin : Bins, off : Nat, how : Hows, at : Nat]
    BY DEF IndInv, TypeOK
  <1>2. phase # "collect"
    BY DEF IndInv, Aimed
  <1> QED BY <1>1, <1>2 DEF OffsetInv, Placed

\* Offsets the compiler's linker fixed do not collide, those of variables without
\* an initial value stay clear of the initial values, and all stay in the block.
THEOREM FixedOffsetsApartHolds == Spec => []FixedOffsetsApart
  <1>1. IndInv /\ OffsetInv => FixedOffsetsApart
    <2> SUFFICES ASSUME IndInv, OffsetInv, NEW r \in refs, Fixed(r)
                 PROVE  /\ r.at < memsz
                        /\ ~InData(r.bin, r.off) => filesz <= r.at
                        /\ \A s \in refs : Fixed(s) /\ s.at = r.at => s.bin = r.bin /\ s.off = r.off
      BY DEF FixedOffsetsApart
    <2>1. /\ r.bin \in Bins /\ r.off \in Nat /\ phase # "collect" /\ r.off < phdr[r.bin].memsz
          /\ r.at = Place(r.bin, r.off)
      BY RefTyped
    <2>2. /\ memsz = filesz + bss_offset /\ filesz \in Nat /\ bss_offset \in Nat
      BY DEF IndInv, TypeOK, OffsetInv, Summed
    <2>3. /\ FileUpTo[r.bin] \in Nat /\ ZeroUpTo[r.bin] \in Nat /\ ZeroUpTo[r.bin - 1] \in Nat
      <3>1. r.bin \in 0..NBins /\ r.bin - 1 \in 0..NBins
        BY <2>1, NBinsAssumption DEF Bins
      <3> QED BY <3>1, UpToGrows DEF IndInv
    <2>4. /\ InData(r.bin, r.off) => r.at < FileUpTo[r.bin] /\ FileUpTo[r.bin] <= filesz
          /\ ~InData(r.bin, r.off) => /\ filesz + ZeroUpTo[r.bin - 1] <= r.at
                                      /\ r.at < filesz + ZeroUpTo[r.bin]
                                      /\ ZeroUpTo[r.bin] <= bss_offset
          /\ r.at \in Nat
      BY <2>1, PlaceRange
    <2>5. r.at < memsz /\ (~InData(r.bin, r.off) => filesz <= r.at)
      BY <2>2, <2>3, <2>4
    <2>6. \A s \in refs : Fixed(s) /\ s.at = r.at => s.bin = r.bin /\ s.off = r.off
      <3> SUFFICES ASSUME NEW s \in refs, Fixed(s), s.at = r.at
                   PROVE  s.bin = r.bin /\ s.off = r.off
        OBVIOUS
      <3>1. /\ s.bin \in Bins /\ s.off \in Nat /\ s.off < phdr[s.bin].memsz
            /\ s.at = Place(s.bin, s.off)
        BY RefTyped
      <3> QED BY <2>1, <3>1, PlacesApart
    <2> QED BY <2>5, <2>6
  <1> QED BY <1>1, OffsetInductive, PTL

\* The program's check that the block is as large as what was reserved for it
\* never fails.
THEOREM TemplateNeverAborts == Spec => [](phase # "aborted")
  <1>1. OffsetInv => phase # "aborted"
    BY DEF OffsetInv, Summed
  <1> QED BY <1>1, OffsetInductive, PTL

\* OthersBefore in terms of the sums up to the binary.
LEMMA OthersBeforeSum ==
    ASSUME IndInv, NEW r, r.bin \in Bins, r.off \in Nat
    PROVE  OthersBefore(r) =
             IF InData(r.bin, r.off) THEN FileUpTo[r.bin - 1]
             ELSE (FileUpTo[r.bin - 1] + ZeroUpTo[r.bin - 1])
                  + (FileUpTo[NBins] - FileUpTo[r.bin])
  <1> DEFINE F == FileUpTo
             Z == ZeroUpTo
             b == r.bin
  <1>1. /\ F[0] = 0 /\ Z[0] = 0
        /\ \A n \in 0..NBins : F[n] \in Nat /\ Z[n] \in Nat
        /\ \A x \in Bins : F[x] = F[x - 1] + phdr[x].filesz /\ Z[x] = Z[x - 1] + phdr[x].memsz - phdr[x].filesz
    BY UpToGrows DEF IndInv
  <1>2. \A x \in Bins : phdr[x].filesz \in Nat /\ phdr[x].memsz \in Nat /\ x \in 0..NBins /\ x - 1 \in 0..NBins
    BY HeaderSizes, NBinsAssumption DEF IndInv, Bins
  <1>3. b \in Bins /\ b \in Nat /\ NBins \in Nat /\ 0 < b /\ b <= NBins /\ \A x \in Bins : x \in Nat
    BY NBinsAssumption DEF Bins
  <1> HIDE DEF F, Z, b
  <1>4. CASE InData(r.bin, r.off)
    <2> DEFINE v == [x \in Bins |-> IF x = b THEN 0 ELSE IF x < b THEN phdr[x].filesz ELSE 0]
               s == [n \in 0..NBins |-> IF n < b THEN F[n] ELSE F[b - 1]]
    <2>1. v \in [Bins -> Int] /\ OthersBefore(r) = SumBins(v)
      <3>1. v \in [Bins -> Int]
        BY <1>2
      <3>2. OthersBefore(r) = SumBins(v)
        BY <1>4, Zenon DEF OthersBefore, b
      <3> QED BY <3>1, <3>2
    <2>2. \A n \in 0..NBins : s[n] = IF n < b THEN F[n] ELSE F[b - 1]
      OBVIOUS
    <2>3. \A x \in Bins : v[x] = IF x = b THEN 0 ELSE IF x < b THEN phdr[x].filesz ELSE 0
      OBVIOUS
    <2>4. s \in [0..NBins -> Int]
      BY <1>1, <1>2, <1>3
    <2> HIDE DEF v, s
    <2>5. s[0] = 0
      BY <1>1, <1>3, <2>2
    <2>6. \A x \in Bins : s[x] = s[x - 1] + v[x]
      <3>1. SUFFICES ASSUME NEW x \in Bins PROVE s[x] = s[x - 1] + v[x]
        OBVIOUS
      <3>2. x \in 0..NBins /\ x - 1 \in 0..NBins /\ x \in Nat /\ F[b - 1] \in Nat /\ F[x - 1] \in Nat
        BY <1>1, <1>2, <1>3
      <3>3. CASE x < b
        <4>1. s[x] = F[x] /\ s[x - 1] = F[x - 1] /\ v[x] = phdr[x].filesz
          BY <1>3, <2>2, <2>3, <3>2, <3>3
        <4> QED BY <1>1, <4>1
      <3>4. CASE x = b
        <4>1. s[x] = F[b - 1] /\ s[x - 1] = F[b - 1] /\ v[x] = 0
          BY <1>3, <2>2, <2>3, <3>2, <3>4
        <4> QED BY <3>2, <4>1
      <3>5. CASE x > b
        <4>1. s[x] = F[b - 1] /\ s[x - 1] = F[b - 1] /\ v[x] = 0
          BY <1>3, <2>2, <2>3, <3>2, <3>5
        <4> QED BY <3>2, <4>1
      <3> QED BY <1>3, <3>2, <3>3, <3>4, <3>5
    <2>7. RunningSum(NBins, s, v)
      BY <2>4, <2>5, <2>6 DEF RunningSum, Bins
    <2>8. SumBins(v) = s[NBins]
      BY <2>1, <2>7, SumsUp
    <2>9. s[NBins] = F[b - 1]
      BY <1>3, <2>2
    <2> QED BY <1>4, <2>1, <2>8, <2>9 DEF F, b
  <1>5. CASE ~InData(r.bin, r.off)
    <2> DEFINE v == [x \in Bins |-> IF x = b THEN 0 ELSE IF x < b THEN phdr[x].memsz ELSE phdr[x].filesz]
               s == [n \in 0..NBins |-> IF n < b THEN F[n] + Z[n]
                                        ELSE (F[b - 1] + Z[b - 1]) + (F[n] - F[b])]
    <2>1. v \in [Bins -> Int] /\ OthersBefore(r) = SumBins(v)
      <3>1. v \in [Bins -> Int]
        BY <1>2
      <3>2. OthersBefore(r) = SumBins(v)
        BY <1>5, Zenon DEF OthersBefore, b
      <3> QED BY <3>1, <3>2
    <2>2. \A n \in 0..NBins : s[n] = IF n < b THEN F[n] + Z[n]
                                     ELSE (F[b - 1] + Z[b - 1]) + (F[n] - F[b])
      OBVIOUS
    <2>3. \A x \in Bins : v[x] = IF x = b THEN 0 ELSE IF x < b THEN phdr[x].memsz ELSE phdr[x].filesz
      OBVIOUS
    <2>4. s \in [0..NBins -> Int]
      BY <1>1, <1>2, <1>3
    <2> HIDE DEF v, s
    <2>5. s[0] = 0
      BY <1>1, <1>3, <2>2
    <2>6. \A x \in Bins : s[x] = s[x - 1] + v[x]
      <3>1. SUFFICES ASSUME NEW x \in Bins PROVE s[x] = s[x - 1] + v[x]
        OBVIOUS
      <3>2. /\ x \in 0..NBins /\ x - 1 \in 0..NBins /\ x \in Nat
            /\ F[b - 1] \in Nat /\ F[x - 1] \in Nat /\ Z[b - 1] \in Nat /\ Z[x - 1] \in Nat /\ F[b] \in Nat
            /\ phdr[x].filesz \in Nat /\ phdr[x].memsz \in Nat
            /\ F[x] = F[x - 1] + phdr[x].filesz /\ Z[x] = Z[x - 1] + phdr[x].memsz - phdr[x].filesz
        BY <1>1, <1>2, <1>3
      <3>3. CASE x < b
        <4>1. s[x] = F[x] + Z[x] /\ s[x - 1] = F[x - 1] + Z[x - 1] /\ v[x] = phdr[x].memsz
          BY <1>3, <2>2, <2>3, <3>2, <3>3
        <4>2. \A f, z, m, y \in Nat : (f + y) + (z + m - y) = (f + z) + m
          OBVIOUS
        <4> QED BY <3>2, <4>1, <4>2
      <3>4. CASE x = b
        <4>1. s[x] = (F[b - 1] + Z[b - 1]) + (F[b] - F[b]) /\ s[x - 1] = F[b - 1] + Z[b - 1] /\ v[x] = 0
          BY <1>3, <2>2, <2>3, <3>2, <3>4
        <4> QED BY <3>2, <4>1
      <3>5. CASE x > b
        <4>1. /\ s[x] = (F[b - 1] + Z[b - 1]) + (F[x] - F[b])
              /\ s[x - 1] = (F[b - 1] + Z[b - 1]) + (F[x - 1] - F[b])
              /\ v[x] = phdr[x].filesz
          BY <1>3, <2>2, <2>3, <3>2, <3>5
        <4>2. \A f, z, g, h, y \in Nat : (f + z) + ((g + y) - h) = ((f + z) + (g - h)) + y
          OBVIOUS
        <4> QED BY <3>2, <4>1, <4>2
      <3> QED BY <1>3, <3>2, <3>3, <3>4, <3>5
    <2>7. RunningSum(NBins, s, v)
      BY <2>4, <2>5, <2>6 DEF RunningSum, Bins
    <2>8. SumBins(v) = s[NBins]
      BY <2>1, <2>7, SumsUp
    <2>9. s[NBins] = (F[b - 1] + Z[b - 1]) + (F[NBins] - F[b])
      BY <1>3, <2>2
    <2> QED BY <1>5, <2>1, <2>8, <2>9 DEF F, Z, b
  <1> QED BY <1>4, <1>5

\* A fixed offset moves by what the others have before it.
LEMMA PlaceShift ==
    ASSUME IndInv, OffsetInv, NEW r \in refs, Fixed(r)
    PROVE  r.at = r.off + OthersBefore(r) /\ OthersBefore(r) \in Nat
  <1>1. /\ r.bin \in Bins /\ r.off \in Nat /\ phase # "collect" /\ r.off < phdr[r.bin].memsz
        /\ r.at = Place(r.bin, r.off)
    BY RefTyped
  <1>2. r.bin \in 0..NBins /\ r.bin - 1 \in 0..NBins /\ NBins \in r.bin..NBins
    BY <1>1, NBinsAssumption DEF Bins
  <1>3. /\ FileUpTo[r.bin - 1] \in Nat /\ ZeroUpTo[r.bin - 1] \in Nat /\ FileUpTo[r.bin] \in Nat
        /\ FileUpTo[r.bin] <= FileUpTo[NBins] /\ FileUpTo[NBins] \in Nat
        /\ FileUpTo[r.bin] = FileUpTo[r.bin - 1] + phdr[r.bin].filesz
    BY <1>1, <1>2, UpToGrows DEF IndInv
  <1>4. phdr[r.bin].filesz \in Nat /\ filesz = FileUpTo[NBins]
    BY <1>1, HeaderSizes DEF IndInv, OffsetInv, Summed
  <1>5. CASE InData(r.bin, r.off)
    <2>1. OthersBefore(r) = FileUpTo[r.bin - 1]
      BY <1>1, <1>5, OthersBeforeSum
    <2> QED BY <1>1, <1>3, <1>5, <2>1 DEF Place
  <1>6. CASE ~InData(r.bin, r.off)
    <2>1. OthersBefore(r) = (FileUpTo[r.bin - 1] + ZeroUpTo[r.bin - 1])
                            + (FileUpTo[NBins] - FileUpTo[r.bin])
      BY <1>1, <1>6, OthersBeforeSum
    <2>2. r.at = r.off + ZeroUpTo[r.bin - 1] + filesz - phdr[r.bin].filesz
      BY <1>1, <1>6 DEF Place
    <2>3. \A o, f, z, t, s, g \in Nat : g = f + s /\ g <= t
             => /\ o + z + t - s = o + ((f + z) + (t - g))
                /\ (f + z) + (t - g) \in Nat
      OBVIOUS
    <2> QED BY <1>1, <1>3, <1>4, <2>1, <2>2, <2>3
  <1> QED BY <1>5, <1>6

\* A multiple of an alignment is what leaves the alignment of an offset alone.
LEMMA ShiftAligned ==
    ASSUME NEW x \in Nat, NEW y \in Nat, NEW a \in Alignments
    PROVE  (x + y) % a = x % a <=> y % a = 0
  <1>1. (x + y) % 2 = x % 2 <=> y % 2 = 0
    OBVIOUS
  <1>2. (x + y) % 4 = x % 4 <=> y % 4 = 0
    OBVIOUS
  <1> QED BY <1>1, <1>2 DEF Alignments

\* No binary before b has initial values exactly when those of b come first.
LEMMA FirstInData ==
    ASSUME IndInv, NEW b \in Bins
    PROVE  FileUpTo[b - 1] = 0 <=> \A c \in 1..(b - 1) : phdr[c].filesz = 0
  <1>1. /\ FileUpTo[0] = 0 /\ \A n \in 0..NBins : FileUpTo[n] \in Nat
        /\ \A x \in Bins : FileUpTo[x] = FileUpTo[x - 1] + phdr[x].filesz /\ phdr[x].filesz \in Nat
        /\ \A m \in 0..NBins : \A n \in m..NBins : FileUpTo[m] <= FileUpTo[n]
    BY UpToGrows, HeaderSizes DEF IndInv
  <1>2. b - 1 \in 0..NBins /\ b - 1 \in Nat
    BY NBinsAssumption DEF Bins
  <1>3. ASSUME FileUpTo[b - 1] = 0, NEW c \in 1..(b - 1)
        PROVE  phdr[c].filesz = 0
    <2>1. c \in Bins /\ c \in 0..NBins /\ c - 1 \in 0..NBins /\ b - 1 \in c..NBins
      BY <1>2, <1>3, NBinsAssumption DEF Bins
    <2>2. FileUpTo[c] <= 0 /\ FileUpTo[c] = FileUpTo[c - 1] + phdr[c].filesz
          /\ FileUpTo[c - 1] \in Nat /\ phdr[c].filesz \in Nat
      BY <1>1, <1>3, <2>1
    <2> QED BY <2>2
  <1>4. ASSUME \A c \in 1..(b - 1) : phdr[c].filesz = 0
        PROVE  FileUpTo[b - 1] = 0
    <2> DEFINE T == {n \in 0..(b - 1) : FileUpTo[n] = 0}
    <2>1. 0 \in T
      BY <1>1, <1>2
    <2>2. \A m \in 0..(b - 1) : m \in T /\ m < b - 1 => m + 1 \in T
      <3>1. SUFFICES ASSUME NEW m \in 0..(b - 1), FileUpTo[m] = 0, m < b - 1
                     PROVE  m + 1 \in 0..(b - 1) /\ FileUpTo[m + 1] = 0
        OBVIOUS
      <3>2. m + 1 \in 1..(b - 1) /\ m + 1 \in Bins /\ (m + 1) - 1 = m
        BY <1>2, <3>1, NBinsAssumption DEF Bins
      <3>3. FileUpTo[m + 1] = 0 + 0
        BY <1>1, <1>4, <3>1, <3>2
      <3> QED BY <3>2, <3>3
    <2> HIDE DEF T
    <2>3. 0..(b - 1) \subseteq T
      BY <1>2, <2>1, <2>2, IntervalInduction
    <2>4. b - 1 \in T
      BY <1>2, <2>3
    <2> QED BY <2>4 DEF T
  <1> QED BY <1>3, <1>4

\* Initial exec references are right, and variables are aligned, exactly when the
\* binaries linked before leave them alone.
THEOREM RightUnlessShiftedHolds == Spec => []RightUnlessShifted
  <1>1. IndInv /\ OffsetInv => AlignedUnlessShifted
    <2> SUFFICES ASSUME IndInv, OffsetInv, NEW r \in refs, Fixed(r), NEW a \in Alignments
                 PROVE  r.at % a = r.off % a <=> OthersBefore(r) % a = 0
      BY DEF AlignedUnlessShifted
    <2>1. r.at = r.off + OthersBefore(r) /\ OthersBefore(r) \in Nat /\ r.off \in Nat
      BY PlaceShift, RefTyped
    <2> QED BY <2>1, ShiftAligned
  <1>2. IndInv /\ OffsetInv => InitialExecOfFirst
    <2> SUFFICES ASSUME IndInv, OffsetInv, phase = "done", NEW r \in refs,
                        InData(r.bin, r.off), r.how = "tpoff"
                 PROVE  Reaches(r) <=> \A b \in 1..(r.bin - 1) : phdr[b].filesz = 0
      BY DEF InitialExecOfFirst
    <2>1. r.bin \in Bins /\ r.off \in Nat /\ r.at = r.off /\ r.off < phdr[r.bin].memsz
      BY RefTyped
    <2>2. PICK e \in 1..Len(data) : data[e].bin = r.bin
      <3>1. HasTLS(r.bin)
        <4>1. phdr[r.bin].memsz \in Nat
          BY <2>1, HeaderSizes DEF IndInv
        <4> QED BY <2>1, <4>1 DEF HasTLS
      <3> QED BY <2>1, <3>1 DEF IndInv, OneEntry
    <2>3. /\ data[e].file_offset = FileUpTo[r.bin - 1] /\ data[e].file_offset \in Nat
          /\ data[e].size = phdr[r.bin].filesz /\ data[e].size \in Nat
          /\ image \in Seq(Bins \X Nat) /\ DOMAIN image = 1..Len(image) /\ Len(image) \in Nat
      BY <2>2, EntryTyped, SMTT(40) DEF IndInv, OneEntry, OffsetInv, Summed, TypeOK
    <2>4. r.off \in 0..(data[e].size - 1)
      BY <2>1, <2>3 DEF InData
    <2>5. ASSUME FileUpTo[r.bin - 1] = 0 PROVE Reaches(r)
      <3>1. InPlace(e)
        BY DEF IndInv, Written
      <3>2. image[data[e].file_offset + r.off + 1] = <<data[e].bin, r.off>>
        BY <2>4, <3>1 DEF InPlace
      <3>3. data[e].file_offset + r.off + 1 = r.at + 1
        BY <2>1, <2>3, <2>5
      <3>4. r.at + 1 \in 1..Len(image)
        BY <2>1, <2>3, <2>4, <2>5, <3>1, SMTT(30) DEF InPlace, EndOf
      <3> QED BY <2>2, <2>3, <3>2, <3>3, <3>4 DEF Reaches
    <2>6. ASSUME Reaches(r) PROVE FileUpTo[r.bin - 1] = 0
      <3>1. r.at + 1 \in 1..Len(image) /\ image[r.at + 1] = <<r.bin, r.off>>
        BY <2>3, <2>6 DEF Reaches
      <3>2. PICK k \in 1..Len(data) :
               image[r.at + 1] = <<data[k].bin, (r.at + 1) - 1 - data[k].file_offset>>
        BY <3>1 DEF OffsetInv, Accounted
      <3>3. data[k].bin = r.bin /\ r.off = (r.at + 1) - 1 - data[k].file_offset
        BY <3>1, <3>2
      <3>4. data[k].file_offset = FileUpTo[r.bin - 1] /\ data[k].file_offset \in Nat
        BY <3>3, EntryTyped DEF IndInv, OffsetInv, Summed
      <3>5. \A x, f \in Nat : x = (x + 1) - 1 - f => f = 0
        OBVIOUS
      <3> QED BY <2>1, <3>3, <3>4, <3>5
    <2> QED BY <2>1, <2>5, <2>6, FirstInData
  <1> QED BY <1>1, <1>2, OffsetInductive, PTL DEF RightUnlessShifted
=============================================================================
