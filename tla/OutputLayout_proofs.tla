-------------------------- MODULE OutputLayout_proofs --------------------------
(***************************************************************************)
(* Theorems about Link from DecideMemOffset to Emit, for any number of     *)
(* binaries and any segments, arrays, relocations, TLS headers and table   *)
(* sizes.                                                                  *)
(*                                                                         *)
(* The invariant LayoutInv has a part for each stage that leaves something *)
(* for a later one.                                                        *)
(*   Typed         the types, and the inputs, which no call changes        *)
(*   Moving        how many binaries have an offset                        *)
(*   Collecting    the TLS sizes are the sums of the headers so far        *)
(*   Gathering     which binaries have a place in the output's arrays      *)
(*   DynamicBuilt  what .dynamic recorded is what sold.h computes now      *)
(*   Loading       the segments recorded so far, by binary and segment     *)
(*   Merging       how far the merged frame table has come                 *)
(*   Registering   the section headers and the indices of their links      *)
(*   Emitting      what has been written is where the offsets say          *)
(* "Recorded equals written" is true in no stage by itself: it follows at  *)
(* the end because each record is kept equal to the current formula until  *)
(* Emit, where the position in the file is compared with that formula.     *)
(***************************************************************************)
EXTENDS OutputLayout, SequenceTheorems, Induction_proofs, TLAPS

\* The sum of v over the linked binaries is the last value of a running sum.
LEMMA SumsUp ==
    ASSUME NEW v \in [Bins -> Int], NEW s, RunningSum(NBins, s, v)
    PROVE  SumBins(v) = s[NBins]
  <1>1. v \in [1..NBins -> Int]
    BY DEF Bins
  <1> QED BY <1>1, SumChosen, NBinsAssumption DEF SumBins

\* Where the items of a concatenation are.
Places(a, c) ==
    /\ Len(a \o c) = Len(a) + Len(c)
    /\ \A i \in 1..Len(a) : (a \o c)[i] = a[i]
    /\ \A i \in 1..Len(c) : (a \o c)[Len(a) + i] = c[i]
    /\ \A i \in 1..(Len(a) + Len(c)) :
         i \in 1..Len(a) \/ (i - Len(a) \in 1..Len(c) /\ (a \o c)[i] = c[i - Len(a)])

LEMMA ConcatPlaces ==
    ASSUME NEW V
    PROVE  \A a, c \in Seq(V) : a \o c \in Seq(V) /\ Places(a, c)
  <1> TAKE a, c \in Seq(V)
  <1>1. /\ a \o c \in Seq(V) /\ Len(a \o c) = Len(a) + Len(c)
        /\ \A i \in 1..(Len(a) + Len(c)) :
             (a \o c)[i] = IF i <= Len(a) THEN a[i] ELSE c[i - Len(a)]
    BY ConcatProperties
  <1>2. Len(a) \in Nat /\ Len(c) \in Nat
    BY LenProperties
  <1>3. \A i \in 1..Len(a) : i \in 1..(Len(a) + Len(c)) /\ i <= Len(a)
    BY <1>2
  <1>4. \A i \in 1..Len(c) : /\ Len(a) + i \in 1..(Len(a) + Len(c)) /\ ~(Len(a) + i <= Len(a))
                              /\ (Len(a) + i) - Len(a) = i
    BY <1>2
  <1>5. \A i \in 1..(Len(a) + Len(c)) : i \in 1..Len(a) \/ (i - Len(a) \in 1..Len(c) /\ ~(i <= Len(a)))
    BY <1>2
  <1> QED BY <1>1, <1>3, <1>4, <1>5 DEF Places

-----------------------------------------------------------------------------
(***************************************************************************)
(* Joined.  A running join has at n the items of binaries 1, ..., n.       *)
(***************************************************************************)
Pieces(items, b) == [k \in DOMAIN items[b] |-> <<b, items[b][k]>>]

RunningJoin(j, items, V) ==
    /\ j \in [0..NBins -> Seq(Bins \X V)] /\ j[0] = <<>>
    /\ \A b \in Bins : j[b] = j[b - 1] \o Pieces(items, b)

LEMMA PiecesTyped ==
    ASSUME NEW V, NEW items \in [Bins -> Seq(V)], NEW b \in Bins
    PROVE  /\ Pieces(items, b) \in Seq(Bins \X V)
           /\ Len(Pieces(items, b)) = Len(items[b]) /\ Len(items[b]) \in Nat
           /\ \A k \in 1..Len(items[b]) : Pieces(items, b)[k] = <<b, items[b][k]>>
  <1>1. /\ Len(items[b]) \in Nat /\ DOMAIN items[b] = 1..Len(items[b])
        /\ \A k \in 1..Len(items[b]) : items[b][k] \in V
    BY LenProperties, ElementOfSeq
  <1> QED BY <1>1 DEF Pieces

LEMMA RunningJoinExists ==
    ASSUME NEW V, NEW items \in [Bins -> Seq(V)]
    PROVE  \E j : RunningJoin(j, items, V)
  <1> DEFINE S == Seq(Bins \X V)
             a == <<>>
             Step == [n \in 1..NBins |-> [x \in S |-> x \o Pieces(items, n)]]
  <1>1. \A n \in 1..NBins, x \in S : x \o Pieces(items, n) \in S
    BY PiecesTyped, ConcatProperties DEF Bins
  <1>2. Step \in [1..NBins -> [S -> S]] /\ a \in S
    <2> HIDE DEF S
    <2>1. Step \in [1..NBins -> [S -> S]]
      BY <1>1
    <2>2. a \in S
      BY DEF S
    <2> QED BY <2>1, <2>2
  <1>3. \A n \in 1..NBins, x \in S : Step[n][x] = x \o Pieces(items, n)
    OBVIOUS
  <1> HIDE DEF S, a, Step
  <1>4. PICK j \in [0..NBins -> S] : \A n \in 0..NBins : j[n] = Recurs(j, a, Step, n)
    <2>1. NBins \in Nat
      BY NBinsAssumption
    <2> QED BY <1>2, <2>1, RecursionExists
  <1>5. j[0] = <<>>
    <2>1. 0 \in 0..NBins
      BY NBinsAssumption
    <2> QED BY <1>4, <2>1 DEF Recurs, a
  <1>6. \A b \in Bins : j[b] = j[b - 1] \o Pieces(items, b)
    <2>1. SUFFICES ASSUME NEW b \in Bins PROVE j[b] = j[b - 1] \o Pieces(items, b)
      OBVIOUS
    <2>2. b \in 0..NBins /\ b \in 1..NBins /\ b - 1 \in 0..NBins /\ b # 0
      BY NBinsAssumption DEF Bins
    <2>3. j[b] = Step[b][j[b - 1]]
      BY <1>4, <2>2 DEF Recurs
    <2> QED BY <1>3, <1>4, <2>2, <2>3
  <1> QED BY <1>4, <1>5, <1>6 DEF RunningJoin, S

\* The function that Joined chooses is a running join.
LEMMA JoinedUp ==
    ASSUME NEW V, NEW items \in [Bins -> Seq(V)], NEW j, RunningJoin(j, items, V)
    PROVE  Joined(items) = j[NBins]
  <1> DEFINE upto == CHOOSE g : g = [b \in 0..NBins |-> IF b = 0 THEN <<>>
                                                        ELSE g[b - 1] \o Pieces(items, b)]
  <1>1. Joined(items) = upto[NBins]
    BY DEF Joined, Pieces
  <1>2. upto = [b \in 0..NBins |-> IF b = 0 THEN <<>> ELSE upto[b - 1] \o Pieces(items, b)]
    <2>1. j = [b \in 0..NBins |-> j[b]]
      BY DEF RunningJoin
    <2>2. \A b \in 0..NBins : j[b] = IF b = 0 THEN <<>> ELSE j[b - 1] \o Pieces(items, b)
      BY DEF RunningJoin, Bins
    <2>3. j = [b \in 0..NBins |-> IF b = 0 THEN <<>> ELSE j[b - 1] \o Pieces(items, b)]
      BY <2>1, <2>2
    <2> QED BY <2>3
  <1> HIDE DEF upto
  <1> DEFINE T == {n \in 0..NBins : upto[n] = j[n]}
  <1>3. 0 \in T
    BY <1>2, NBinsAssumption DEF RunningJoin
  <1>4. \A m \in 0..NBins : m \in T /\ m < NBins => m + 1 \in T
    <2>1. SUFFICES ASSUME NEW m \in 0..NBins, upto[m] = j[m], m < NBins
                   PROVE  m + 1 \in 0..NBins /\ upto[m + 1] = j[m + 1]
      OBVIOUS
    <2>2. m + 1 \in Bins /\ m + 1 \in 0..NBins /\ (m + 1) - 1 = m /\ m + 1 # 0
      BY <2>1, NBinsAssumption DEF Bins
    <2>3. upto[m + 1] = upto[m] \o Pieces(items, m + 1)
      BY <1>2, <2>2
    <2> QED BY <2>1, <2>2, <2>3 DEF RunningJoin
  <1> HIDE DEF T
  <1>5. 0..NBins \subseteq T
    BY <1>3, <1>4, NBinsAssumption, IntervalInduction
  <1>6. NBins \in T
    BY <1>5, NBinsAssumption
  <1> QED BY <1>1, <1>6 DEF T

\* Where each item is, in terms of the running sum of the numbers of items.
JoinedAt(items, s) ==
    /\ \A b \in Bins : \A i \in 1..Len(items[b]) :
         /\ s[b - 1] + i \in 1..Len(Joined(items))
         /\ Joined(items)[s[b - 1] + i] = <<b, items[b][i]>>
    /\ \A k \in 1..Len(Joined(items)) :
         \E b \in Bins : \E i \in 1..Len(items[b]) : k = s[b - 1] + i

LEMMA JoinedPlaces ==
    ASSUME NEW V, NEW items \in [Bins -> Seq(V)],
           NEW s, RunningSum(NBins, s, [b \in Bins |-> Len(items[b])])
    PROVE  Joined(items) \in Seq(Bins \X V) /\ Len(Joined(items)) = s[NBins] /\ JoinedAt(items, s)
  <1> DEFINE v == [b \in Bins |-> Len(items[b])]
  <1>1. PICK j : RunningJoin(j, items, V)
    BY RunningJoinExists
  <1>2. Joined(items) = j[NBins] /\ j[NBins] \in Seq(Bins \X V)
    <2>1. Joined(items) = j[NBins]
      BY <1>1, JoinedUp
    <2> QED BY <1>1, <2>1, NBinsAssumption DEF RunningJoin
  <1>3. \A b \in Bins : v[b] = Len(items[b]) /\ v[b] \in Nat
    BY PiecesTyped
  <1>4. /\ s[0] = 0 /\ \A n \in 0..NBins : s[n] \in Int
        /\ \A b \in Bins : s[b] = s[b - 1] + Len(items[b])
    BY DEF RunningSum, Bins
  <1> HIDE DEF v
  <1> DEFINE Placed(n) ==
               /\ s[n] \in Nat /\ Len(j[n]) = s[n]
               /\ \A b \in 1..n : \A i \in 1..Len(items[b]) :
                    s[b - 1] + i \in 1..s[n] /\ j[n][s[b - 1] + i] = <<b, items[b][i]>>
               /\ \A k \in 1..s[n] : \E b \in 1..n : \E i \in 1..Len(items[b]) : k = s[b - 1] + i
             T == {n \in 0..NBins : Placed(n)}
  <1>5. 0 \in T
    <2>1. j[0] = <<>> /\ Len(<<>>) = 0
      BY <1>1 DEF RunningJoin
    <2> QED BY <1>4, <2>1, NBinsAssumption
  <1>6. \A m \in 0..NBins : m \in T /\ m < NBins => m + 1 \in T
    <2>1. SUFFICES ASSUME NEW m \in 0..NBins, Placed(m), m < NBins PROVE Placed(m + 1)
      <3> HIDE DEF Placed
      <3> QED BY NBinsAssumption
    <2>2. m + 1 \in Bins /\ (m + 1) - 1 = m /\ m \in 0..NBins /\ m \in Int
      BY <2>1, NBinsAssumption DEF Bins
    <2> DEFINE c == m + 1
               p == Pieces(items, c)
               L == Len(items[c])
    <2>0. c \in Bins /\ c = m + 1 /\ c - 1 = m /\ \A b \in 1..c : b # c => b \in 1..m
      BY <2>2
    <2>3. /\ p \in Seq(Bins \X V) /\ Len(p) = L /\ L \in Nat
          /\ \A k \in 1..L : p[k] = <<c, items[c][k]>>
      BY <2>2, PiecesTyped
    <2>4. j[c] = j[m] \o p /\ j[m] \in Seq(Bins \X V)
      BY <1>1, <2>2 DEF RunningJoin
    <2>5. s[c] = s[m] + L /\ s[m] \in Nat /\ Len(j[m]) = s[m]
      BY <1>4, <2>1, <2>2
    <2>13. /\ \A b \in 1..m : \A i \in 1..Len(items[b]) :
                s[b - 1] + i \in 1..s[m] /\ j[m][s[b - 1] + i] = <<b, items[b][i]>>
          /\ \A k \in 1..s[m] : \E b \in 1..m : \E i \in 1..Len(items[b]) : k = s[b - 1] + i
      BY <2>1
    <2>10. SUFFICES Placed(c)
      OBVIOUS
    <2>11. Len(items[c]) = L
      OBVIOUS
    <2> HIDE DEF c, p, L
    <2>6. /\ Len(j[m] \o p) = s[m] + L
          /\ \A i \in 1..(s[m] + L) :
               (j[m] \o p)[i] = IF i <= s[m] THEN j[m][i] ELSE p[i - s[m]]
      <3>1. /\ Len(j[m] \o p) = Len(j[m]) + Len(p)
            /\ \A i \in 1..(Len(j[m]) + Len(p)) :
                 (j[m] \o p)[i] = IF i <= Len(j[m]) THEN j[m][i] ELSE p[i - Len(j[m])]
        BY <2>3, <2>4, ConcatProperties, ZenonT(40)
      <3> QED BY <2>3, <2>5, <3>1
    <2>7. s[c] \in Nat /\ Len(j[c]) = s[c]
      BY <2>3, <2>4, <2>5, <2>6
    <2>12. \A i \in 1..(s[m] + L) : j[c][i] = IF i <= s[m] THEN j[m][i] ELSE p[i - s[m]]
      BY <2>4, <2>6
    <2>8. ASSUME NEW b \in 1..c, NEW i \in 1..Len(items[b])
          PROVE  s[b - 1] + i \in 1..s[c] /\ j[c][s[b - 1] + i] = <<b, items[b][i]>>
      <3>1. CASE b = c
        <4>1. b - 1 = m /\ i \in 1..L
          BY <2>0, <2>8, <2>11, <3>1
        <4>2. s[m] + i \in 1..(s[m] + L) /\ ~(s[m] + i <= s[m]) /\ (s[m] + i) - s[m] = i
          BY <2>3, <2>5, <4>1, SMTT(40)
        <4>3. j[c][s[m] + i] = p[i]
          BY <2>12, <4>2
        <4> QED BY <2>3, <2>5, <3>1, <4>1, <4>2, <4>3
      <3>2. CASE b # c
        <4>1. b \in 1..m
          BY <2>0, <3>2
        <4>2. s[b - 1] + i \in 1..s[m] /\ j[m][s[b - 1] + i] = <<b, items[b][i]>>
          BY <2>13, <2>8, <4>1
        <4>3. s[b - 1] + i \in 1..(s[m] + L) /\ s[b - 1] + i <= s[m]
          BY <2>3, <2>5, <4>2
        <4>4. j[c][s[b - 1] + i] = j[m][s[b - 1] + i]
          BY <2>12, <4>3
        <4> QED BY <2>5, <4>2, <4>3, <4>4
      <3> QED BY <3>1, <3>2
    <2>9. ASSUME NEW k \in 1..s[c]
          PROVE  \E b \in 1..c : \E i \in 1..Len(items[b]) : k = s[b - 1] + i
      <3>1. CASE k <= s[m]
        <4>1. k \in 1..s[m]
          BY <2>5, <2>7, <3>1
        <4>2. PICK b \in 1..m : \E i \in 1..Len(items[b]) : k = s[b - 1] + i
          BY <2>13, <4>1
        <4>3. b \in 1..c
          BY <2>0, <2>2, <4>2
        <4> QED BY <4>2, <4>3
      <3>2. CASE ~(k <= s[m])
        <4>1. k - s[m] \in 1..L /\ k = s[m] + (k - s[m])
          BY <2>3, <2>5, <2>7, <3>2, SMTT(40)
        <4>2. c \in 1..c /\ c - 1 = m
          BY <2>0, <2>2
        <4> QED BY <2>11, <4>1, <4>2
      <3> QED BY <3>1, <3>2
    <2> QED BY <2>7, <2>8, <2>9
  <1> HIDE DEF T
  <1>7. 0..NBins \subseteq T
    BY <1>5, <1>6, NBinsAssumption, IntervalInduction
  <1>8. NBins \in T
    BY <1>7, NBinsAssumption
  <1> QED BY <1>2, <1>8 DEF T, Bins, JoinedAt

-----------------------------------------------------------------------------
(***************************************************************************)
(* The invariant.                                                          *)
(***************************************************************************)
\* The tags BuildDynamic writes, the sections Link registers and the items of Emit.
Tags     == {"needed", "init_array", "init_arraysz", "fini_array", "fini_arraysz", "gnu_hash", "strtab",
             "strsz", "symtab", "versym", "verneed", "rel", "relasz", "null"}
Sections == {"null", "gnu_hash", "symtab", "versym", "verneed", "rel", "init_array", "fini_array",
             "strtab", "dynamic", "shstrtab"}
Names    == {"phdrs", "init_array", "fini_array", "gnu_hash", "symtab", "versym", "verneed", "rel",
             "strtab", "dynamic", "shstrtab", "code", "load", "tls", "ehframe", "mprotect", "shdrs"}

LoadSegment == [bin : Bins, offset : Nat, vaddr : Nat, filesz : Nat, memsz : Nat]
Relocation  == [at : Nat, what : {"init", "fini", "other"} \X (0..NBins) \X Int]
DynEntry    == [tag : Tags, val : Nat]
SecHeader   == [type : Sections, offset : Nat, size : Nat, link : Int]
FileItem    == [what : Names, at : Nat, size : Nat]
TLSEntry    == [bin : Bins, size : Nat, file_offset : Nat, bss_offset : Nat]

\* What the program is given, which no call changes.
Inputs ==
    /\ bin \in [Bins -> UNION {Binaries[b] : b \in Bins}] /\ \A b \in Bins : bin[b] \in Binaries[b]
    /\ phdr = [b \in Bins |-> [filesz |-> bin[b].tls.filesz, memsz |-> bin[b].tls.memsz]]

Counters ==
    /\ pc \in 0..14 /\ pos \in Nat \ {0}
    /\ tls_offset \in Nat /\ ehframe_offset \in Nat /\ mprotect_offset \in Nat
    /\ filesz \in Nat /\ memsz \in Nat /\ bss_offset \in Nat
    /\ nsyms \in Nat /\ nverneed \in Nat /\ nvernaux \in Nat /\ strtab \in Nat
    /\ tls_file_offset \in Nat /\ ehframe_file_offset \in Nat /\ mprotect_file_offset \in Nat
    /\ fpos \in Nat

Tables ==
    /\ offsets \in Seq(Nat) /\ data \in Seq(TLSEntry)
    /\ init_array \in Seq(Slot) /\ fini_array \in Seq(Slot)
    /\ DOMAIN bin_to_init \subseteq Bins /\ bin_to_init \in [DOMAIN bin_to_init -> Nat]
    /\ DOMAIN bin_to_fini \subseteq Bins /\ bin_to_fini \in [DOMAIN bin_to_fini -> Nat]
    /\ rels \in Seq(Relocation) /\ dynamic \in Seq(DynEntry) /\ loads \in Seq(LoadSegment)
    /\ eh_table \in Seq(Int) /\ shdrs \in Seq(SecHeader) /\ file \in Seq(FileItem)

Typed == Inputs /\ Counters /\ Tables

\* The binaries before pos have a place, and the CHECK let them pass.
Moving ==
    /\ pc = 1 => /\ pos <= NBins + 1 /\ Len(offsets) = pos - 1
                 /\ \A b \in Bins : b < pos => Movable(b)
    /\ pc > 1 => Len(offsets) = NBins /\ \A b \in Bins : Movable(b)

\* The sizes CollectTLS adds up are the sums of those of the binaries before
\* pos, each of which has an entry when it has TLS.
UpTo(v, n, x) == \A s : RunningSum(NBins, s, v) => x = s[n]

Collecting ==
    LET mem_sizes  == [b \in Bins |-> phdr[b].memsz]
        file_sizes == [b \in Bins |-> phdr[b].filesz]
    IN  /\ pc = 1 => filesz = 0 /\ memsz = 0 /\ data = <<>>
        /\ pc = 2 => /\ pos <= NBins + 1
                     /\ UpTo(mem_sizes, pos - 1, memsz) /\ UpTo(file_sizes, pos - 1, filesz)
                     /\ \A b \in Bins : b < pos /\ HasTLS(b) => \E k \in DOMAIN data : data[k].bin = b
        /\ pc > 2 => /\ memsz = TLSMemSize /\ filesz = TLSFileSize
                     /\ \A b \in Bins : HasTLS(b) => \E k \in DOMAIN data : data[k].bin = b

\* The binaries whose arrays have a place in those of the output.
Gathering ==
    /\ pc \in 1..2 => bin_to_init = [b \in {} |-> 0] /\ bin_to_fini = [b \in {} |-> 0]
    /\ pc = 3 => /\ pos <= 2 * NBins + 1
                 /\ DOMAIN bin_to_init = {b \in Bins : b > NBins + 2 - pos}
                 /\ DOMAIN bin_to_fini = {b \in Bins : b < pos - NBins - 1} \ ExcludedFini
    /\ pc > 3 => DOMAIN bin_to_init = Bins /\ DOMAIN bin_to_fini = Bins \ ExcludedFini

\* What .dynamic says of a place or a size is what sold.h computes for it now.
RightEntry(d) ==
    /\ d.tag = "init_array"   => d.val = InitArrayOffset
    /\ d.tag = "init_arraysz" => d.val = InitArraySize
    /\ d.tag = "fini_array"   => d.val = FiniArrayOffset
    /\ d.tag = "fini_arraysz" => d.val = FiniArraySize
    /\ d.tag = "gnu_hash"     => d.val = GnuHashOffset
    /\ d.tag = "strtab"       => d.val = StrtabOffset
    /\ d.tag = "strsz"        => d.val = strtab
    /\ d.tag = "symtab"       => d.val = SymtabOffset
    /\ d.tag = "versym"       => d.val = VersymOffset
    /\ d.tag = "verneed"      => d.val = VerneedOffset
    /\ d.tag = "rel"          => d.val = RelOffset
    /\ d.tag = "relasz"       => d.val = RelSize

DynamicBuilt ==
    pc > 8 => \A k \in 1..Len(dynamic) : RightEntry(dynamic[k])

\* The place in the file of the k-th segment is the next page above its
\* predecessor's end, and what its address has above a page.
FreeAt(k) == IF k = 1 THEN CodeOffset
             ELSE AlignNext(loads[k - 1].offset + loads[k - 1].filesz, Page)

Loading ==
    /\ pc \in 1..8 => loads = <<>>
    /\ pc = 9 => Len(loads) = pos - 1 /\ pos <= Len(AllLoads) + 1
    /\ pc > 9 => Len(loads) = Len(AllLoads)
    /\ pc > 0 => \A k \in 1..Len(loads) :
         loads[k] = [bin    |-> AllLoads[k][1],
                     offset |-> FreeAt(k) + (AllLoads[k][2].vaddr % Page),
                     vaddr  |-> AllLoads[k][2].vaddr + offsets[AllLoads[k][1]],
                     filesz |-> AllLoads[k][2].filesz,
                     memsz  |-> AllLoads[k][2].memsz]
    /\ pc > 9 => /\ tls_file_offset = FileFree
                 /\ ehframe_file_offset = AlignNext(tls_file_offset + TLSFileSize, Page)
                 /\ mprotect_file_offset = AlignNext(ehframe_file_offset + EHFrameSize, Page)

\* The table of the new .eh_frame_hdr has the entries of the binaries before pos.
FDECount == [b \in Bins |-> Len(bin[b].fdes)]

Merging ==
    /\ pc \in 1..9 => eh_table = <<>>
    /\ pc = 10 => pos <= NBins + 1 /\ UpTo(FDECount, pos - 1, Len(eh_table))
    /\ pc > 10 => EHFrameSize = 12 + 8 * Len(eh_table)

\* The section headers and the ELF header say what the registered sections say.
LinkedShdrs == [k \in DOMAIN Registered |->
                  [Registered[k] EXCEPT !.link = GetIndex(LinkedTo(Registered[k].type))]]

Registering ==
    /\ pc > 11 => shdrs = LinkedShdrs
    /\ pc > 12 => ehdr = [shoff |-> ShdrOffset, shnum |-> Len(shdrs), shstrndx |-> Len(shdrs) - 1]

\* Every item that Emit has written is one of Items, at its place.
Emitting ==
    /\ pc \in 1..12 => file = <<>>
    /\ pc = 13 => Len(file) = pos - 1
    /\ pc = 14 => Len(file) = Len(Items)
    /\ pc \in 13..14 /\ file # <<>> => Len(file) <= Len(Items)
    /\ pc \in 13..14 => \A k \in 1..Len(file) :
         file[k] = [what |-> Items[k].what, at |-> Items[k].at, size |-> Items[k].size]
    /\ pc = 13 /\ file # <<>> => fpos = file[Len(file)].at + file[Len(file)].size

LayoutInv == /\ Typed /\ Moving /\ Collecting /\ Gathering
             /\ DynamicBuilt /\ Loading /\ Merging /\ Registering /\ Emitting

-----------------------------------------------------------------------------
(***************************************************************************)
(* What a step changes.                                                    *)
(***************************************************************************)
LEMMA CallNumbers ==
    ASSUME pc \in 0..14
    PROVE  /\ At("DecideMemOffset") <=> pc = 1
           /\ At("CollectTLS") <=> pc = 2
           /\ At("CollectArrays") <=> pc = 3
           /\ At("Relocate") <=> pc = 4
           /\ At("BuildSymtab") <=> pc = 5
           /\ At("BuildInterp") <=> pc = 6
           /\ At("BuildArrays") <=> pc = 7
           /\ At("BuildDynamic") <=> pc = 8
           /\ At("BuildLoads") <=> pc = 9
           /\ At("BuildEHFrameHeader") <=> pc = 10
           /\ At("RegisterShdrs") <=> pc = 11
           /\ At("BuildEhdr") <=> pc = 12
           /\ At("Emit") <=> pc = 13
           /\ Done <=> pc = 14
  <1>1. /\ Calls[1] = "DecideMemOffset" /\ Calls[2] = "CollectTLS" /\ Calls[3] = "CollectArrays"
        /\ Calls[4] = "Relocate" /\ Calls[5] = "BuildSymtab" /\ Calls[6] = "BuildInterp"
        /\ Calls[7] = "BuildArrays" /\ Calls[8] = "BuildDynamic" /\ Calls[9] = "BuildLoads"
        /\ Calls[10] = "BuildEHFrameHeader" /\ Calls[11] = "RegisterShdrs"
        /\ Calls[12] = "BuildEhdr" /\ Calls[13] = "Emit" /\ Calls[14] = "done"
    BY DEF Calls
  <1>2. pc \in {0, 1, 2, 3, 4, 5, 6, 7, 8, 9, 10, 11, 12, 13, 14}
    OBVIOUS
  <1> QED BY <1>1, <1>2 DEF At, Done

\* Each variable changes in the calls that assign it, and a step stays in its
\* call, returns from it or aborts.
LEMMA Frame ==
    ASSUME Counters, Next
    PROVE  /\ pc \in 1..13 /\ pc' \in {0, pc, pc + 1} /\ pos' \in Nat \ {0}
           /\ phdr' = phdr /\ bin' = bin
           /\ pc # 1 => mem' = mem
           /\ pc # 2 => tls_' = tls_
           /\ pc # 3 => arrays' = arrays
           /\ pc \notin {4, 7} => rels' = rels
           /\ pc # 5 => nsyms' = nsyms /\ nverneed' = nverneed /\ nvernaux' = nvernaux
           /\ pc \notin {5, 6, 8} => strtab' = strtab
           /\ pc # 8 => dynamic' = dynamic
           /\ pc # 9 => filed' = filed
           /\ pc # 10 => eh_table' = eh_table
           /\ pc # 11 => shdrs' = shdrs
           /\ pc # 12 => ehdr' = ehdr
           /\ pc # 13 => out' = out
  <1>0. pc \in 0..14 /\ pos \in Nat \ {0}
    BY DEF Counters
  <1>a. /\ Return => pc' = pc + 1 /\ pos' \in Nat \ {0}
        /\ Abort => pc' = 0 /\ pos' \in Nat \ {0}
        /\ Proceed => pc' = pc /\ pos' \in Nat \ {0}
    BY <1>0 DEF Return, Abort, Proceed
  <1>1. CASE DecideMemOffset
    BY <1>0, <1>a, <1>1, CallNumbers DEF DecideMemOffset, tls_, arrays, sizes, filed, out
  <1>2. CASE CollectTLS
    BY <1>0, <1>a, <1>2, CallNumbers DEF CollectTLS, mem, arrays, sizes, filed, out
  <1>3. CASE CollectArrays
    BY <1>0, <1>a, <1>3, CallNumbers DEF CollectArrays, mem, tls_, sizes, filed, out
  <1>4. CASE Relocate
    BY <1>0, <1>a, <1>4, CallNumbers DEF Relocate, mem, tls_, arrays, sizes, filed, out
  <1>5. CASE BuildSymtab
    BY <1>0, <1>a, <1>5, CallNumbers DEF BuildSymtab, mem, tls_, arrays, filed, out
  <1>6. CASE BuildInterp
    BY <1>0, <1>a, <1>6, CallNumbers DEF BuildInterp, mem, tls_, arrays, filed, out
  <1>7. CASE BuildArrays
    BY <1>0, <1>a, <1>7, CallNumbers DEF BuildArrays, mem, tls_, arrays, sizes, filed, out
  <1>8. CASE BuildDynamic
    BY <1>0, <1>a, <1>8, CallNumbers DEF BuildDynamic, mem, tls_, arrays, filed, out
  <1>9. CASE BuildLoads
    BY <1>0, <1>a, <1>9, CallNumbers DEF BuildLoads, mem, tls_, arrays, sizes, out
  <1>10. CASE BuildEHFrameHeader
    BY <1>0, <1>a, <1>10, CallNumbers DEF BuildEHFrameHeader, mem, tls_, arrays, sizes, filed, out
  <1>11. CASE RegisterShdrs
    BY <1>0, <1>a, <1>11, CallNumbers DEF RegisterShdrs, mem, tls_, arrays, sizes, filed, out
  <1>12. CASE BuildEhdr
    BY <1>0, <1>a, <1>12, CallNumbers DEF BuildEhdr, mem, tls_, arrays, sizes, filed, out
  <1>13. CASE Emit
    BY <1>0, <1>a, <1>13, CallNumbers DEF Emit, mem, tls_, arrays, sizes, filed
  <1> QED
    BY <1>1, <1>2, <1>3, <1>4, <1>5, <1>6, <1>7, <1>8, <1>9, <1>10, <1>11, <1>12, <1>13 DEF Next

\* The call that runs.
LEMMA CallOf ==
    ASSUME Counters, Next
    PROVE  /\ pc = 1 => DecideMemOffset
           /\ pc = 2 => CollectTLS
           /\ pc = 3 => CollectArrays
           /\ pc = 4 => Relocate
           /\ pc = 5 => BuildSymtab
           /\ pc = 6 => BuildInterp
           /\ pc = 7 => BuildArrays
           /\ pc = 8 => BuildDynamic
           /\ pc = 9 => BuildLoads
           /\ pc = 10 => BuildEHFrameHeader
           /\ pc = 11 => RegisterShdrs
           /\ pc = 12 => BuildEhdr
           /\ pc = 13 => Emit
  <1>1. pc \in 0..14
    BY DEF Counters
  <1>2. /\ DecideMemOffset => At("DecideMemOffset")
        /\ CollectTLS => At("CollectTLS")
        /\ CollectArrays => At("CollectArrays")
        /\ Relocate => At("Relocate")
        /\ BuildSymtab => At("BuildSymtab")
        /\ BuildInterp => At("BuildInterp")
        /\ BuildArrays => At("BuildArrays")
        /\ BuildDynamic => At("BuildDynamic")
        /\ BuildLoads => At("BuildLoads")
        /\ BuildEHFrameHeader => At("BuildEHFrameHeader")
        /\ RegisterShdrs => At("RegisterShdrs")
        /\ BuildEhdr => At("BuildEhdr")
        /\ Emit => At("Emit")
    BY DEF DecideMemOffset, CollectTLS, CollectArrays, Relocate, BuildSymtab, BuildInterp, BuildArrays,
           BuildDynamic, BuildLoads, BuildEHFrameHeader, RegisterShdrs, BuildEhdr, Emit
  <1> QED BY <1>1, <1>2, CallNumbers DEF Next

-----------------------------------------------------------------------------
(***************************************************************************)
(* What the operators of the layout return.                                *)
(***************************************************************************)
Extent  == [vaddr : Nat, filesz : Nat, memsz : Nat]
RunOf   == [addr : Nat, n : Nat]

\* The places the relocations of a binary are for, and those of all binaries.
Ats(b) == [i \in 1..Len(RelsOfBin(b)) |-> RelsOfBin(b)[i].at]
Sites  == Joined([b \in Bins |-> Ats(b)])

LEMMA BinTyped ==
    ASSUME Inputs, NEW b \in Bins
    PROVE  /\ bin[b].loads \in Seq(Extent) /\ bin[b].tls \in Extent
           /\ bin[b].tls.filesz <= bin[b].tls.memsz
           /\ bin[b].init \in RunOf /\ bin[b].fini \in RunOf
           /\ RelsOfBin(b) \in Seq(Reloc) /\ Ats(b) \in Seq(Nat) /\ Len(Ats(b)) = Len(RelsOfBin(b))
           /\ bin[b].fdes \in Seq(Nat) /\ bin[b].relro \in 0..1
           /\ phdr[b].filesz = bin[b].tls.filesz /\ phdr[b].memsz = bin[b].tls.memsz
           /\ phdr[b].filesz \in Nat /\ phdr[b].memsz \in Nat
  <1>1. bin[b] \in Binary /\ bin[b].tls.filesz <= bin[b].tls.memsz
    BY LayoutAssumption DEF Inputs
  <1>2. /\ bin[b].loads \in Seq(Extent) /\ bin[b].tls \in Extent
        /\ bin[b].init \in RunOf /\ bin[b].fini \in RunOf
        /\ bin[b].fdes \in Seq(Nat) /\ bin[b].relro \in 0..1
        /\ bin[b].rel \in Seq(Reloc) /\ bin[b].plt_rel \in Seq(Reloc)
    BY <1>1 DEF Binary, Extent, RunOf
  <1>3. phdr[b].filesz = bin[b].tls.filesz /\ phdr[b].memsz = bin[b].tls.memsz
    BY DEF Inputs
  <1>4. RelsOfBin(b) \in Seq(Reloc)
    BY <1>2, ConcatProperties DEF RelsOfBin
  <1>5. Ats(b) \in Seq(Nat) /\ Len(Ats(b)) = Len(RelsOfBin(b))
    <2>1. Len(RelsOfBin(b)) \in Nat
      BY <1>4, LenProperties
    <2>2. \A i \in 1..Len(RelsOfBin(b)) : RelsOfBin(b)[i] \in Reloc
      BY <1>4, ElementOfSeq
    <2>3. \A i \in 1..Len(RelsOfBin(b)) : RelsOfBin(b)[i].at \in Nat
      BY <2>2 DEF Reloc
    <2> QED BY <2>1, <2>3 DEF Ats
  <1> QED BY <1>1, <1>2, <1>3, <1>4, <1>5 DEF Extent

LEMMA PageAlign ==
    ASSUME NEW a \in Nat
    PROVE  /\ AlignNext(a, Page) \in Nat /\ a <= AlignNext(a, Page)
           /\ AlignNext(a, Page) < a + Page /\ AlignNext(a, Page) % Page = 0
  BY DEF AlignNext, Page

LEMMA WordAlign ==
    ASSUME NEW a \in Nat
    PROVE  AlignNext(a, 8) \in Nat /\ a <= AlignNext(a, 8)
  BY DEF AlignNext

LEMMA SumNat ==
    ASSUME NEW v \in [Bins -> Nat]
    PROVE  SumBins(v) \in Nat
  <1>0. NBins \in Nat /\ v \in [1..NBins -> Int] /\ v \in [Bins -> Int] /\ 0 \in 0..NBins /\ NBins \in 0..NBins
    BY NBinsAssumption DEF Bins
  <1>1. PICK s : RunningSum(NBins, s, v)
    BY <1>0, RunningSumExists
  <1>2. \A b \in (0 + 1)..NBins : v[b] >= 0
    BY <1>0 DEF Bins
  <1>3. s[0] <= s[NBins]
    BY <1>0, <1>1, <1>2, RunningSumGrows
  <1>4. SumBins(v) = s[NBins] /\ s[0] = 0 /\ s[NBins] \in Int
    BY <1>0, <1>1, SumsUp DEF RunningSum
  <1> QED BY <1>3, <1>4

\* The sums the layout uses.
LEMMA SumsTyped ==
    ASSUME Inputs
    PROVE  /\ TLSMemSize \in Nat /\ TLSFileSize \in Nat /\ CountPhdrs \in Nat
           /\ EHFrameSize \in Nat /\ MprotectSize \in Nat
           /\ FDECount \in [Bins -> Nat]
           /\ [b \in Bins |-> Len(bin[b].loads)] \in [Bins -> Nat]
           /\ [b \in Bins |-> phdr[b].memsz] \in [Bins -> Nat]
           /\ [b \in Bins |-> phdr[b].filesz] \in [Bins -> Nat]
  <1>1. /\ [b \in Bins |-> phdr[b].memsz] \in [Bins -> Nat]
        /\ [b \in Bins |-> phdr[b].filesz] \in [Bins -> Nat]
        /\ [b \in Bins |-> Len(bin[b].loads)] \in [Bins -> Nat]
        /\ FDECount \in [Bins -> Nat]
        /\ [b \in Bins |-> bin[b].relro] \in [Bins -> Nat]
    <2>1. \A b \in Bins : /\ phdr[b].memsz \in Nat /\ phdr[b].filesz \in Nat
                          /\ Len(bin[b].loads) \in Nat /\ Len(bin[b].fdes) \in Nat
                          /\ bin[b].relro \in Nat
      BY BinTyped, LenProperties
    <2> QED BY <2>1 DEF FDECount
  <1>2. /\ SumBins([b \in Bins |-> phdr[b].memsz]) \in Nat
        /\ SumBins([b \in Bins |-> phdr[b].filesz]) \in Nat
        /\ SumBins([b \in Bins |-> Len(bin[b].loads)]) \in Nat
        /\ SumBins([b \in Bins |-> Len(bin[b].fdes)]) \in Nat
        /\ SumBins([b \in Bins |-> bin[b].relro]) \in Nat
    BY <1>1, SumNat DEF FDECount
  <1> QED
    BY <1>1, <1>2, SMTT(40) DEF TLSMemSize, TLSFileSize, CountPhdrs, EHFrameSize, MprotectSize

\* The head of the file: every offset is a number.
LEMMA HeadTyped ==
    ASSUME Typed
    PROVE  /\ InitArrayOffset \in Nat /\ InitArraySize \in Nat
           /\ FiniArrayOffset \in Nat /\ FiniArraySize \in Nat
           /\ GnuHashOffset \in Nat /\ GnuHashSize \in Nat
           /\ SymtabOffset \in Nat /\ SymtabSize \in Nat
           /\ VersymOffset \in Nat /\ VersymSize \in Nat
           /\ VerneedOffset \in Nat /\ VerneedSize \in Nat
           /\ RelOffset \in Nat /\ RelSize \in Nat
           /\ StrtabOffset \in Nat /\ DynamicOffset \in Nat /\ DynamicSize \in Nat
           /\ ShstrtabOffset \in Nat /\ ShstrtabSize \in Nat /\ CodeOffset \in Nat
           /\ EHFrameOffset \in Nat /\ ShdrOffset \in Nat
  <1>0. /\ Len(init_array) \in Nat /\ Len(fini_array) \in Nat /\ Len(rels) \in Nat /\ Len(dynamic) \in Nat
        /\ nsyms \in Nat /\ nverneed \in Nat /\ nvernaux \in Nat /\ strtab \in Nat
        /\ tls_file_offset \in Nat /\ mprotect_file_offset \in Nat
        /\ CountPhdrs \in Nat /\ TLSFileSize \in Nat /\ MprotectSize \in Nat
    BY LenProperties, SumsTyped DEF Typed, Tables, Counters
  <1>1. InitArrayOffset \in Nat /\ InitArraySize \in Nat /\ FiniArraySize \in Nat /\ GnuHashSize \in Nat
        /\ SymtabSize \in Nat /\ VersymSize \in Nat /\ VerneedSize \in Nat /\ RelSize \in Nat
        /\ DynamicSize \in Nat /\ ShstrtabSize \in Nat
    <2>1. 64 + 56 * CountPhdrs \in Nat
      BY <1>0
    <2>2. InitArrayOffset \in Nat
      BY <2>1, WordAlign DEF InitArrayOffset
    <2> QED
      BY <1>0, <2>2 DEF InitArraySize, FiniArraySize, GnuHashSize, SymtabSize, VersymSize, VerneedSize,
                        RelSize, DynamicSize, ShstrtabSize
  <1>2. FiniArrayOffset \in Nat /\ GnuHashOffset \in Nat /\ SymtabOffset \in Nat
    BY <1>1 DEF FiniArrayOffset, GnuHashOffset, SymtabOffset
  <1>3. VersymOffset \in Nat /\ VerneedOffset \in Nat /\ RelOffset \in Nat
    BY <1>1, <1>2 DEF VersymOffset, VerneedOffset, RelOffset
  <1>4. StrtabOffset \in Nat /\ DynamicOffset \in Nat /\ ShstrtabOffset \in Nat
    BY <1>0, <1>1, <1>3 DEF StrtabOffset, DynamicOffset, ShstrtabOffset
  <1>5. CodeOffset \in Nat /\ EHFrameOffset \in Nat /\ ShdrOffset \in Nat
    <2>1. ShstrtabOffset + ShstrtabSize \in Nat /\ tls_file_offset + TLSFileSize \in Nat
      BY <1>0, <1>1, <1>4
    <2>2. CodeOffset \in Nat /\ EHFrameOffset \in Nat
      BY <2>1, PageAlign DEF CodeOffset, EHFrameOffset
    <2> QED BY <1>0, <2>2 DEF ShdrOffset
  <1> QED BY <1>1, <1>2, <1>3, <1>4, <1>5

\* The segments and the relocations of all binaries.
LEMMA AllTyped ==
    ASSUME Inputs
    PROVE  Sites \in Seq(Bins \X Nat) /\ AllLoads \in Seq(Bins \X Extent)
  <1>1. ASSUME NEW V, NEW items \in [Bins -> Seq(V)] PROVE Joined(items) \in Seq(Bins \X V)
    <2>1. PICK j : RunningJoin(j, items, V)
      BY <1>1, RunningJoinExists
    <2>2. Joined(items) = j[NBins]
      BY <1>1, <2>1, JoinedUp
    <2> QED BY <2>1, <2>2, NBinsAssumption DEF RunningJoin
  <1>2. [b \in Bins |-> Ats(b)] \in [Bins -> Seq(Nat)]
    BY BinTyped
  <1>3. [b \in Bins |-> bin[b].loads] \in [Bins -> Seq(Extent)]
    BY BinTyped
  <1> QED BY <1>1, <1>2, <1>3 DEF Sites, AllLoads

\* The places are those of the relocations, in the same order.
LEMMA SitesOfRels ==
    ASSUME Inputs
    PROVE  /\ Len(Sites) = Len(AllRels) /\ Len(AllRels) \in Nat
           /\ \A k \in 1..Len(AllRels) : /\ AllRels[k] \in Bins \X Reloc
                                         /\ AllRels[k][2] \in Range(RelsOfBin(AllRels[k][1]))
                                         /\ Sites[k] = <<AllRels[k][1], AllRels[k][2].at>>
  <1> DEFINE items == [b \in Bins |-> RelsOfBin(b)]
             ats   == [b \in Bins |-> Ats(b)]
             n     == [b \in Bins |-> Len(items[b])]
  <1>1. /\ items \in [Bins -> Seq(Reloc)] /\ ats \in [Bins -> Seq(Nat)]
        /\ \A b \in Bins : Len(ats[b]) = Len(items[b]) /\ Len(items[b]) \in Nat
        /\ \A b \in Bins : items[b] = RelsOfBin(b)
    <2>1. \A b \in Bins : /\ RelsOfBin(b) \in Seq(Reloc) /\ Ats(b) \in Seq(Nat)
                          /\ Len(Ats(b)) = Len(RelsOfBin(b))
      BY BinTyped
    <2>2. \A b \in Bins : Len(RelsOfBin(b)) \in Nat
      BY <2>1, LenProperties
    <2> QED BY <2>1, <2>2
  <1>2. \A b \in Bins : \A i \in 1..Len(items[b]) : ats[b][i] = items[b][i].at
    BY DEF Ats
  <1>3. n \in [1..NBins -> Int] /\ NBins \in Nat
    BY <1>1, NBinsAssumption DEF Bins
  <1>4. [b \in Bins |-> Len(ats[b])] = n
    BY <1>1
  <1>5. AllRels = Joined(items) /\ Sites = Joined(ats)
    BY DEF AllRels, Sites
  <1> HIDE DEF items, ats
  <1>6. PICK s : RunningSum(NBins, s, n)
    BY <1>3, RunningSumExists
  <1>7. /\ AllRels \in Seq(Bins \X Reloc) /\ Len(AllRels) = s[NBins] /\ JoinedAt(items, s)
    BY <1>1, <1>5, <1>6, JoinedPlaces
  <1>8. /\ Len(Sites) = s[NBins] /\ JoinedAt(ats, s)
    BY <1>1, <1>4, <1>5, <1>6, JoinedPlaces
  <1>9. Len(AllRels) \in Nat
    BY <1>7, LenProperties
  <1>10. ASSUME NEW k \in 1..Len(AllRels)
         PROVE  /\ AllRels[k] \in Bins \X Reloc
                /\ AllRels[k][2] \in Range(RelsOfBin(AllRels[k][1]))
                /\ Sites[k] = <<AllRels[k][1], AllRels[k][2].at>>
    <2>1. PICK b \in Bins : \E i \in 1..Len(items[b]) : k = s[b - 1] + i
      BY <1>5, <1>7 DEF JoinedAt
    <2>2. PICK i \in 1..Len(items[b]) : k = s[b - 1] + i
      BY <2>1
    <2>3. AllRels[k] = <<b, items[b][i]>>
      BY <1>5, <1>7, <2>2 DEF JoinedAt
    <2>4. Sites[k] = <<b, ats[b][i]>>
      BY <1>1, <1>5, <1>8, <2>2 DEF JoinedAt
    <2>5. items[b] \in Seq(Reloc) /\ items[b] = RelsOfBin(b)
      BY <1>1
    <2>6. items[b][i] \in Range(RelsOfBin(b))
      BY <2>5, LenProperties DEF Range
    <2>7. AllRels[k] \in Bins \X Reloc
      BY <1>7, ElementOfSeq
    <2> QED BY <1>2, <2>3, <2>4, <2>6, <2>7
  <1> QED BY <1>7, <1>8, <1>9, <1>10

\* The end of a binary that has segments.
LEMMA RangeEndTyped ==
    ASSUME Inputs, NEW b \in Bins, bin[b].loads # <<>>
    PROVE  RangeEnd(b) \in Ends(b) /\ RangeEnd(b) \in Nat /\ \A f \in Ends(b) : f <= RangeEnd(b)
  <1> DEFINE L == Len(bin[b].loads)
             e(k) == AlignNext(bin[b].loads[k].vaddr + bin[b].loads[k].memsz, Page)
             T == {n \in 0..L : n > 0 => \E k \in 1..n : \A i \in 1..n : e(i) <= e(k)}
  <1>1. L \in Nat \ {0} /\ DOMAIN bin[b].loads = 1..L /\ \A k \in 1..L : bin[b].loads[k] \in Extent
    BY BinTyped, EmptySeq, LenProperties, ElementOfSeq
  <1>2. \A k \in 1..L : e(k) \in Nat
    <2>1. \A k \in 1..L : bin[b].loads[k].vaddr + bin[b].loads[k].memsz \in Nat
      BY <1>1 DEF Extent
    <2> HIDE DEF L
    <2> QED BY <2>1, PageAlign
  <1>3. Ends(b) = {e(k) : k \in 1..L}
    BY <1>1 DEF Ends, Range
  <1> HIDE DEF e, L
  <1>4. 0 \in T
    BY <1>1
  <1>5. \A m \in 0..L : m \in T /\ m < L => m + 1 \in T
    <2>1. SUFFICES ASSUME NEW m \in 0..L, m > 0 => \E k \in 1..m : \A i \in 1..m : e(i) <= e(k), m < L
                   PROVE  \E k \in 1..(m + 1) : \A i \in 1..(m + 1) : e(i) <= e(k)
      <3>1. \A m \in 0..L : m < L => m + 1 \in 0..L
        BY <1>1
      <3> QED BY <3>1
    <2>2. m + 1 \in 1..L /\ e(m + 1) \in Nat /\ \A i \in 1..(m + 1) : i = m + 1 \/ i \in 1..m
      BY <1>1, <1>2, <2>1
    <2>3. CASE m = 0
      BY <2>2, <2>3
    <2>4. CASE m > 0
      <3>1. PICK k \in 1..m : \A i \in 1..m : e(i) <= e(k)
        BY <2>1, <2>4
      <3>2. k \in 1..L /\ e(k) \in Nat /\ \A i \in 1..m : e(i) \in Nat
        BY <1>1, <1>2
      <3>3. CASE e(k) <= e(m + 1)
        <4>1. \A i \in 1..(m + 1) : e(i) <= e(m + 1)
          BY <2>2, <3>1, <3>2, <3>3
        <4> QED BY <2>2, <4>1
      <3>4. CASE ~(e(k) <= e(m + 1))
        <4>1. \A i \in 1..(m + 1) : e(i) <= e(k)
          BY <2>2, <3>1, <3>2, <3>4
        <4> QED BY <2>1, <4>1
      <3> QED BY <3>3, <3>4
    <2> QED BY <2>1, <2>3, <2>4
  <1> HIDE DEF T
  <1>6. 0..L \subseteq T
    BY <1>1, <1>4, <1>5, IntervalInduction
  <1>7. PICK k \in 1..L : \A i \in 1..L : e(i) <= e(k)
    <2>1. L \in 0..L /\ L > 0
      BY <1>1
    <2>2. L \in T
      BY <1>6, <2>1
    <2> QED BY <2>1, <2>2 DEF T
  <1>8. \E x \in Ends(b) : \A f \in Ends(b) : f <= x
    BY <1>3, <1>7
  <1> QED BY <1>2, <1>3, <1>8 DEF RangeEnd

-----------------------------------------------------------------------------
(***************************************************************************)
(* Types are kept.                                                         *)
(***************************************************************************)
LEMMA FreeFromTyped ==
    ASSUME Typed, NEW b \in 0..NBins, b > 0 => b \in 1..Len(offsets) /\ Movable(b)
    PROVE  FreeFrom(b) \in Nat
  <1>1. CASE b = 0
    BY <1>1 DEF FreeFrom
  <1>2. CASE b # 0
    <2>1. b \in Bins /\ b \in 1..Len(offsets) /\ bin[b].loads # <<>>
      BY <1>2, NBinsAssumption DEF Bins, Movable
    <2>2. offsets[b] \in Nat /\ RangeEnd(b) \in Nat
      BY <2>1, RangeEndTyped, ElementOfSeq DEF Typed, Tables
    <2> QED BY <1>2, <2>2 DEF FreeFrom
  <1> QED BY <1>1, <1>2

LEMMA DecideMemOffsetTyped ==
    ASSUME Typed, Moving, pc = 1, DecideMemOffset
    PROVE  /\ offsets' \in Seq(Nat) /\ tls_offset' \in Nat /\ ehframe_offset' \in Nat
           /\ mprotect_offset' \in Nat
  <1>1. /\ pos \in Nat \ {0} /\ pos <= NBins + 1 /\ Len(offsets) = pos - 1 /\ NBins \in Nat
        /\ pos - 1 \in 0..NBins /\ NBins \in 0..NBins
        /\ \A b \in Bins : b < pos => Movable(b)
    BY NBinsAssumption DEF Typed, Counters, Moving
  <1>2. \A b \in 0..NBins : b < pos => FreeFrom(b) \in Nat
    <2>1. SUFFICES ASSUME NEW b \in 0..NBins, b < pos, b > 0
                   PROVE  b \in 1..Len(offsets) /\ Movable(b)
      BY FreeFromTyped
    <2>2. b \in Bins
      BY <2>1 DEF Bins
    <2> QED BY <1>1, <2>1, <2>2
  <1>3. CASE pos <= NBins
    <2>1. FreeFrom(pos - 1) \in Nat
      BY <1>1, <1>2
    <2>2. offsets' = Append(offsets, FreeFrom(pos - 1))
          /\ UNCHANGED <<tls_offset, ehframe_offset, mprotect_offset>>
      BY <1>3 DEF DecideMemOffset
    <2> QED BY <2>1, <2>2, AppendProperties DEF Typed, Tables, Counters
  <1>4. CASE ~(pos <= NBins)
    <2>1. FreeFrom(NBins) \in Nat
      BY <1>1, <1>2, <1>4
    <2>2. /\ tls_offset' = FreeFrom(NBins) /\ offsets' = offsets
          /\ ehframe_offset' = AlignNext(tls_offset' + TLSMemSize, Page)
          /\ mprotect_offset' = AlignNext(ehframe_offset' + EHFrameSize, Page)
      BY <1>4 DEF DecideMemOffset
    <2>3. TLSMemSize \in Nat /\ EHFrameSize \in Nat
      BY SumsTyped DEF Typed
    <2>4. tls_offset' + TLSMemSize \in Nat
      BY <2>1, <2>2, <2>3
    <2>5. ehframe_offset' \in Nat /\ ehframe_offset' + EHFrameSize \in Nat
      BY <2>2, <2>3, <2>4, PageAlign
    <2> QED BY <2>1, <2>2, <2>5, PageAlign DEF Typed, Tables
  <1> QED BY <1>3, <1>4

\* CollectTLS, and what its entries become.
LEMMA CollectTLSTyped ==
    ASSUME Typed, Collecting, pc = 2, CollectTLS
    PROVE  /\ filesz' \in Nat /\ memsz' \in Nat /\ bss_offset' \in Nat /\ data' \in Seq(TLSEntry)
           /\ \A k \in DOMAIN data : k \in DOMAIN data' /\ data'[k].bin = data[k].bin
           /\ pos \in Bins /\ HasTLS(pos) => \E k \in DOMAIN data' : data'[k].bin = pos
  <1>0. /\ filesz \in Nat /\ memsz \in Nat /\ bss_offset \in Nat /\ data \in Seq(TLSEntry)
        /\ DOMAIN data = 1..Len(data) /\ Len(data) \in Nat
        /\ pos \in Nat \ {0} /\ NBins \in Nat
    BY LenProperties, NBinsAssumption DEF Typed, Counters, Tables
  <1>1. CASE pos <= NBins
    <2>1. pos \in Bins
      BY <1>0, <1>1 DEF Bins
    <2>2. phdr[pos].filesz \in Nat /\ phdr[pos].memsz \in Nat /\ phdr[pos].filesz <= phdr[pos].memsz
      BY <2>1, BinTyped DEF Typed
    <2>3. CollectTLSOf(pos)
      BY <1>1 DEF CollectTLS
    <2>4. CASE HasTLS(pos)
      <3>1. /\ data' = Append(data, Collected(pos))
            /\ memsz' = memsz + phdr[pos].memsz /\ filesz' = filesz + phdr[pos].filesz
            /\ bss_offset' = bss_offset + BssSize(pos)
        BY <2>3, <2>4 DEF CollectTLSOf
      <3>2. Collected(pos) \in TLSEntry /\ Collected(pos).bin = pos
        BY <1>0, <2>1, <2>2 DEF Collected, TLSEntry
      <3>3. BssSize(pos) \in Nat
        BY <2>2 DEF BssSize
      <3>4. /\ data' \in Seq(TLSEntry) /\ Len(data') = Len(data) + 1
            /\ \A k \in 1..Len(data) : data'[k] = data[k]
            /\ data'[Len(data) + 1] = Collected(pos)
        BY <1>0, <3>1, <3>2, AppendProperties
      <3>5. DOMAIN data' = 1..(Len(data) + 1)
        BY <3>4, LenProperties
      <3>6. /\ \A k \in DOMAIN data : k \in DOMAIN data' /\ data'[k] = data[k]
            /\ Len(data) + 1 \in DOMAIN data'
        BY <1>0, <3>4, <3>5
      <3>7. filesz' \in Nat /\ memsz' \in Nat /\ bss_offset' \in Nat
        <4>1. \A x, y \in Nat : x + y \in Nat
          OBVIOUS
        <4>2. /\ filesz \in Nat /\ memsz \in Nat /\ bss_offset \in Nat
              /\ phdr[pos].filesz \in Nat /\ phdr[pos].memsz \in Nat
          BY <1>0, <2>2
        <4>3. /\ memsz' = memsz + phdr[pos].memsz /\ filesz' = filesz + phdr[pos].filesz
              /\ bss_offset' = bss_offset + BssSize(pos)
          BY <3>1
        <4> QED BY <3>3, <4>1, <4>2, <4>3
      <3>8. data'[Len(data) + 1].bin = pos
        BY <3>2, <3>4
      <3> HIDE DEF HasTLS
      <3> QED BY <3>4, <3>6, <3>7, <3>8
    <2>5. CASE ~HasTLS(pos)
      BY <1>0, <2>3, <2>5 DEF CollectTLSOf, tls_
    <2> QED BY <2>4, <2>5
  <1>2. CASE ~(pos <= NBins)
    <2>0. pos \notin Bins
      BY <1>2 DEF Bins
    <2>1. CASE UNCHANGED tls_
      BY <1>0, <2>0, <2>1 DEF tls_
    <2>2. CASE FinishTLS
      <3>1. /\ data' = [k \in DOMAIN data |-> [data[k] EXCEPT !.bss_offset = @ + filesz]]
            /\ UNCHANGED <<filesz, memsz, bss_offset>>
        BY <2>2 DEF FinishTLS
      <3>2. \A k \in 1..Len(data) : data[k] \in TLSEntry
        BY <1>0, ElementOfSeq
      <3>3. \A k \in 1..Len(data) : /\ [data[k] EXCEPT !.bss_offset = @ + filesz] \in TLSEntry
                                    /\ [data[k] EXCEPT !.bss_offset = @ + filesz].bin = data[k].bin
        <4>1. SUFFICES ASSUME NEW k \in 1..Len(data)
                       PROVE  /\ [data[k] EXCEPT !.bss_offset = @ + filesz] \in TLSEntry
                              /\ [data[k] EXCEPT !.bss_offset = @ + filesz].bin = data[k].bin
          OBVIOUS
        <4>2. data[k] \in TLSEntry /\ data[k].bss_offset + filesz \in Nat
          BY <1>0, <3>2 DEF TLSEntry
        <4> QED BY <4>2 DEF TLSEntry
      <3>4. data' \in Seq(TLSEntry)
        BY <1>0, <3>1, <3>3
      <3> QED BY <1>0, <2>0, <3>1, <3>3, <3>4
    <2> QED BY <1>2, <2>1, <2>2 DEF CollectTLS
  <1> QED BY <1>1, <1>2

\* An array of the output and a map to its offsets.
LEMMA SlotsTyped ==
    ASSUME NEW b \in Bins, NEW n \in Nat, NEW a \in Seq(Slot)
    PROVE  a \o Slots(b, n) \in Seq(Slot)
  <1>1. \A k \in 1..n : <<b, k>> \in Slot
    BY DEF Slot
  <1>2. Slots(b, n) \in Seq(Slot)
    BY <1>1 DEF Slots
  <1> QED BY <1>2, ConcatProperties

LEMMA PutTyped ==
    ASSUME NEW m, DOMAIN m \subseteq Bins, m \in [DOMAIN m -> Nat], NEW b \in Bins, NEW x \in Nat
    PROVE  /\ DOMAIN Put(m, b, x) = DOMAIN m \cup {b}
           /\ Put(m, b, x) \in [DOMAIN m \cup {b} -> Nat]
  BY DEF Put

LEMMA CollectArraysTyped ==
    ASSUME Typed, Gathering, pc = 3, CollectArrays
    PROVE  /\ init_array' \in Seq(Slot) /\ fini_array' \in Seq(Slot)
           /\ DOMAIN bin_to_init' \subseteq Bins /\ bin_to_init' \in [DOMAIN bin_to_init' -> Nat]
           /\ DOMAIN bin_to_fini' \subseteq Bins /\ bin_to_fini' \in [DOMAIN bin_to_fini' -> Nat]
           /\ DOMAIN bin_to_init' = DOMAIN bin_to_init \cup (IF pos \in 2..(NBins + 1) THEN {NBins + 2 - pos} ELSE {})
           /\ DOMAIN bin_to_fini' = DOMAIN bin_to_fini \cup (IF pos > NBins + 1 THEN {pos - NBins - 1} \ ExcludedFini ELSE {})
  <1>0. /\ init_array \in Seq(Slot) /\ fini_array \in Seq(Slot)
        /\ DOMAIN bin_to_init \subseteq Bins /\ bin_to_init \in [DOMAIN bin_to_init -> Nat]
        /\ DOMAIN bin_to_fini \subseteq Bins /\ bin_to_fini \in [DOMAIN bin_to_fini -> Nat]
        /\ pos \in Nat \ {0} /\ NBins \in Nat \ {0} /\ pos <= 2 * NBins + 1
    BY NBinsAssumption DEF Typed, Counters, Tables, Gathering
  <1>1. CASE pos = 1
    <2>1. init_array' = <<<<0, 0>>>> /\ UNCHANGED <<fini_array, bin_to_init, bin_to_fini>>
      BY <1>1 DEF CollectArrays
    <2>2. <<<<0, 0>>>> \in Seq(Slot)
      BY DEF Slot
    <2>3. pos \notin 2..(NBins + 1) /\ ~(pos > NBins + 1)
      BY <1>0, <1>1
    <2> QED BY <1>0, <2>1, <2>2, <2>3
  <1>2. CASE pos # 1 /\ pos <= NBins + 1
    <2> DEFINE b == NBins + 2 - pos
    <2>1. b \in Bins /\ pos \in 2..(NBins + 1) /\ ~(pos > NBins + 1)
      BY <1>0, <1>2 DEF Bins
    <2>2. CollectInit(b)
      BY <1>0, <1>2 DEF CollectArrays
    <2> HIDE DEF b
    <2>3. bin[b].init.n \in Nat /\ InitArrayOffset + InitArraySize \in Nat
      <3>1. bin[b].init \in RunOf
        BY <2>1, BinTyped DEF Typed
      <3>2. InitArrayOffset \in Nat /\ InitArraySize \in Nat
        BY HeadTyped
      <3> QED BY <3>1, <3>2 DEF RunOf
    <2>4. /\ bin_to_init' = Put(bin_to_init, b, InitArrayOffset + InitArraySize)
          /\ init_array' = init_array \o Slots(b, bin[b].init.n)
          /\ UNCHANGED <<fini_array, bin_to_fini>>
      BY <2>2 DEF CollectInit
    <2>5. init_array' \in Seq(Slot)
      BY <1>0, <2>1, <2>3, <2>4, SlotsTyped
    <2>6. DOMAIN bin_to_init' = DOMAIN bin_to_init \cup {b} /\ bin_to_init' \in [DOMAIN bin_to_init' -> Nat]
      BY <1>0, <2>1, <2>3, <2>4, PutTyped
    <2> QED BY <1>0, <2>1, <2>4, <2>5, <2>6 DEF b
  <1>3. CASE pos > NBins + 1
    <2> DEFINE b == pos - NBins - 1
    <2>1. b \in Bins /\ pos \notin 2..(NBins + 1) /\ pos # 1 /\ ~(pos <= NBins + 1)
      BY <1>0, <1>3 DEF Bins
    <2>2. CollectFini(b)
      BY <2>1 DEF CollectArrays
    <2> HIDE DEF b
    <2>3. bin[b].fini.n \in Nat /\ FiniArrayOffset + FiniArraySize \in Nat
      <3>1. bin[b].fini \in RunOf
        BY <2>1, BinTyped DEF Typed
      <3>2. FiniArrayOffset \in Nat /\ FiniArraySize \in Nat
        BY HeadTyped
      <3> QED BY <3>1, <3>2 DEF RunOf
    <2>4. CASE b \in ExcludedFini
      <3>1. UNCHANGED <<fini_array, bin_to_fini>> /\ UNCHANGED <<init_array, bin_to_init>>
        BY <2>2, <2>4 DEF CollectFini
      <3> QED BY <1>0, <2>1, <2>4, <3>1 DEF b
    <2>5. CASE b \notin ExcludedFini
      <3>1. /\ bin_to_fini' = Put(bin_to_fini, b, FiniArrayOffset + FiniArraySize)
            /\ fini_array' = fini_array \o Slots(b, bin[b].fini.n)
            /\ UNCHANGED <<init_array, bin_to_init>>
        BY <2>2, <2>5 DEF CollectFini
      <3>2. fini_array' \in Seq(Slot)
        BY <1>0, <2>1, <2>3, <3>1, SlotsTyped
      <3>3. DOMAIN bin_to_fini' = DOMAIN bin_to_fini \cup {b} /\ bin_to_fini' \in [DOMAIN bin_to_fini' -> Nat]
        BY <1>0, <2>1, <2>3, <3>1, PutTyped
      <3> QED BY <1>0, <1>3, <2>1, <2>5, <3>1, <3>2, <3>3 DEF b
    <2> QED BY <2>4, <2>5
  <1> QED BY <1>0, <1>1, <1>2, <1>3

\* The two places of a relocation.
LEMMA MovedTyped ==
    ASSUME Typed, Moving, Collecting, pc > 2, NEW b \in Bins, NEW at \in Nat
    PROVE  Moved(b, at) \in Nat
  <1>1. /\ bin[b].tls.vaddr \in Nat /\ bin[b].tls.filesz \in Nat /\ bin[b].tls.memsz \in Nat
        /\ phdr[b].memsz = bin[b].tls.memsz /\ tls_offset \in Nat
    BY BinTyped DEF Typed, Extent, Counters
  <1>2. CASE InTLSData(b, at)
    <2>1. at - bin[b].tls.vaddr \in Nat /\ HasTLS(b)
      BY <1>1, <1>2 DEF InTLSData, HasTLS
    <2>2. \E k \in DOMAIN data : data[k].bin = b
      BY <2>1 DEF Collecting
    <2>3. \A k \in DOMAIN data : data[k] \in TLSEntry
      BY LenProperties, ElementOfSeq DEF Typed, Tables
    <2>4. Entry(b) \in TLSEntry
      BY <2>2, <2>3 DEF Entry
    <2>5. RemapTLS(b, at - bin[b].tls.vaddr) \in Nat
      <3> DEFINE off == at - bin[b].tls.vaddr
      <3>1. off \in Nat /\ Entry(b).file_offset \in Nat /\ Entry(b).bss_offset \in Nat
        BY <2>1, <2>4 DEF TLSEntry
      <3> HIDE DEF off
      <3>2. RemapTLS(b, off) \in Nat
        BY <3>1 DEF RemapTLS
      <3> QED BY <3>2 DEF off
    <2> QED BY <1>1, <1>2, <2>5 DEF Moved
  <1>3. CASE ~InTLSData(b, at)
    <2>1. offsets[b] \in Nat
      <3>0. pc > 1
        BY DEF Typed, Counters
      <3>1. b \in 1..Len(offsets)
        BY <3>0 DEF Moving, Bins
      <3> QED BY <3>1, ElementOfSeq DEF Typed, Tables
    <2> QED BY <1>3, <2>1 DEF Moved
  <1> QED BY <1>2, <1>3

LEMMA CopiedTyped ==
    ASSUME Typed, Gathering, pc = 4, NEW b \in Bins, NEW at \in Nat, Relocatable(b, at)
    PROVE  Copied(b, at) \in Seq(Nat)
  <1>1. bin[b].init \in RunOf /\ bin[b].fini \in RunOf
    BY BinTyped DEF Typed
  <1>2. /\ bin[b].init.addr \in Nat /\ bin[b].init.n \in Nat
        /\ bin[b].fini.addr \in Nat /\ bin[b].fini.n \in Nat
    BY <1>1 DEF RunOf
  <1>3. bin_to_init[b] \in Nat
    BY DEF Gathering, Typed, Tables
  <1>4. CASE InArray(bin[b].init, at)
    <2>1. bin[b].init.addr <= at
      BY <1>4 DEF InArray
    <2>2. at - bin[b].init.addr + bin_to_init[b] \in Nat
      BY <1>2, <1>3, <2>1
    <2> QED BY <1>4, <2>2 DEF Copied
  <1>5. CASE ~InArray(bin[b].init, at) /\ InArray(bin[b].fini, at)
    <2>1. bin[b].fini.addr <= at /\ b \in DOMAIN bin_to_fini
      BY <1>5 DEF InArray, Relocatable
    <2>2. bin_to_fini[b] \in Nat
      BY <2>1 DEF Typed, Tables
    <2>3. at - bin[b].fini.addr + bin_to_fini[b] \in Nat
      BY <1>2, <2>1, <2>2
    <2> QED BY <1>5, <2>3 DEF Copied
  <1>6. CASE ~InArray(bin[b].init, at) /\ ~InArray(bin[b].fini, at)
    BY <1>6 DEF Copied
  <1> QED BY <1>4, <1>5, <1>6

LEMMA WhatTyped ==
    ASSUME Typed, NEW b \in Bins, NEW at \in Nat
    PROVE  What(b, at) \in {"init", "fini", "other"} \X (0..NBins) \X Int
  <1>1. bin[b].init \in RunOf /\ bin[b].fini \in RunOf
    BY BinTyped DEF Typed
  <1>2. (at - bin[b].init.addr) \div 8 + 1 \in Int /\ (at - bin[b].fini.addr) \div 8 + 1 \in Int
    BY <1>1 DEF RunOf
  <1>3. b \in 0..NBins /\ at \in Int
    BY NBinsAssumption DEF Bins
  <1>4. CASE InArray(bin[b].init, at)
    BY <1>2, <1>3, <1>4 DEF What
  <1>5. CASE ~InArray(bin[b].init, at) /\ InArray(bin[b].fini, at)
    BY <1>2, <1>3, <1>5 DEF What
  <1>6. CASE ~InArray(bin[b].init, at) /\ ~InArray(bin[b].fini, at)
    BY <1>3, <1>6 DEF What
  <1> QED BY <1>4, <1>5, <1>6

LEMMA RelocateTyped ==
    ASSUME Typed, Moving, Collecting, Gathering, pc = 4, Relocate
    PROVE  rels' \in Seq(Relocation)
  <1>1. CASE UNCHANGED rels
    BY <1>1 DEF Typed, Tables
  <1>2. CASE ~UNCHANGED rels
    <2>0. pos \in 1..Len(AllRels) /\ Len(Sites) = Len(AllRels)
      BY <1>2, SitesOfRels DEF Relocate, Typed, Counters
    <2>1. Sites[pos] \in Bins \X Nat /\ Sites[pos] = <<AllRels[pos][1], AllRels[pos][2].at>>
      BY <2>0, AllTyped, SitesOfRels, ElementOfSeq DEF Typed
    <2> DEFINE b == Sites[pos][1]
               at == Sites[pos][2]
               to == <<Moved(b, at)>> \o Copied(b, at)
               new == [k \in DOMAIN to |-> [at |-> to[k], what |-> What(b, at)]]
    <2>2. Relocatable(b, at) /\ rels' = rels \o new
      <3>1. b = AllRels[pos][1] /\ at = AllRels[pos][2].at /\ pos <= Len(AllRels)
        BY <2>0, <2>1
      <3> HIDE DEF b, at
      <3> QED BY <1>2, <3>1, Zenon DEF Relocate
    <2>3. b \in Bins /\ at \in Nat
      BY <2>1
    <2> HIDE DEF b, at
    <2>4. Moved(b, at) \in Nat /\ Copied(b, at) \in Seq(Nat)
      BY <2>2, <2>3, MovedTyped, CopiedTyped
    <2>5. to \in Seq(Nat)
      <3>1. <<Moved(b, at)>> \in Seq(Nat)
        BY <2>4
      <3> QED BY <2>4, <3>1, ConcatProperties
    <2> HIDE DEF to
    <2>6. DOMAIN to = 1..Len(to) /\ Len(to) \in Nat /\ \A k \in 1..Len(to) : to[k] \in Nat
      BY <2>5, LenProperties, ElementOfSeq
    <2>7. \A k \in 1..Len(to) : [at |-> to[k], what |-> What(b, at)] \in Relocation
      BY <2>3, <2>6, WhatTyped DEF Relocation
    <2>8. new \in Seq(Relocation)
      BY <2>6, <2>7
    <2> HIDE DEF new
    <2> QED BY <2>2, <2>8, ConcatProperties DEF Typed, Tables
  <1> QED BY <1>1, <1>2

\* The calls that build the tables.
LEMMA BuildSizesTyped ==
    ASSUME Typed
    PROVE  /\ BuildSymtab => nsyms' \in Nat /\ strtab' \in Nat /\ nverneed' \in Nat /\ nvernaux' \in Nat
           /\ BuildInterp => strtab' \in Nat
           /\ BuildArrays => rels' \in Seq(Relocation)
  <1>0. strtab \in Nat /\ rels \in Seq(Relocation)
    BY DEF Typed, Counters, Tables
  <1>1. ASSUME BuildSymtab PROVE nsyms' \in Nat /\ strtab' \in Nat /\ nverneed' \in Nat /\ nvernaux' \in Nat
    BY <1>0, <1>1, LayoutAssumption DEF BuildSymtab
  <1>2. ASSUME BuildInterp PROVE strtab' \in Nat
    BY <1>0, <1>2 DEF BuildInterp
  <1>3. ASSUME BuildArrays PROVE rels' \in Seq(Relocation)
    <2>1. rels' = Append(rels, [at |-> InitArrayOffset, what |-> <<"init", 0, 0>>])
      BY <1>3 DEF BuildArrays
    <2>2. InitArrayOffset \in Nat
      BY HeadTyped
    <2>3. [at |-> InitArrayOffset, what |-> <<"init", 0, 0>>] \in Relocation
      BY <2>2, NBinsAssumption DEF Relocation
    <2> QED BY <1>0, <2>1, <2>3, AppendProperties
  <1> QED BY <1>1, <1>2, <1>3

-----------------------------------------------------------------------------
(***************************************************************************)
(* Offsets change with what they are computed from.                        *)
(***************************************************************************)
LEMMA HeadKept ==
    ASSUME bin' = bin, memsz' = memsz, init_array' = init_array, fini_array' = fini_array,
           nsyms' = nsyms, nverneed' = nverneed, nvernaux' = nvernaux, rels' = rels
    PROVE  /\ CountPhdrs' = CountPhdrs
           /\ InitArrayOffset' = InitArrayOffset /\ InitArraySize' = InitArraySize
           /\ FiniArrayOffset' = FiniArrayOffset /\ FiniArraySize' = FiniArraySize
           /\ GnuHashOffset' = GnuHashOffset /\ GnuHashSize' = GnuHashSize
           /\ SymtabOffset' = SymtabOffset /\ SymtabSize' = SymtabSize
           /\ VersymOffset' = VersymOffset /\ VersymSize' = VersymSize
           /\ VerneedOffset' = VerneedOffset /\ VerneedSize' = VerneedSize
           /\ RelOffset' = RelOffset /\ RelSize' = RelSize /\ StrtabOffset' = StrtabOffset
  <1>1. CountPhdrs' = CountPhdrs
    BY DEF CountPhdrs
  <1>2. InitArrayOffset' = InitArrayOffset /\ InitArraySize' = InitArraySize
        /\ FiniArraySize' = FiniArraySize /\ GnuHashSize' = GnuHashSize /\ SymtabSize' = SymtabSize
        /\ VersymSize' = VersymSize /\ VerneedSize' = VerneedSize /\ RelSize' = RelSize
    BY <1>1 DEF InitArrayOffset, InitArraySize, FiniArraySize, GnuHashSize, SymtabSize, VersymSize,
                VerneedSize, RelSize
  <1>3. FiniArrayOffset' = FiniArrayOffset
    BY <1>2 DEF FiniArrayOffset
  <1>4. GnuHashOffset' = GnuHashOffset
    BY <1>2, <1>3 DEF GnuHashOffset
  <1>5. SymtabOffset' = SymtabOffset
    BY <1>2, <1>4 DEF SymtabOffset
  <1>6. VersymOffset' = VersymOffset
    BY <1>2, <1>5 DEF VersymOffset
  <1>7. VerneedOffset' = VerneedOffset
    BY <1>2, <1>6 DEF VerneedOffset
  <1>8. RelOffset' = RelOffset
    BY <1>2, <1>7 DEF RelOffset
  <1>9. StrtabOffset' = StrtabOffset
    BY <1>2, <1>8 DEF StrtabOffset
  <1> QED BY <1>1, <1>2, <1>3, <1>4, <1>5, <1>6, <1>7, <1>8, <1>9

LEMMA CodeKept ==
    ASSUME bin' = bin, memsz' = memsz, init_array' = init_array, fini_array' = fini_array,
           nsyms' = nsyms, nverneed' = nverneed, nvernaux' = nvernaux, rels' = rels,
           strtab' = strtab, dynamic' = dynamic
    PROVE  /\ DynamicOffset' = DynamicOffset /\ DynamicSize' = DynamicSize
           /\ ShstrtabOffset' = ShstrtabOffset /\ CodeOffset' = CodeOffset
  <1>1. StrtabOffset' = StrtabOffset
    BY HeadKept
  <1>2. DynamicOffset' = DynamicOffset /\ DynamicSize' = DynamicSize
    BY <1>1 DEF DynamicOffset, DynamicSize
  <1>3. ShstrtabOffset' = ShstrtabOffset
    BY <1>2 DEF ShstrtabOffset
  <1>4. CodeOffset' = CodeOffset
    BY <1>3 DEF CodeOffset, ShstrtabSize
  <1> QED BY <1>2, <1>3, <1>4

LEMMA SumsKept ==
    ASSUME bin' = bin, phdr' = phdr
    PROVE  /\ TLSMemSize' = TLSMemSize /\ TLSFileSize' = TLSFileSize
           /\ EHFrameSize' = EHFrameSize /\ MprotectSize' = MprotectSize
           /\ AllLoads' = AllLoads /\ FDECount' = FDECount
  BY DEF TLSMemSize, TLSFileSize, EHFrameSize, MprotectSize, AllLoads, FDECount

\* The relocations and what sold refuses depend on the binaries alone.
LEMMA RelsKept ==
    ASSUME bin' = bin
    PROVE  /\ AllRels' = AllRels /\ Sites' = Sites
           /\ \A b : Refused(b)' = Refused(b) /\ Ats(b)' = Ats(b)
  <1>1. \A b : RelsOfBin(b)' = RelsOfBin(b)
    BY DEF RelsOfBin
  <1>2. \A b : Ats(b)' = Ats(b)
    BY <1>1 DEF Ats
  <1>3. AllRels' = AllRels /\ Sites' = Sites
    BY <1>1, <1>2 DEF AllRels, Sites
  <1>4. \A b, r : Supported(b, r)' = Supported(b, r)
    BY DEF Supported, ModuleKnown, Beside, InFile
  <1>5. \A b : Readable(b)' = Readable(b) /\ Movable(b)' = Movable(b)
    BY DEF Readable, Movable, RangeStart
  <1>6. \A b : Refused(b)' = Refused(b)
    BY <1>1, <1>4, <1>5 DEF Refused
  <1> QED BY <1>2, <1>3, <1>6

-----------------------------------------------------------------------------
(***************************************************************************)
(* The dynamic section.                                                    *)
(***************************************************************************)
LEMMA BuildDynamicRecords ==
    ASSUME Typed, BuildDynamic, bin' = bin, tls_' = tls_, arrays' = arrays, nsyms' = nsyms,
           nverneed' = nverneed, nvernaux' = nvernaux, rels' = rels
    PROVE  /\ strtab' \in Nat /\ dynamic' \in Seq(DynEntry)
           /\ \A k \in 1..Len(dynamic') : RightEntry(dynamic[k])'
  <1> DEFINE Right == {e \in DynEntry : RightEntry(e)'}
  <1>1. /\ InitArrayOffset' = InitArrayOffset /\ InitArraySize' = InitArraySize
        /\ FiniArrayOffset' = FiniArrayOffset /\ FiniArraySize' = FiniArraySize
        /\ GnuHashOffset' = GnuHashOffset /\ SymtabOffset' = SymtabOffset
        /\ VersymOffset' = VersymOffset /\ VerneedOffset' = VerneedOffset
        /\ RelOffset' = RelOffset /\ RelSize' = RelSize /\ StrtabOffset' = StrtabOffset
    BY HeadKept DEF tls_, arrays
  <1>2. PICK n \in 0..1 :
          /\ strtab' = strtab + 12 * n
          /\ dynamic' =
               [k \in 1..n |-> D("needed", strtab)] \o
               <<D("init_array", InitArrayOffset), D("init_arraysz", InitArraySize),
                 D("fini_array", FiniArrayOffset), D("fini_arraysz", FiniArraySize),
                 D("gnu_hash", GnuHashOffset),
                 D("strtab", StrtabOffset), D("strsz", strtab'),
                 D("symtab", SymtabOffset)>> \o
               (IF nverneed > 0 THEN <<D("versym", VersymOffset), D("verneed", VerneedOffset)>> ELSE <<>>) \o
               <<D("rel", RelOffset), D("relasz", RelSize), D("null", 0)>>
    BY DEF BuildDynamic
  <1>3. strtab \in Nat /\ strtab' \in Nat
    BY <1>2 DEF Typed, Counters
  <1>4. \A tag \in Tags, v \in Nat : D(tag, v) \in DynEntry /\ D(tag, v).tag = tag /\ D(tag, v).val = v
    BY DEF D, DynEntry
  <1>5. /\ D("needed", strtab) \in Right /\ D("init_array", InitArrayOffset) \in Right
        /\ D("init_arraysz", InitArraySize) \in Right /\ D("fini_array", FiniArrayOffset) \in Right
        /\ D("fini_arraysz", FiniArraySize) \in Right /\ D("gnu_hash", GnuHashOffset) \in Right
        /\ D("strtab", StrtabOffset) \in Right /\ D("strsz", strtab') \in Right
        /\ D("symtab", SymtabOffset) \in Right /\ D("versym", VersymOffset) \in Right
        /\ D("verneed", VerneedOffset) \in Right /\ D("rel", RelOffset) \in Right
        /\ D("relasz", RelSize) \in Right /\ D("null", 0) \in Right
    BY <1>1, <1>3, <1>4, HeadTyped, SMTT(40) DEF RightEntry, Tags
  <1> HIDE DEF Right
  <1> DEFINE s1 == [k \in 1..n |-> D("needed", strtab)]
             s2 == <<D("init_array", InitArrayOffset), D("init_arraysz", InitArraySize),
                     D("fini_array", FiniArrayOffset), D("fini_arraysz", FiniArraySize),
                     D("gnu_hash", GnuHashOffset),
                     D("strtab", StrtabOffset), D("strsz", strtab'),
                     D("symtab", SymtabOffset)>>
             s3 == IF nverneed > 0 THEN <<D("versym", VersymOffset), D("verneed", VerneedOffset)>> ELSE <<>>
             s4 == <<D("rel", RelOffset), D("relasz", RelSize), D("null", 0)>>
  <1>6. s1 \in Seq(Right) /\ s2 \in Seq(Right) /\ s3 \in Seq(Right) /\ s4 \in Seq(Right)
    <2>1. s1 \in Seq(Right)
      BY <1>2, <1>5
    <2>2. s2 \in Seq(Right)
      BY <1>5
    <2>3. s3 \in Seq(Right) /\ s4 \in Seq(Right)
      BY <1>5
    <2> QED BY <2>1, <2>2, <2>3
  <1>7. dynamic' = s1 \o s2 \o s3 \o s4
    BY <1>2
  <1> HIDE DEF s1, s2, s3, s4
  <1>8. dynamic' \in Seq(Right)
    BY <1>6, <1>7, ConcatProperties
  <1>9. \A k \in 1..Len(dynamic') : dynamic'[k] \in Right
    BY <1>8, ElementOfSeq
  <1>10. Right \subseteq DynEntry
    BY DEF Right
  <1>11. dynamic' \in Seq(DynEntry)
    BY <1>8, <1>10, SeqMonotonic
  <1>12. ASSUME NEW k \in 1..Len(dynamic')
         PROVE  RightEntry(dynamic[k])'
    <2>1. dynamic'[k] \in Right
      BY <1>9
    <2> QED BY <2>1 DEF Right, RightEntry
  <1> QED BY <1>3, <1>11, <1>12

-----------------------------------------------------------------------------
(***************************************************************************)
(* The segments.                                                           *)
(***************************************************************************)
LEMMA FileFreeTyped ==
    ASSUME Typed
    PROVE  FileFree \in Nat /\ FileFree = FreeAt(Len(loads) + 1)
  <1>1. Len(loads) \in Nat /\ CodeOffset \in Nat
    BY LenProperties, HeadTyped DEF Typed, Tables
  <1>2. CASE loads = <<>>
    <2>1. Len(loads) + 1 = 1
      BY <1>2, EmptySeq
    <2> QED BY <1>1, <1>2, <2>1 DEF FileFree, FreeAt
  <1>3. CASE loads # <<>>
    <2>1. Len(loads) \in 1..Len(loads) /\ Len(loads) + 1 # 1 /\ (Len(loads) + 1) - 1 = Len(loads)
      BY <1>1, <1>3, EmptySeq DEF Typed, Tables
    <2>2. loads[Len(loads)] \in LoadSegment
      BY <2>1, ElementOfSeq DEF Typed, Tables
    <2>3. loads[Len(loads)].offset + loads[Len(loads)].filesz \in Nat
      BY <2>2 DEF LoadSegment
    <2>4. FileFree = AlignNext(loads[Len(loads)].offset + loads[Len(loads)].filesz, Page)
      BY <1>3 DEF FileFree
    <2>5. FreeAt(Len(loads) + 1) = FileFree
      BY <2>1, <2>4 DEF FreeAt
    <2> QED BY <2>3, <2>4, <2>5, PageAlign
  <1> QED BY <1>2, <1>3

LEMMA BuildLoadsTyped ==
    ASSUME Typed, Moving, pc = 9, BuildLoads
    PROVE  /\ loads' \in Seq(LoadSegment) /\ tls_file_offset' \in Nat
           /\ ehframe_file_offset' \in Nat /\ mprotect_file_offset' \in Nat
  <1>0. /\ loads \in Seq(LoadSegment) /\ tls_file_offset \in Nat
        /\ ehframe_file_offset \in Nat /\ mprotect_file_offset \in Nat /\ FileFree \in Nat
        /\ TLSFileSize \in Nat /\ EHFrameSize \in Nat /\ pos \in Nat \ {0}
    BY FileFreeTyped, SumsTyped DEF Typed, Tables, Counters
  <1>1. CASE UNCHANGED filed
    BY <1>0, <1>1 DEF filed
  <1>2. CASE /\ pos <= Len(AllLoads)
             /\ loads' = Append(loads, LoadAt(AllLoads[pos][1], AllLoads[pos][2]))
             /\ UNCHANGED <<tls_file_offset, ehframe_file_offset, mprotect_file_offset>>
    <2>1. AllLoads \in Seq(Bins \X Extent)
      BY AllTyped DEF Typed
    <2>2. AllLoads[pos] \in Bins \X Extent
      BY <1>0, <1>2, <2>1, LenProperties, ElementOfSeq
    <2> DEFINE b == AllLoads[pos][1]
               l == AllLoads[pos][2]
    <2>3. b \in Bins /\ l \in Extent
      BY <2>2
    <2> HIDE DEF b, l
    <2>4. offsets[b] \in Nat
      <3>1. b \in 1..Len(offsets)
        BY <2>3 DEF Moving, Bins
      <3> QED BY <3>1, ElementOfSeq DEF Typed, Tables
    <2>5. l.vaddr \in Nat /\ l.filesz \in Nat /\ l.memsz \in Nat
      BY <2>3 DEF Extent
    <2>6. FileFree + (l.vaddr % Page) \in Nat /\ l.vaddr + offsets[b] \in Nat
      BY <1>0, <2>4, <2>5 DEF Page
    <2>7. LoadAt(b, l) \in LoadSegment
      BY <2>3, <2>5, <2>6 DEF LoadAt, LoadSegment
    <2> QED BY <1>0, <1>2, <2>7, AppendProperties DEF b, l
  <1>3. CASE /\ tls_file_offset' = FileFree /\ loads' = loads
             /\ ehframe_file_offset' = AlignNext(tls_file_offset' + TLSFileSize, Page)
             /\ mprotect_file_offset' = AlignNext(ehframe_file_offset' + EHFrameSize, Page)
    <2>1. tls_file_offset' \in Nat /\ tls_file_offset' + TLSFileSize \in Nat
      BY <1>0, <1>3
    <2>2. ehframe_file_offset' \in Nat
      BY <1>3, <2>1, PageAlign
    <2>3. ehframe_file_offset' + EHFrameSize \in Nat
      <3>1. EHFrameSize \in Nat
        BY <1>0
      <3>2. \A x, y \in Nat : x + y \in Nat
        OBVIOUS
      <3> QED BY <2>2, <3>1, <3>2
    <2>4. mprotect_file_offset' \in Nat
      BY <1>3, <2>3, PageAlign
    <2> QED BY <1>0, <1>3, <2>1, <2>2, <2>4
  <1> QED BY <1>1, <1>2, <1>3 DEF BuildLoads

\* The description of the k-th segment.
LoadOf(k) == [bin    |-> AllLoads[k][1],
              offset |-> FreeAt(k) + (AllLoads[k][2].vaddr % Page),
              vaddr  |-> AllLoads[k][2].vaddr + offsets[AllLoads[k][1]],
              filesz |-> AllLoads[k][2].filesz,
              memsz  |-> AllLoads[k][2].memsz]

LEMMA LoadingStep ==
    ASSUME Typed, Moving, Loading, Next
    PROVE  Loading'
  <1>0. /\ pc \in 1..13 /\ pc' \in {0, pc, pc + 1}
        /\ AllLoads' = AllLoads /\ TLSFileSize' = TLSFileSize /\ EHFrameSize' = EHFrameSize
    BY Frame, SumsKept DEF Typed
  <1>1. CASE pc' = 0
    BY <1>1 DEF Loading
  <1>2. CASE pc' # 0 /\ pc < 8
    <2>1. loads = <<>> /\ loads' = loads /\ pc' \in 1..8
      BY <1>0, <1>2, Frame DEF Loading, Typed, filed
    <2> QED BY <2>1 DEF Loading
  <1>3. CASE pc' # 0 /\ pc = 8
    <2>1. loads = <<>> /\ loads' = loads /\ pc' = 9 /\ pos' = 1
      BY <1>0, <1>3, CallOf, Frame DEF Loading, Typed, filed, BuildDynamic, Return
    <2>2. Len(AllLoads) \in Nat
      BY AllTyped, LenProperties DEF Typed
    <2> QED BY <1>0, <2>1, <2>2 DEF Loading
  <1>4. CASE pc' # 0 /\ pc = 9
    <2>1. /\ BuildLoads /\ offsets' = offsets /\ CodeOffset' = CodeOffset
          /\ pos \in Nat \ {0} /\ Len(loads) = pos - 1 /\ pos <= Len(AllLoads) + 1
          /\ \A k \in 1..Len(loads) : loads[k] = LoadOf(k)
          /\ loads \in Seq(LoadSegment) /\ Len(loads) \in Nat /\ Len(AllLoads) \in Nat
      <3>1. BuildLoads /\ offsets' = offsets /\ pos \in Nat \ {0} /\ loads \in Seq(LoadSegment)
        BY <1>4, CallOf, Frame DEF Typed, Counters, Tables, mem
      <3>2. CodeOffset' = CodeOffset
        BY <1>4, Frame, CodeKept DEF Typed, tls_, arrays
      <3>3. Len(loads) = pos - 1 /\ pos <= Len(AllLoads) + 1 /\ \A k \in 1..Len(loads) : loads[k] = LoadOf(k)
        BY <1>4 DEF Loading, LoadOf
      <3> QED BY <3>1, <3>2, <3>3, AllTyped, LenProperties DEF Typed
    <2>2. CASE pos <= Len(AllLoads)
      <3> DEFINE new == LoadAt(AllLoads[pos][1], AllLoads[pos][2])
      <3>1. loads' = Append(loads, new) /\ pc' = 9 /\ pos' = pos + 1
        BY <1>4, <2>1, <2>2 DEF BuildLoads, Proceed, Abort
      <3>2. loads' \in Seq(LoadSegment)
        BY <1>4, <2>1, BuildLoadsTyped
      <3>3. new = LoadOf(pos)
        <4>1. FileFree = FreeAt(pos)
          <5>1. Len(loads) + 1 = pos
            BY <2>1
          <5> QED BY <5>1, FileFreeTyped
        <4> QED BY <4>1 DEF LoadAt, LoadOf
      <3> HIDE DEF new
      <3>4. /\ Len(loads') = pos /\ loads'[pos] = new
            /\ \A k \in 1..(pos - 1) : loads'[k] = loads[k]
        BY <2>1, <3>1
      <3>5. ASSUME NEW k \in 1..pos PROVE loads'[k] = LoadOf(k)'
        <4>1. FreeAt(k)' = FreeAt(k)
          <5>1. CASE k = 1
            BY <2>1, <5>1 DEF FreeAt
          <5>2. CASE k # 1
            <6>1. k - 1 \in 1..(pos - 1)
              BY <2>1, <5>2
            <6>2. loads'[k - 1] = loads[k - 1]
              BY <3>4, <6>1
            <6> QED BY <5>2, <6>2 DEF FreeAt
          <5> QED BY <5>1, <5>2
        <4>2. LoadOf(k)' = LoadOf(k)
          BY <1>0, <2>1, <4>1 DEF LoadOf
        <4>3. CASE k = pos
          BY <3>3, <3>4, <4>2, <4>3
        <4>4. CASE k # pos
          <5>1. k \in 1..(pos - 1) /\ k \in 1..Len(loads)
            BY <2>1, <4>4
          <5> QED BY <2>1, <3>4, <4>2, <5>1
        <4> QED BY <4>3, <4>4
      <3>6. \A k \in 1..Len(loads') : loads'[k] = LoadOf(k)'
        BY <3>4, <3>5
      <3> QED BY <1>0, <2>1, <2>2, <3>1, <3>4, <3>6 DEF Loading, LoadOf
    <2>3. CASE ~(pos <= Len(AllLoads))
      <3>1. /\ tls_file_offset' = FileFree /\ loads' = loads /\ pc' = 10
            /\ ehframe_file_offset' = AlignNext(tls_file_offset' + TLSFileSize, Page)
            /\ mprotect_file_offset' = AlignNext(ehframe_file_offset' + EHFrameSize, Page)
        BY <1>4, <2>1, <2>3 DEF BuildLoads, Return, Abort
      <3>2. FileFree' = FileFree /\ Len(loads') = Len(AllLoads)
        BY <2>1, <2>3, <3>1 DEF FileFree
      <3>3. \A k \in 1..Len(loads') : loads'[k] = LoadOf(k)'
        <4>1. SUFFICES ASSUME NEW k \in 1..Len(loads) PROVE loads[k] = LoadOf(k)'
          BY <3>1
        <4>2. LoadOf(k)' = LoadOf(k)
          BY <1>0, <2>1, <3>1 DEF LoadOf, FreeAt
        <4> QED BY <2>1, <4>2
      <3> QED BY <1>0, <3>1, <3>2, <3>3 DEF Loading, LoadOf
    <2> QED BY <2>2, <2>3
  <1>5. CASE pc' # 0 /\ pc > 9
    <2>1. filed' = filed /\ offsets' = offsets /\ pc' > 9 /\ CodeOffset' = CodeOffset
      <3>1. CodeOffset' = CodeOffset
        BY <1>0, <1>5, Frame, CodeKept DEF Typed, tls_, arrays
      <3> QED BY <1>0, <1>5, <3>1, Frame DEF Typed, mem
    <2>2. loads' = loads /\ FileFree' = FileFree
      BY <2>1 DEF filed, FileFree
    <2>3. \A k \in 1..Len(loads') : loads'[k] = LoadOf(k)'
      <3>1. SUFFICES ASSUME NEW k \in 1..Len(loads) PROVE loads[k] = LoadOf(k)'
        BY <2>2
      <3>2. LoadOf(k)' = LoadOf(k)
        BY <1>0, <2>1, <2>2 DEF LoadOf, FreeAt
      <3>3. loads[k] = LoadOf(k)
        BY <1>0 DEF Loading, LoadOf
      <3> QED BY <3>2, <3>3
    <2>4. /\ Len(loads') = Len(AllLoads') /\ tls_file_offset' = FileFree'
          /\ ehframe_file_offset' = AlignNext(tls_file_offset' + TLSFileSize', Page)
          /\ mprotect_file_offset' = AlignNext(ehframe_file_offset' + EHFrameSize', Page)
      BY <1>0, <1>5, <2>1, <2>2 DEF Loading, filed
    <2> QED BY <2>1, <2>3, <2>4 DEF Loading, LoadOf
  <1> QED BY <1>0, <1>1, <1>2, <1>3, <1>4, <1>5

-----------------------------------------------------------------------------
(***************************************************************************)
(* The table of .eh_frame_hdr.                                             *)
(***************************************************************************)
\* A step of a running sum.
LEMMA UpToStep ==
    ASSUME NEW v \in [Bins -> Nat], NEW b \in Bins, NEW x, UpTo(v, b - 1, x)
    PROVE  UpTo(v, b, x + v[b])
  <1>1. ASSUME NEW s, RunningSum(NBins, s, v) PROVE x + v[b] = s[b]
    <2>1. x = s[b - 1]
      BY <1>1 DEF UpTo
    <2>2. s[b] = s[b - 1] + v[b]
      BY <1>1 DEF RunningSum, Bins
    <2> QED BY <2>1, <2>2
  <1> QED BY <1>1 DEF UpTo

LEMMA UpToEnds ==
    ASSUME NEW v \in [Bins -> Nat], NEW x
    PROVE  UpTo(v, 0, 0) /\ (UpTo(v, NBins, x) => x = SumBins(v))
  <1>1. v \in [Bins -> Int] /\ v \in [1..NBins -> Int] /\ NBins \in Nat
    BY NBinsAssumption DEF Bins
  <1>2. UpTo(v, 0, 0)
    BY DEF UpTo, RunningSum
  <1>3. PICK s : RunningSum(NBins, s, v)
    BY <1>1, RunningSumExists
  <1>4. SumBins(v) = s[NBins]
    BY <1>1, <1>3, SumsUp
  <1> QED BY <1>2, <1>3, <1>4 DEF UpTo

LEMMA FDEsTyped ==
    ASSUME Typed, Moving, pc > 1, NEW b \in Bins
    PROVE  FDEsOf(b) \in Seq(Int) /\ Len(FDEsOf(b)) = FDECount[b]
  <1>1. bin[b].fdes \in Seq(Nat) /\ ehframe_offset \in Nat
    BY BinTyped DEF Typed, Counters
  <1>2. offsets[b] \in Nat
    <2>1. b \in 1..Len(offsets)
      BY DEF Moving, Bins
    <2> QED BY <2>1, ElementOfSeq DEF Typed, Tables
  <1>3. /\ Len(bin[b].fdes) \in Nat /\ DOMAIN bin[b].fdes = 1..Len(bin[b].fdes)
        /\ \A k \in 1..Len(bin[b].fdes) : bin[b].fdes[k] \in Nat
    BY <1>1, LenProperties, ElementOfSeq
  <1>4. \A k \in 1..Len(bin[b].fdes) : bin[b].fdes[k] + offsets[b] - ehframe_offset \in Int
    BY <1>1, <1>2, <1>3
  <1> QED BY <1>3, <1>4 DEF FDEsOf, FDECount

LEMMA MergingStep ==
    ASSUME Typed, Moving, Merging, Next
    PROVE  Merging' /\ eh_table' \in Seq(Int)
  <1>0. /\ pc \in 1..13 /\ pc' \in {0, pc, pc + 1} /\ FDECount' = FDECount /\ EHFrameSize' = EHFrameSize
        /\ eh_table \in Seq(Int) /\ pos \in Nat \ {0} /\ NBins \in Nat /\ FDECount \in [Bins -> Nat]
    BY Frame, SumsKept, SumsTyped, NBinsAssumption DEF Typed, Tables, Counters
  <1>1. CASE pc # 10
    <2>1. eh_table' = eh_table
      BY <1>1, Frame DEF Typed
    <2>2. CASE pc < 9 \/ pc > 10 \/ pc' = 0
      BY <1>0, <1>1, <2>1, <2>2 DEF Merging
    <2>3. CASE pc = 9 /\ pc' # 0
      <3>1. pc' = 9 \/ (pc' = 10 /\ pos' = 1)
        BY <1>0, <2>3, CallOf DEF Typed, BuildLoads, Return, Proceed, Abort
      <3>2. Len(eh_table') = 0 /\ eh_table' = <<>>
        BY <2>1, <2>3, EmptySeq DEF Merging
      <3>3. UpTo(FDECount, 0, 0)
        BY <1>0, UpToEnds
      <3> QED BY <1>0, <3>1, <3>2, <3>3 DEF Merging, UpTo
    <2> QED BY <1>0, <1>1, <2>1, <2>2, <2>3
  <1>2. CASE pc = 10
    <2>0. BuildEHFrameHeader /\ pos <= NBins + 1 /\ UpTo(FDECount, pos - 1, Len(eh_table))
      BY <1>2, CallOf DEF Typed, Merging
    <2>1. CASE pos <= NBins
      <3>1. eh_table' = eh_table \o FDEsOf(pos) /\ pos' = pos + 1 /\ pc' = pc
        BY <2>0, <2>1 DEF BuildEHFrameHeader, Proceed
      <3>2. pos \in Bins /\ pos' - 1 = pos
        BY <1>0, <2>1, <3>1 DEF Bins
      <3>3. FDEsOf(pos) \in Seq(Int) /\ Len(FDEsOf(pos)) = FDECount[pos]
        BY <1>2, <3>2, FDEsTyped
      <3>4. eh_table' \in Seq(Int) /\ Len(eh_table') = Len(eh_table) + FDECount[pos]
        BY <1>0, <3>1, <3>3, ConcatProperties, ZenonT(40)
      <3>5. UpTo(FDECount, pos, Len(eh_table'))
        BY <1>0, <2>0, <3>2, <3>4, UpToStep
      <3> QED BY <1>0, <1>2, <2>1, <3>1, <3>2, <3>4, <3>5 DEF Merging, UpTo
    <2>2. CASE ~(pos <= NBins)
      <3>1. eh_table' = eh_table /\ (pc' = 0 \/ (pc' = 11 /\ EHFrameSize = 12 + 8 * Len(eh_table)))
        BY <1>2, <2>0, <2>2 DEF BuildEHFrameHeader, Return, Abort
      <3> QED BY <1>0, <3>1 DEF Merging
    <2> QED BY <2>1, <2>2
  <1> QED BY <1>1, <1>2

-----------------------------------------------------------------------------
(***************************************************************************)
(* The section headers.                                                    *)
(***************************************************************************)
\* How many sections there are for versions.
Versions == IF nverneed > 0 THEN 2 ELSE 0

LEMMA RegisteredAt ==
    ASSUME Typed
    PROVE  /\ Registered \in Seq(SecHeader) /\ Len(Registered) = 9 + Versions
           /\ Registered[1] = Shdr("null", 0, 0)
           /\ Registered[2] = Shdr("gnu_hash", GnuHashOffset, GnuHashSize)
           /\ Registered[3] = Shdr("symtab", SymtabOffset, SymtabSize)
           /\ nverneed > 0 => /\ Registered[4] = Shdr("versym", VersymOffset, VersymSize)
                              /\ Registered[5] = Shdr("verneed", VerneedOffset, VerneedSize)
           /\ Registered[4 + Versions] = Shdr("rel", RelOffset, RelSize)
           /\ Registered[5 + Versions] = Shdr("init_array", InitArrayOffset, InitArraySize)
           /\ Registered[6 + Versions] = Shdr("fini_array", FiniArrayOffset, FiniArraySize)
           /\ Registered[7 + Versions] = Shdr("strtab", StrtabOffset, strtab)
           /\ Registered[8 + Versions] = Shdr("dynamic", DynamicOffset, DynamicSize)
           /\ Registered[9 + Versions] = Shdr("shstrtab", ShstrtabOffset, ShstrtabSize)
  <1> DEFINE A == <<Shdr("null", 0, 0), Shdr("gnu_hash", GnuHashOffset, GnuHashSize),
                    Shdr("symtab", SymtabOffset, SymtabSize)>>
             B == IF nverneed > 0 THEN <<Shdr("versym", VersymOffset, VersymSize),
                                         Shdr("verneed", VerneedOffset, VerneedSize)>> ELSE <<>>
             C == <<Shdr("rel", RelOffset, RelSize), Shdr("init_array", InitArrayOffset, InitArraySize),
                    Shdr("fini_array", FiniArrayOffset, FiniArraySize), Shdr("strtab", StrtabOffset, strtab),
                    Shdr("dynamic", DynamicOffset, DynamicSize),
                    Shdr("shstrtab", ShstrtabOffset, ShstrtabSize)>>
  <1>1. \A type \in Sections, o, n \in Nat : Shdr(type, o, n) \in SecHeader
    BY DEF Shdr, SecHeader
  <1>2. /\ Shdr("null", 0, 0) \in SecHeader
        /\ Shdr("gnu_hash", GnuHashOffset, GnuHashSize) \in SecHeader
        /\ Shdr("symtab", SymtabOffset, SymtabSize) \in SecHeader
        /\ Shdr("versym", VersymOffset, VersymSize) \in SecHeader
        /\ Shdr("verneed", VerneedOffset, VerneedSize) \in SecHeader
        /\ Shdr("rel", RelOffset, RelSize) \in SecHeader
        /\ Shdr("init_array", InitArrayOffset, InitArraySize) \in SecHeader
        /\ Shdr("fini_array", FiniArrayOffset, FiniArraySize) \in SecHeader
        /\ Shdr("strtab", StrtabOffset, strtab) \in SecHeader
        /\ Shdr("dynamic", DynamicOffset, DynamicSize) \in SecHeader
        /\ Shdr("shstrtab", ShstrtabOffset, ShstrtabSize) \in SecHeader
    BY <1>1, HeadTyped DEF Sections, Typed, Counters
  <1>3. A \in Seq(SecHeader) /\ Len(A) = 3
    BY <1>2
  <1>4. B \in Seq(SecHeader) /\ Len(B) = Versions
    BY <1>2 DEF Versions
  <1>5. C \in Seq(SecHeader) /\ Len(C) = 6
    BY <1>2
  <1>6. Registered = A \o B \o C
    BY DEF Registered
  <1>7. /\ A[1] = Shdr("null", 0, 0) /\ A[2] = Shdr("gnu_hash", GnuHashOffset, GnuHashSize)
        /\ A[3] = Shdr("symtab", SymtabOffset, SymtabSize)
    OBVIOUS
  <1>8. nverneed > 0 => /\ B[1] = Shdr("versym", VersymOffset, VersymSize)
                        /\ B[2] = Shdr("verneed", VerneedOffset, VerneedSize)
    OBVIOUS
  <1>9. /\ C[1] = Shdr("rel", RelOffset, RelSize)
        /\ C[2] = Shdr("init_array", InitArrayOffset, InitArraySize)
        /\ C[3] = Shdr("fini_array", FiniArrayOffset, FiniArraySize)
        /\ C[4] = Shdr("strtab", StrtabOffset, strtab)
        /\ C[5] = Shdr("dynamic", DynamicOffset, DynamicSize)
        /\ C[6] = Shdr("shstrtab", ShstrtabOffset, ShstrtabSize)
    OBVIOUS
  <1> HIDE DEF A, B, C
  <1>10. /\ Versions \in {0, 2} /\ Versions \in Nat /\ 3 + Versions \in Nat /\ 3 \in Nat /\ 6 \in Nat
         /\ nverneed > 0 => Versions = 2
    BY DEF Versions
  <1>11. /\ A \o B \in Seq(SecHeader) /\ Len(A \o B) = 3 + Versions
         /\ \A i \in 1..3 : (A \o B)[i] = A[i]
         /\ \A i \in 1..Versions : (A \o B)[3 + i] = B[i]
    <2>1. A \o B \in Seq(SecHeader) /\ Places(A, B)
      BY <1>3, <1>4, ConcatPlaces
    <2>2. Len(A) = 3 /\ Len(B) = Versions
      BY <1>3, <1>4
    <2> QED BY <2>1, <2>2 DEF Places
  <1>12. /\ Registered \in Seq(SecHeader) /\ Len(Registered) = (3 + Versions) + 6
         /\ \A i \in 1..(3 + Versions) : Registered[i] = (A \o B)[i]
         /\ \A i \in 1..6 : Registered[(3 + Versions) + i] = C[i]
    <2>1. Registered \in Seq(SecHeader) /\ Places(A \o B, C)
      BY <1>5, <1>6, <1>11, ConcatPlaces
    <2>2. Len(A \o B) = 3 + Versions /\ Len(C) = 6
      BY <1>5, <1>11
    <2> QED BY <1>6, <2>1, <2>2 DEF Places
  <1>13. Registered[1] = A[1] /\ Registered[2] = A[2] /\ Registered[3] = A[3]
    <2>1. \A i \in 1..3 : i \in 1..(3 + Versions)
      BY <1>10
    <2>2. \A i \in 1..3 : Registered[i] = A[i]
      BY <1>11, <1>12, <2>1
    <2>3. 1 \in 1..3 /\ 2 \in 1..3 /\ 3 \in 1..3
      OBVIOUS
    <2> QED BY <2>2, <2>3
  <1>14. nverneed > 0 => Registered[4] = B[1] /\ Registered[5] = B[2]
    <2>1. SUFFICES ASSUME nverneed > 0 PROVE Registered[4] = B[1] /\ Registered[5] = B[2]
      OBVIOUS
    <2>2. Versions = 2 /\ 3 + 1 = 4 /\ 3 + 2 = 5 /\ 1 \in 1..2 /\ 2 \in 1..2 /\ 4 \in 1..5 /\ 5 \in 1..5
      BY <1>10, <2>1
    <2>3. (A \o B)[3 + 1] = B[1] /\ (A \o B)[3 + 2] = B[2]
      BY <1>11, <2>2
    <2>4. Registered[4] = (A \o B)[4] /\ Registered[5] = (A \o B)[5]
      BY <1>12, <2>2
    <2> QED BY <2>2, <2>3, <2>4
  <1>15. /\ Registered[4 + Versions] = C[1] /\ Registered[5 + Versions] = C[2]
         /\ Registered[6 + Versions] = C[3] /\ Registered[7 + Versions] = C[4]
         /\ Registered[8 + Versions] = C[5] /\ Registered[9 + Versions] = C[6]
    <2>1. /\ (3 + Versions) + 1 = 4 + Versions /\ (3 + Versions) + 2 = 5 + Versions
          /\ (3 + Versions) + 3 = 6 + Versions /\ (3 + Versions) + 4 = 7 + Versions
          /\ (3 + Versions) + 5 = 8 + Versions /\ (3 + Versions) + 6 = 9 + Versions
      BY <1>10
    <2>2. 1 \in 1..6 /\ 2 \in 1..6 /\ 3 \in 1..6 /\ 4 \in 1..6 /\ 5 \in 1..6 /\ 6 \in 1..6
      OBVIOUS
    <2>3. /\ Registered[(3 + Versions) + 1] = C[1] /\ Registered[(3 + Versions) + 2] = C[2]
          /\ Registered[(3 + Versions) + 3] = C[3] /\ Registered[(3 + Versions) + 4] = C[4]
          /\ Registered[(3 + Versions) + 5] = C[5] /\ Registered[(3 + Versions) + 6] = C[6]
      BY <1>12, <2>2
    <2> QED BY <2>1, <2>3
  <1>16. Len(Registered) = 9 + Versions
    <2>1. (3 + Versions) + 6 = 9 + Versions
      BY <1>10
    <2> QED BY <1>12, <2>1
  <1> QED BY <1>7, <1>8, <1>9, <1>12, <1>13, <1>14, <1>15, <1>16

\* The type of each section header, in their order.
LEMMA RegisteredTypes ==
    ASSUME Typed
    PROVE  /\ Len(Registered) = 9 + Versions /\ Versions \in {0, 2}
           /\ Registered[1].type = "null" /\ Registered[2].type = "gnu_hash"
           /\ Registered[3].type = "symtab"
           /\ Versions = 2 => Registered[4].type = "versym" /\ Registered[5].type = "verneed"
           /\ Registered[4 + Versions].type = "rel" /\ Registered[5 + Versions].type = "init_array"
           /\ Registered[6 + Versions].type = "fini_array" /\ Registered[7 + Versions].type = "strtab"
           /\ Registered[8 + Versions].type = "dynamic" /\ Registered[9 + Versions].type = "shstrtab"
           /\ \A k \in 1..Len(Registered) :
                \/ k \in 1..3
                \/ Versions = 2 /\ k \in 4..5
                \/ k \in (4 + Versions)..(9 + Versions)
  <1>1. Versions \in {0, 2} /\ (Versions = 2 <=> nverneed > 0)
    BY DEF Versions
  <1>2. \A type, o, n : Shdr(type, o, n).type = type
    BY DEF Shdr
  <1>3. Len(Registered) = 9 + Versions
    BY RegisteredAt
  <1>4. \A k \in 1..(9 + Versions) :
          k \in 1..3 \/ (Versions = 2 /\ k \in 4..5) \/ k \in (4 + Versions)..(9 + Versions)
    BY <1>1
  <1> QED BY <1>1, <1>2, <1>3, <1>4, RegisteredAt

\* The headers that others link to.
LEMMA LinkIndices ==
    ASSUME Typed
    PROVE  GetIndex("null") = 0 /\ GetIndex("symtab") = 2 /\ GetIndex("strtab") = 6 + Versions
  <1>1. DOMAIN Registered = 1..(9 + Versions) /\ Versions \in {0, 2}
    BY RegisteredAt, RegisteredTypes, LenProperties
  <1>2. \A k \in 1..(9 + Versions) : k \in 1..3 \/ (Versions = 2 /\ k \in 4..5)
                                     \/ k \in (4 + Versions)..(9 + Versions)
    BY RegisteredTypes
  <1>3. ASSUME NEW k \in 1..(9 + Versions)
        PROVE  /\ Registered[k].type = "null" <=> k = 1
               /\ Registered[k].type = "symtab" <=> k = 3
               /\ Registered[k].type = "strtab" <=> k = 7 + Versions
    <2>1. CASE Versions = 0
      <3>1. k \in {1, 2, 3, 4, 5, 6, 7, 8, 9}
        BY <1>3, <2>1
      <3> QED BY <2>1, <3>1, RegisteredTypes
    <2>2. CASE Versions = 2
      <3>1. k \in {1, 2, 3, 4, 5, 6, 7, 8, 9, 10, 11}
        BY <1>3, <2>2
      <3> QED BY <2>2, <3>1, RegisteredTypes
    <2> QED BY <1>1, <2>1, <2>2
  <1>4. 1 \in 1..(9 + Versions) /\ 3 \in 1..(9 + Versions) /\ 7 + Versions \in 1..(9 + Versions)
    BY <1>1
  <1>5. (CHOOSE k \in DOMAIN Registered : Registered[k].type = "null") = 1
    BY <1>1, <1>3, <1>4
  <1>6. (CHOOSE k \in DOMAIN Registered : Registered[k].type = "symtab") = 3
    BY <1>1, <1>3, <1>4
  <1>7. (CHOOSE k \in DOMAIN Registered : Registered[k].type = "strtab") = 7 + Versions
    BY <1>1, <1>3, <1>4
  <1>8. GetIndex("null") = 1 - 1 /\ GetIndex("symtab") = 3 - 1 /\ GetIndex("strtab") = (7 + Versions) - 1
    BY <1>5, <1>6, <1>7, Zenon DEF GetIndex
  <1> QED BY <1>1, <1>8

LEMMA LinkedTyped ==
    ASSUME Typed
    PROVE  LinkedShdrs \in Seq(SecHeader) /\ Len(LinkedShdrs) = Len(Registered)
  <1>1. Registered \in Seq(SecHeader)
    BY RegisteredAt
  <1>2. /\ Len(Registered) \in Nat /\ DOMAIN Registered = 1..Len(Registered)
        /\ \A k \in 1..Len(Registered) : Registered[k] \in SecHeader
    BY <1>1, LenProperties, ElementOfSeq
  <1>3. \A type \in Sections : LinkedTo(type) \in {"symtab", "strtab", "null"}
    BY DEF LinkedTo, Sections
  <1>4. \A type \in Sections : GetIndex(LinkedTo(type)) \in Int
    <2>1. GetIndex("null") \in Int /\ GetIndex("symtab") \in Int /\ GetIndex("strtab") \in Int
      BY LinkIndices, RegisteredTypes
    <2> QED BY <1>3, <2>1
  <1>5. ASSUME NEW k \in 1..Len(Registered)
        PROVE  [Registered[k] EXCEPT !.link = GetIndex(LinkedTo(Registered[k].type))] \in SecHeader
    <2>1. Registered[k] \in SecHeader /\ Registered[k].type \in Sections
      BY <1>2 DEF SecHeader
    <2>2. GetIndex(LinkedTo(Registered[k].type)) \in Int
      BY <1>4, <2>1
    <2> QED BY <2>1, <2>2 DEF SecHeader
  <1> QED BY <1>2, <1>5 DEF LinkedShdrs

\* Nothing the head of the file is computed from changes after BuildDynamic.
LEMMA HeadDone ==
    ASSUME Counters, Next, pc > 8
    PROVE  /\ bin' = bin /\ phdr' = phdr /\ memsz' = memsz /\ filesz' = filesz /\ offsets' = offsets
           /\ init_array' = init_array /\ fini_array' = fini_array
           /\ nsyms' = nsyms /\ nverneed' = nverneed /\ nvernaux' = nvernaux /\ rels' = rels
           /\ strtab' = strtab /\ dynamic' = dynamic
  BY Frame DEF Counters, tls_, arrays, mem

LEMMA RegisteredKept ==
    ASSUME Counters, Next, pc > 8
    PROVE  Registered' = Registered /\ LinkedShdrs' = LinkedShdrs
  <1>1. /\ GnuHashOffset' = GnuHashOffset /\ GnuHashSize' = GnuHashSize
        /\ SymtabOffset' = SymtabOffset /\ SymtabSize' = SymtabSize
        /\ VersymOffset' = VersymOffset /\ VersymSize' = VersymSize
        /\ VerneedOffset' = VerneedOffset /\ VerneedSize' = VerneedSize
        /\ RelOffset' = RelOffset /\ RelSize' = RelSize
        /\ InitArrayOffset' = InitArrayOffset /\ InitArraySize' = InitArraySize
        /\ FiniArrayOffset' = FiniArrayOffset /\ FiniArraySize' = FiniArraySize
        /\ StrtabOffset' = StrtabOffset
    BY HeadDone, HeadKept
  <1>2. /\ DynamicOffset' = DynamicOffset /\ DynamicSize' = DynamicSize
        /\ ShstrtabOffset' = ShstrtabOffset
    BY HeadDone, CodeKept
  <1>3. strtab' = strtab /\ nverneed' = nverneed
    BY HeadDone
  <1>4. Registered' = Registered
    BY <1>1, <1>2, <1>3 DEF Registered, Shdr, ShstrtabSize
  <1> QED BY <1>4 DEF LinkedShdrs, GetIndex

LEMMA RegisteringStep ==
    ASSUME Typed, Registering, Next
    PROVE  Registering' /\ shdrs' \in Seq(SecHeader)
  <1>0. /\ pc \in 1..13 /\ pc' \in {0, pc, pc + 1} /\ Counters /\ shdrs \in Seq(SecHeader)
        /\ pc # 11 => shdrs' = shdrs
        /\ pc # 12 => ehdr' = ehdr
    BY Frame DEF Typed, Tables
  <1>1. CASE pc < 11
    BY <1>0, <1>1 DEF Registering
  <1>2. CASE pc = 11
    <2>1. shdrs' = LinkedShdrs /\ pc' = 12
      BY <1>0, <1>2, CallOf DEF RegisterShdrs, Return, LinkedShdrs
    <2>2. LinkedShdrs' = LinkedShdrs
      BY <1>0, <1>2, RegisteredKept
    <2> QED BY <2>1, <2>2, LinkedTyped DEF Registering
  <1>3. CASE pc > 11
    <2>1. shdrs' = shdrs /\ shdrs = LinkedShdrs /\ LinkedShdrs' = LinkedShdrs
      BY <1>0, <1>3, RegisteredKept DEF Registering
    <2>2. ShdrOffset' = ShdrOffset
      <3>1. filed' = filed /\ bin' = bin /\ phdr' = phdr
        BY <1>0, <1>3, Frame
      <3>2. MprotectSize' = MprotectSize
        BY <3>1, SumsKept
      <3> QED BY <3>1, <3>2 DEF ShdrOffset, filed
    <2>3. pc = 12 => ehdr' = [shoff |-> ShdrOffset, shnum |-> Len(shdrs), shstrndx |-> Len(shdrs) - 1]
      BY <1>0, CallOf DEF BuildEhdr
    <2>4. pc = 13 => ehdr' = [shoff |-> ShdrOffset, shnum |-> Len(shdrs), shstrndx |-> Len(shdrs) - 1]
      BY <1>0 DEF Registering
    <2>5. pc \in {12, 13}
      BY <1>0, <1>3
    <2> QED BY <1>0, <2>1, <2>2, <2>3, <2>4, <2>5 DEF Registering
  <1> QED BY <1>0, <1>1, <1>2, <1>3

-----------------------------------------------------------------------------
(***************************************************************************)
(* What Emit writes.                                                       *)
(***************************************************************************)
EmitItem == [what : Names, at : Nat, size : Nat, how : {"check", "pad", "align"}]

ShdrsSize == 64 * Len(shdrs)

\* An item of Emit is where sold.h says, and as large.
RightItem(it) ==
    /\ it.what = "init_array" => it.at = InitArrayOffset /\ it.size = InitArraySize
    /\ it.what = "fini_array" => it.at = FiniArrayOffset /\ it.size = FiniArraySize
    /\ it.what = "gnu_hash"   => it.at = GnuHashOffset /\ it.size = GnuHashSize
    /\ it.what = "symtab"     => it.at = SymtabOffset /\ it.size = SymtabSize
    /\ it.what = "versym"     => it.at = VersymOffset /\ it.size = VersymSize
    /\ it.what = "verneed"    => it.at = VerneedOffset /\ it.size = VerneedSize
    /\ it.what = "rel"        => it.at = RelOffset /\ it.size = RelSize
    /\ it.what = "strtab"     => it.at = StrtabOffset /\ it.size = strtab
    /\ it.what = "dynamic"    => it.at = DynamicOffset /\ it.size = DynamicSize
    /\ it.what = "shstrtab"   => it.at = ShstrtabOffset /\ it.size = ShstrtabSize
    /\ it.what = "shdrs"      => it.at = ShdrOffset /\ it.size = ShdrsSize

\* The items before the segments, those of the segments, and those after them.
HeadItems ==
    <<Item("phdrs", 64, 56 * EmittedPhdrs, "check"),
      Item("init_array", InitArrayOffset, 8 * Len(init_array), "pad"),
      Item("fini_array", FiniArrayOffset, 8 * Len(fini_array), "check"),
      Item("gnu_hash", GnuHashOffset, 28 + 4 * (nsyms - 1), "check"),
      Item("symtab", SymtabOffset, 24 * nsyms, "check"),
      Item("versym", VersymOffset, IF nverneed > 0 THEN 2 * nsyms ELSE 0, "check"),
      Item("verneed", VerneedOffset, 16 * (nverneed + nvernaux), "check"),
      Item("rel", RelOffset, 24 * Len(rels), "check"),
      Item("strtab", StrtabOffset, strtab, "check"),
      Item("dynamic", DynamicOffset, 16 * Len(dynamic), "check"),
      Item("shstrtab", ShstrtabOffset, ShstrtabSize, "check"),
      Item("code", CodeOffset, 0, "align")>>
LoadItems == [k \in DOMAIN loads |-> Item("load", loads[k].offset, loads[k].filesz, "pad")]
TailItems == <<Item("tls", tls_file_offset, filesz, "pad"),
               Item("ehframe", EHFrameOffset, 12 + 8 * Len(eh_table), "pad"),
               Item("mprotect", mprotect_file_offset, MprotectSize, "pad")>>
ShdrItems == IF SectionHeaders THEN <<Item("shdrs", ShdrOffset, 64 * Len(shdrs), "check")>> ELSE <<>>

LEMMA ItemsTyped ==
    ASSUME Typed
    PROVE  /\ HeadItems \in Seq(EmitItem) /\ LoadItems \in Seq(EmitItem)
           /\ TailItems \in Seq(EmitItem) /\ ShdrItems \in Seq(EmitItem)
           /\ Items = HeadItems \o LoadItems \o TailItems \o ShdrItems
           /\ Items \in Seq(EmitItem) /\ \A k \in 1..Len(Items) : RightItem(Items[k])
  <1> DEFINE Right == {it \in EmitItem : RightItem(it)}
  <1>0. /\ Len(init_array) \in Nat /\ Len(fini_array) \in Nat /\ Len(rels) \in Nat /\ Len(dynamic) \in Nat
        /\ Len(loads) \in Nat /\ Len(eh_table) \in Nat /\ Len(shdrs) \in Nat
        /\ nsyms \in Nat /\ nverneed \in Nat /\ nvernaux \in Nat /\ strtab \in Nat /\ filesz \in Nat
        /\ tls_file_offset \in Nat /\ mprotect_file_offset \in Nat /\ MprotectSize \in Nat
    BY LenProperties, SumsTyped DEF Typed, Tables, Counters
  <1>1. \A what \in Names, at \in Nat, size \in Nat, how \in {"check", "pad", "align"} :
          /\ Item(what, at, size, how) \in EmitItem /\ Item(what, at, size, how).what = what
          /\ Item(what, at, size, how).at = at /\ Item(what, at, size, how).size = size
    BY DEF Item, EmitItem
  <1>2. EmittedPhdrs \in Nat /\ 56 * EmittedPhdrs \in Nat
    <2>1. EmittedPhdrs \in Nat
      <3>1. (IF Executable THEN 2 ELSE 0) \in Nat /\ (IF memsz > 0 THEN 2 ELSE 0) \in Nat
        OBVIOUS
      <3>2. \A x, y, n \in Nat : x + 2 + n + y + 2 + 1 + 1 \in Nat
        OBVIOUS
      <3> QED BY <1>0, <3>1, <3>2, Zenon DEF EmittedPhdrs
    <2> QED BY <2>1
  <1>3. /\ 8 * Len(init_array) = InitArraySize /\ 8 * Len(fini_array) = FiniArraySize
        /\ 28 + 4 * (nsyms - 1) = GnuHashSize /\ 24 * nsyms = SymtabSize
        /\ (IF nverneed > 0 THEN 2 * nsyms ELSE 0) = VersymSize
        /\ 16 * (nverneed + nvernaux) = VerneedSize /\ 24 * Len(rels) = RelSize
        /\ 16 * Len(dynamic) = DynamicSize
    BY <1>0 DEF InitArraySize, FiniArraySize, GnuHashSize, SymtabSize, VersymSize, VerneedSize, RelSize,
                DynamicSize
  <1>a. \A at, size \in Nat, how \in {"check", "pad", "align"} :
          /\ \A what \in {"phdrs", "code", "load", "tls", "ehframe", "mprotect"} :
               Item(what, at, size, how) \in Right
          /\ at = InitArrayOffset /\ size = InitArraySize => Item("init_array", at, size, how) \in Right
          /\ at = FiniArrayOffset /\ size = FiniArraySize => Item("fini_array", at, size, how) \in Right
          /\ at = GnuHashOffset /\ size = GnuHashSize => Item("gnu_hash", at, size, how) \in Right
          /\ at = SymtabOffset /\ size = SymtabSize => Item("symtab", at, size, how) \in Right
          /\ at = VersymOffset /\ size = VersymSize => Item("versym", at, size, how) \in Right
          /\ at = VerneedOffset /\ size = VerneedSize => Item("verneed", at, size, how) \in Right
          /\ at = RelOffset /\ size = RelSize => Item("rel", at, size, how) \in Right
          /\ at = StrtabOffset /\ size = strtab => Item("strtab", at, size, how) \in Right
          /\ at = DynamicOffset /\ size = DynamicSize => Item("dynamic", at, size, how) \in Right
          /\ at = ShstrtabOffset /\ size = ShstrtabSize => Item("shstrtab", at, size, how) \in Right
          /\ at = ShdrOffset /\ size = ShdrsSize => Item("shdrs", at, size, how) \in Right
    BY <1>1, SMTT(40) DEF RightItem, Names
  <1> HIDE DEF Right
  <1>b. "check" \in {"check", "pad", "align"} /\ "pad" \in {"check", "pad", "align"}
        /\ "align" \in {"check", "pad", "align"}
    OBVIOUS
  <1>4. /\ Item("phdrs", 64, 56 * EmittedPhdrs, "check") \in Right
        /\ Item("init_array", InitArrayOffset, 8 * Len(init_array), "pad") \in Right
        /\ Item("fini_array", FiniArrayOffset, 8 * Len(fini_array), "check") \in Right
        /\ Item("gnu_hash", GnuHashOffset, 28 + 4 * (nsyms - 1), "check") \in Right
        /\ Item("symtab", SymtabOffset, 24 * nsyms, "check") \in Right
        /\ Item("versym", VersymOffset, IF nverneed > 0 THEN 2 * nsyms ELSE 0, "check") \in Right
        /\ Item("verneed", VerneedOffset, 16 * (nverneed + nvernaux), "check") \in Right
        /\ Item("rel", RelOffset, 24 * Len(rels), "check") \in Right
        /\ Item("strtab", StrtabOffset, strtab, "check") \in Right
        /\ Item("dynamic", DynamicOffset, 16 * Len(dynamic), "check") \in Right
        /\ Item("shstrtab", ShstrtabOffset, ShstrtabSize, "check") \in Right
        /\ Item("code", CodeOffset, 0, "align") \in Right
    <2>1. 64 \in Nat /\ 0 \in Nat /\ 56 * EmittedPhdrs \in Nat /\ strtab \in Nat
      BY <1>0, <1>2
    <2> QED BY <1>a, <1>b, <1>3, <2>1, HeadTyped, ZenonT(40)
  <1>5. /\ Item("tls", tls_file_offset, filesz, "pad") \in Right
        /\ Item("ehframe", EHFrameOffset, 12 + 8 * Len(eh_table), "pad") \in Right
        /\ Item("mprotect", mprotect_file_offset, MprotectSize, "pad") \in Right
        /\ Item("shdrs", ShdrOffset, 64 * Len(shdrs), "check") \in Right
    <2>1. 12 + 8 * Len(eh_table) \in Nat /\ 64 * Len(shdrs) \in Nat /\ 64 * Len(shdrs) = ShdrsSize
      BY <1>0 DEF ShdrsSize
    <2> QED BY <1>0, <1>a, <1>b, <2>1, HeadTyped
  <1>6. \A at, size \in Nat : Item("load", at, size, "pad") \in Right
    BY <1>a, <1>b
  <1>7. HeadItems \in Seq(Right)
    BY <1>4 DEF HeadItems
  <1>8. LoadItems \in Seq(Right)
    <2>1. DOMAIN loads = 1..Len(loads) /\ \A k \in 1..Len(loads) : loads[k] \in LoadSegment
      BY LenProperties, ElementOfSeq DEF Typed, Tables
    <2>2. \A k \in 1..Len(loads) : Item("load", loads[k].offset, loads[k].filesz, "pad") \in Right
      BY <1>6, <2>1 DEF LoadSegment
    <2> QED BY <1>0, <2>1, <2>2 DEF LoadItems
  <1>9. TailItems \in Seq(Right) /\ ShdrItems \in Seq(Right)
    BY <1>5 DEF TailItems, ShdrItems
  <1>10. Items = HeadItems \o LoadItems \o TailItems \o ShdrItems
    BY DEF Items, HeadItems, LoadItems, TailItems, ShdrItems
  <1>11. Items \in Seq(Right)
    BY <1>7, <1>8, <1>9, <1>10, ConcatProperties
  <1>12. Right \subseteq EmitItem /\ \A it \in Right : RightItem(it)
    BY DEF Right
  <1>13. \A k \in 1..Len(Items) : Items[k] \in Right
    BY <1>11, ElementOfSeq
  <1> QED BY <1>7, <1>8, <1>9, <1>10, <1>11, <1>12, <1>13, SeqMonotonic

\* Emit leaves alone what it writes.
LEMMA ItemsKept ==
    ASSUME Counters, Next, pc = 13
    PROVE  Items' = Items
  <1>1. /\ filed' = filed /\ eh_table' = eh_table /\ shdrs' = shdrs /\ filesz' = filesz
        /\ memsz' = memsz /\ nsyms' = nsyms /\ nverneed' = nverneed /\ nvernaux' = nvernaux
        /\ rels' = rels /\ strtab' = strtab /\ dynamic' = dynamic
        /\ init_array' = init_array /\ fini_array' = fini_array /\ bin' = bin /\ phdr' = phdr
    BY Frame, HeadDone
  <1>2. /\ loads' = loads /\ tls_file_offset' = tls_file_offset
        /\ mprotect_file_offset' = mprotect_file_offset
    BY <1>1 DEF filed
  <1>3. /\ InitArrayOffset' = InitArrayOffset /\ FiniArrayOffset' = FiniArrayOffset
        /\ GnuHashOffset' = GnuHashOffset /\ SymtabOffset' = SymtabOffset
        /\ VersymOffset' = VersymOffset /\ VerneedOffset' = VerneedOffset
        /\ RelOffset' = RelOffset /\ StrtabOffset' = StrtabOffset
    BY <1>1, HeadKept
  <1>4. DynamicOffset' = DynamicOffset /\ ShstrtabOffset' = ShstrtabOffset /\ CodeOffset' = CodeOffset
    BY <1>1, CodeKept
  <1>5. /\ MprotectSize' = MprotectSize /\ EHFrameOffset' = EHFrameOffset /\ ShdrOffset' = ShdrOffset
        /\ EmittedPhdrs' = EmittedPhdrs
    BY <1>1, <1>2, SumsKept DEF EHFrameOffset, ShdrOffset, EmittedPhdrs
  <1> QED BY <1>1, <1>2, <1>3, <1>4, <1>5 DEF Items, Item, ShstrtabSize

LEMMA EmittingStep ==
    ASSUME Typed, Emitting, Next
    PROVE  Emitting' /\ file' \in Seq(FileItem) /\ fpos' \in Nat
  <1>0. /\ pc \in 1..13 /\ pc' \in {0, pc, pc + 1} /\ Counters /\ file \in Seq(FileItem) /\ fpos \in Nat
        /\ pc # 13 => file' = file /\ fpos' = fpos
        /\ pos \in Nat \ {0} /\ Len(file) \in Nat
    BY Frame, LenProperties DEF Typed, Tables, Counters, out
  <1>1. CASE pc < 12 \/ (pc = 12 /\ pc' # 13)
    BY <1>0, <1>1 DEF Emitting
  <1>2. CASE pc = 12 /\ pc' = 13
    <2>1. pos' = 1 /\ file' = <<>>
      BY <1>0, <1>2, CallOf DEF BuildEhdr, Return, Emitting
    <2>2. Len(file') = 0
      BY <2>1
    <2> QED BY <1>0, <1>2, <2>1, <2>2 DEF Emitting
  <1>3. CASE pc = 13
    <2>0. /\ Emit /\ Items' = Items /\ Len(file) = pos - 1 /\ Items \in Seq(EmitItem)
          /\ Len(Items) \in Nat /\ Len(file) <= Len(Items)
          /\ \A k \in 1..Len(file) :
               file[k] = [what |-> Items[k].what, at |-> Items[k].at, size |-> Items[k].size]
      <3>1. Emit /\ Items' = Items /\ Items \in Seq(EmitItem) /\ Len(Items) \in Nat
        BY <1>0, <1>3, CallOf, ItemsKept, ItemsTyped, LenProperties
      <3>2. Len(file) <= Len(Items)
        BY <1>3, <3>1, EmptySeq DEF Emitting
      <3> QED BY <1>3, <3>1, <3>2 DEF Emitting
    <2>1. CASE pos > Len(Items)
      <3>1. file' = file /\ fpos' = fpos /\ pc' = 14
        BY <1>3, <2>0, <2>1 DEF Emit, Return, out
      <3>2. Len(file) = Len(Items)
        BY <1>0, <2>0, <2>1
      <3> QED BY <1>0, <2>0, <3>1, <3>2 DEF Emitting
    <2>2. CASE ~(pos > Len(Items)) /\ pc' = 0
      <3>1. file' = file /\ fpos' = fpos
        BY <1>0, <1>3, <2>0, <2>2 DEF Emit, Return, Proceed, out
      <3> QED BY <1>0, <2>2, <3>1 DEF Emitting
    <2>3. CASE ~(pos > Len(Items)) /\ pc' # 0
      <3> DEFINE it == Items[pos]
                 new == [what |-> it.what, at |-> it.at, size |-> it.size]
      <3>1. /\ file' = Append(file, new) /\ fpos' = it.at + it.size /\ pc' = 13 /\ pos' = pos + 1
        BY <1>3, <2>0, <2>3 DEF Emit, Proceed, Abort
      <3>2. it \in EmitItem
        BY <1>0, <2>0, <2>3, ElementOfSeq
      <3>3. new \in FileItem /\ it.at + it.size \in Nat /\ new.at = it.at /\ new.size = it.size
        BY <3>2 DEF EmitItem, FileItem
      <3> HIDE DEF new
      <3>4. /\ file' \in Seq(FileItem) /\ Len(file') = Len(file) + 1
            /\ \A k \in 1..Len(file) : file'[k] = file[k]
            /\ file'[Len(file) + 1] = new
        BY <1>0, <3>1, <3>3, AppendProperties
      <3>5. Len(file') = pos /\ pos <= Len(Items) /\ file'[pos] = new /\ pos' - 1 = pos
        BY <1>0, <2>0, <2>3, <3>1, <3>4
      <3>6. ASSUME NEW k \in 1..pos
            PROVE  file'[k] = [what |-> Items[k].what, at |-> Items[k].at, size |-> Items[k].size]
        <4>1. CASE k = pos
          BY <3>5, <4>1 DEF new
        <4>2. CASE k # pos
          <5>1. k \in 1..Len(file)
            BY <1>0, <2>0, <4>2
          <5> QED BY <2>0, <3>4, <5>1
        <4> QED BY <4>1, <4>2
      <3>7. fpos' = file'[Len(file')].at + file'[Len(file')].size
        BY <3>1, <3>3, <3>5
      <3> QED BY <2>0, <3>1, <3>3, <3>4, <3>5, <3>6, <3>7, SMTT(40) DEF Emitting
    <2> QED BY <2>1, <2>2, <2>3
  <1> QED BY <1>0, <1>1, <1>2, <1>3

-----------------------------------------------------------------------------
(***************************************************************************)
(* The invariant is kept, one part at a time.                              *)
(***************************************************************************)
LEMMA MovingStep ==
    ASSUME Typed, Moving, Next
    PROVE  Moving'
  <1>0. /\ pc \in 1..13 /\ pc' \in {0, pc, pc + 1} /\ \A b \in Bins : Movable(b)' = Movable(b)
        /\ pos \in Nat \ {0} /\ NBins \in Nat \ {0} /\ offsets \in Seq(Nat) /\ Len(offsets) \in Nat
    BY Frame, NBinsAssumption, LenProperties DEF Typed, Tables, Counters, Movable, RangeStart
  <1>1. CASE pc = 1
    <2>0. DecideMemOffset /\ pos <= NBins + 1 /\ Len(offsets) = pos - 1
          /\ \A b \in Bins : b < pos => Movable(b)
      BY <1>1, CallOf DEF Typed, Moving
    <2>1. CASE pos <= NBins
      <3>1. offsets' = Append(offsets, FreeFrom(pos - 1))
            /\ (pc' = 0 \/ (pc' = 1 /\ pos' = pos + 1 /\ Movable(pos)))
        BY <1>1, <2>0, <2>1 DEF DecideMemOffset, Proceed, Abort
      <3>2. Len(offsets') = pos
        <4>1. offsets' \in Seq(Nat)
          BY <1>1, <2>0, DecideMemOffsetTyped
        <4>2. Len(Append(offsets, FreeFrom(pos - 1))) = Len(offsets) + 1
          <5>1. FreeFrom(pos - 1) \in Nat
            <6>1. pos - 1 \in 0..NBins /\ (pos - 1 > 0 => pos - 1 \in 1..Len(offsets) /\ pos - 1 \in Bins /\ pos - 1 < pos)
              BY <1>0, <2>0 DEF Bins
            <6> QED BY <2>0, <6>1, FreeFromTyped
          <5> QED BY <1>0, <5>1, AppendProperties
        <4> QED BY <1>0, <2>0, <3>1, <4>2
      <3>3. \A b \in Bins : b < pos + 1 => b < pos \/ b = pos
        BY <1>0 DEF Bins
      <3>4. pos + 1 <= NBins + 1 /\ (pos + 1) - 1 = pos
        BY <1>0, <2>1
      <3> QED BY <1>0, <2>0, <3>1, <3>2, <3>3, <3>4 DEF Moving
    <2>2. CASE ~(pos <= NBins)
      <3>1. offsets' = offsets /\ pc' = 2
        BY <1>1, <2>0, <2>2 DEF DecideMemOffset, Return
      <3>2. Len(offsets) = NBins /\ \A b \in Bins : b < pos
        BY <1>0, <2>0, <2>2 DEF Bins
      <3> QED BY <1>0, <2>0, <3>1, <3>2 DEF Moving
    <2> QED BY <2>1, <2>2
  <1>2. CASE pc # 1
    <2>1. offsets' = offsets /\ Len(offsets) = NBins /\ \A b \in Bins : Movable(b)
      BY <1>0, <1>2, Frame DEF Typed, Moving, mem
    <2> QED BY <1>0, <1>2, <2>1 DEF Moving
  <1> QED BY <1>1, <1>2

LEMMA CollectingStep ==
    ASSUME Typed, Collecting, Next
    PROVE  Collecting'
  <1> DEFINE M == [b \in Bins |-> phdr[b].memsz]
             F == [b \in Bins |-> phdr[b].filesz]
             Entered(b) == \E k \in DOMAIN data : data[k].bin = b
  <1>0. /\ pc \in 1..13 /\ pc' \in {0, pc, pc + 1} /\ phdr' = phdr
        /\ pos \in Nat \ {0} /\ NBins \in Nat \ {0}
        /\ M \in [Bins -> Nat] /\ F \in [Bins -> Nat] /\ M' = M /\ F' = F
        /\ TLSMemSize' = TLSMemSize /\ TLSFileSize' = TLSFileSize
        /\ \A b \in Bins : HasTLS(b)' = HasTLS(b)
    BY Frame, NBinsAssumption, SumsTyped, SumsKept DEF Typed, Counters, HasTLS
  <1>1. CASE pc = 1
    <2>1. filesz' = 0 /\ memsz' = 0 /\ data' = <<>>
      BY <1>1, Frame DEF Typed, Collecting, tls_
    <2>2. pc' = 2 => pos' = 1
      BY <1>1, CallOf DEF Typed, DecideMemOffset, Return, Proceed, Abort
    <2>3. UpTo(M, 0, 0) /\ UpTo(F, 0, 0)
      BY <1>0, UpToEnds
    <2>4. \A b \in Bins : ~(b < 1)
      BY DEF Bins
    <2> QED BY <1>0, <1>1, <2>1, <2>2, <2>3, <2>4 DEF Collecting, UpTo
  <1>2. CASE pc = 2
    <2>0. /\ CollectTLS /\ pos <= NBins + 1 /\ UpTo(M, pos - 1, memsz) /\ UpTo(F, pos - 1, filesz)
          /\ \A b \in Bins : b < pos /\ HasTLS(b) => Entered(b)
      BY <1>2, CallOf DEF Typed, Collecting
    <2>1. /\ \A b \in Bins : Entered(b) => Entered(b)'
          /\ \A b \in Bins : b = pos /\ HasTLS(b) => Entered(b)'
      <3>1. \A k \in DOMAIN data : k \in DOMAIN data' /\ data'[k].bin = data[k].bin
        BY <1>2, <2>0, CollectTLSTyped
      <3>2. ASSUME NEW b \in Bins, b = pos, HasTLS(b) PROVE Entered(b)'
        <4>1. \E k \in DOMAIN data' : data'[k].bin = pos
          BY <1>2, <2>0, <3>2, CollectTLSTyped
        <4> QED BY <3>2, <4>1
      <3>3. ASSUME NEW b \in Bins, Entered(b) PROVE Entered(b)'
        <4>1. PICK k \in DOMAIN data : data[k].bin = b
          BY <3>3
        <4> QED BY <3>1, <4>1
      <3> QED BY <3>2, <3>3
    <2>2. CASE pos <= NBins
      <3>1. pos \in Bins /\ CollectTLSOf(pos) /\ pc' = 2 /\ pos' = pos + 1
        BY <1>0, <1>2, <2>0, <2>2 DEF CollectTLS, Proceed, Bins
      <3>2. memsz' = memsz + M[pos] /\ filesz' = filesz + F[pos]
        <4>1. CASE HasTLS(pos)
          BY <3>1, <4>1 DEF CollectTLSOf
        <4>2. CASE ~HasTLS(pos)
          <5>1. /\ phdr[pos].filesz = bin[pos].tls.filesz /\ phdr[pos].memsz = bin[pos].tls.memsz
                /\ bin[pos].tls.filesz <= bin[pos].tls.memsz
                /\ phdr[pos].memsz \in Nat /\ phdr[pos].filesz \in Nat
            BY <3>1, BinTyped DEF Typed
          <5>2. phdr[pos].memsz = 0 /\ phdr[pos].filesz = 0
            BY <4>2, <5>1 DEF HasTLS
          <5>3. memsz' = memsz /\ filesz' = filesz /\ memsz \in Nat /\ filesz \in Nat
            BY <3>1, <4>2 DEF CollectTLSOf, tls_, Typed, Counters
          <5> QED BY <3>1, <5>2, <5>3
        <4> QED BY <4>1, <4>2
      <3>3. UpTo(M, pos, memsz') /\ UpTo(F, pos, filesz')
        BY <1>0, <2>0, <3>1, <3>2, UpToStep
      <3>4. pos' - 1 = pos /\ pos' <= NBins + 1 /\ \A b \in Bins : b < pos' => b < pos \/ b = pos
        BY <1>0, <2>2, <3>1 DEF Bins
      <3>5. \A b \in Bins : b < pos' /\ HasTLS(b) => Entered(b)'
        <4>1. SUFFICES ASSUME NEW b \in Bins, b < pos', HasTLS(b) PROVE Entered(b)'
          OBVIOUS
        <4>2. CASE b = pos
          BY <2>1, <3>1, <4>1, <4>2
        <4>3. CASE b # pos
          <5>1. b < pos
            BY <3>4, <4>1, <4>3
          <5>2. Entered(b)
            BY <2>0, <4>1, <5>1
          <5> QED BY <2>1, <4>1, <5>2
        <4> QED BY <4>2, <4>3
      <3> QED BY <1>0, <3>1, <3>3, <3>4, <3>5 DEF Collecting, UpTo
    <2>3. CASE ~(pos <= NBins)
      <3>1. pos - 1 = NBins /\ \A b \in Bins : b < pos
        BY <1>0, <2>0, <2>3 DEF Bins
      <3>2. filesz = TLSFileSize
        <4>1. filesz = SumBins(F)
          BY <1>0, <2>0, <3>1, UpToEnds
        <4> QED BY <4>1 DEF TLSFileSize
      <3>3. pc' = 0 \/ (pc' = 3 /\ memsz = TLSMemSize /\ FinishTLS)
        BY <1>2, <2>0, <2>3 DEF CollectTLS, Return, Abort
      <3>4. FinishTLS => memsz' = memsz /\ filesz' = filesz
        BY DEF FinishTLS
      <3>5. \A b \in Bins : HasTLS(b) => Entered(b)'
        BY <2>0, <2>1, <3>1
      <3> QED BY <1>0, <3>2, <3>3, <3>4, <3>5 DEF Collecting
    <2> QED BY <2>2, <2>3
  <1>3. CASE pc > 2
    <2>1. memsz' = memsz /\ filesz' = filesz /\ data' = data
      BY <1>3, Frame DEF Typed, tls_, Counters
    <2> QED BY <1>0, <1>3, <2>1 DEF Collecting
  <1> QED BY <1>0, <1>1, <1>2, <1>3

LEMMA GatheringStep ==
    ASSUME Typed, Gathering, Next
    PROVE  Gathering'
  <1>0. /\ pc \in 1..13 /\ pc' \in {0, pc, pc + 1} /\ pos \in Nat \ {0} /\ NBins \in Nat \ {0}
    BY Frame, NBinsAssumption DEF Typed, Counters
  <1>1. CASE pc < 3
    <2>1. bin_to_init' = [b \in {} |-> 0] /\ bin_to_fini' = [b \in {} |-> 0]
      BY <1>0, <1>1, Frame DEF Typed, Gathering, arrays
    <2>2. pc = 2 /\ pc' = 3 => pos' = 1
      BY CallOf DEF Typed, CollectTLS, Return, Proceed, Abort
    <2>3. /\ {b \in Bins : b > NBins + 2 - 1} = {} /\ {b \in Bins : b < 1 - NBins - 1} = {}
          /\ 1 <= 2 * NBins + 1
      BY <1>0 DEF Bins
    <2> QED BY <1>0, <1>1, <2>1, <2>2, <2>3 DEF Gathering
  <1>2. CASE pc = 3
    <2>0. /\ CollectArrays /\ pos <= 2 * NBins + 1
          /\ DOMAIN bin_to_init = {b \in Bins : b > NBins + 2 - pos}
          /\ DOMAIN bin_to_fini = {b \in Bins : b < pos - NBins - 1} \ ExcludedFini
      BY <1>2, CallOf DEF Typed, Gathering
    <2>1. /\ DOMAIN bin_to_init' = DOMAIN bin_to_init \cup (IF pos \in 2..(NBins + 1) THEN {NBins + 2 - pos} ELSE {})
          /\ DOMAIN bin_to_fini' = DOMAIN bin_to_fini \cup (IF pos > NBins + 1 THEN {pos - NBins - 1} \ ExcludedFini ELSE {})
      BY <1>2, <2>0, CollectArraysTyped
    <2>2. /\ DOMAIN bin_to_init' = {b \in Bins : b > NBins + 2 - (pos + 1)}
          /\ DOMAIN bin_to_fini' = {b \in Bins : b < (pos + 1) - NBins - 1} \ ExcludedFini
      <3>1. CASE pos = 1
        BY <1>0, <2>0, <2>1, <3>1 DEF Bins
      <3>2. CASE pos \in 2..(NBins + 1)
        BY <1>0, <2>0, <2>1, <3>2 DEF Bins
      <3>3. CASE pos > NBins + 1
        BY <1>0, <2>0, <2>1, <3>3 DEF Bins
      <3> QED BY <1>0, <3>1, <3>2, <3>3
    <2>3. CASE pos = 2 * NBins + 1
      <3>1. pc' = 4
        BY <1>2, <2>0, <2>3 DEF CollectArrays, Return
      <3>2. /\ {b \in Bins : b > NBins + 2 - (pos + 1)} = Bins
            /\ {b \in Bins : b < (pos + 1) - NBins - 1} = Bins
        BY <1>0, <2>3 DEF Bins
      <3> QED BY <2>2, <3>1, <3>2 DEF Gathering
    <2>4. CASE pos # 2 * NBins + 1
      <3>1. pc' = 3 /\ pos' = pos + 1
        BY <1>2, <2>0, <2>4 DEF CollectArrays, Proceed
      <3>2. pos + 1 <= 2 * NBins + 1
        BY <1>0, <2>0, <2>4
      <3> QED BY <2>2, <3>1, <3>2 DEF Gathering
    <2> QED BY <2>3, <2>4
  <1>3. CASE pc > 3
    <2>1. bin_to_init' = bin_to_init /\ bin_to_fini' = bin_to_fini
      BY <1>0, <1>3, Frame DEF Typed, arrays
    <2> QED BY <1>0, <1>3, <2>1 DEF Gathering
  <1> QED BY <1>0, <1>1, <1>2, <1>3

LEMMA DynamicBuiltStep ==
    ASSUME Typed, DynamicBuilt, Next
    PROVE  DynamicBuilt'
  <1>0. pc \in 1..13 /\ pc' \in {0, pc, pc + 1} /\ Counters
    BY Frame DEF Typed
  <1>1. CASE pc < 8
    BY <1>0, <1>1 DEF DynamicBuilt
  <1>2. CASE pc = 8
    <2>1. \A k \in 1..Len(dynamic') : RightEntry(dynamic[k])'
      BY <1>0, <1>2, CallOf, Frame, BuildDynamicRecords
    <2> QED BY <2>1 DEF DynamicBuilt
  <1>3. CASE pc > 8
    <2>1. dynamic' = dynamic /\ strtab' = strtab
      BY <1>0, <1>3, HeadDone
    <2>2. /\ InitArrayOffset' = InitArrayOffset /\ InitArraySize' = InitArraySize
          /\ FiniArrayOffset' = FiniArrayOffset /\ FiniArraySize' = FiniArraySize
          /\ GnuHashOffset' = GnuHashOffset /\ SymtabOffset' = SymtabOffset
          /\ VersymOffset' = VersymOffset /\ VerneedOffset' = VerneedOffset
          /\ RelOffset' = RelOffset /\ RelSize' = RelSize /\ StrtabOffset' = StrtabOffset
      BY <1>0, <1>3, HeadDone, HeadKept
    <2>3. \A k \in 1..Len(dynamic) : RightEntry(dynamic[k])
      BY <1>3 DEF DynamicBuilt
    <2>4. \A k \in 1..Len(dynamic) : RightEntry(dynamic[k])'
      BY <2>1, <2>2, <2>3 DEF RightEntry
    <2> QED BY <2>1, <2>4 DEF DynamicBuilt
  <1> QED BY <1>0, <1>1, <1>2, <1>3

LEMMA TypedStep ==
    ASSUME LayoutInv, Next
    PROVE  Typed'
  <1>0. /\ Typed /\ Moving /\ Collecting /\ Gathering /\ Loading /\ Merging /\ Registering /\ Emitting
        /\ Inputs /\ Counters /\ Tables
    BY DEF LayoutInv, Typed
  <1>1. pc \in 1..13 /\ pc' \in {0, pc, pc + 1} /\ pos' \in Nat \ {0} /\ pc' \in 0..14
    BY <1>0, Frame
  <1>2. Inputs'
    BY <1>0, Frame DEF Inputs
  <1>3. /\ offsets' \in Seq(Nat) /\ tls_offset' \in Nat /\ ehframe_offset' \in Nat
        /\ mprotect_offset' \in Nat
    <2>1. CASE pc = 1
      BY <1>0, <2>1, CallOf, DecideMemOffsetTyped
    <2>2. CASE pc # 1
      BY <1>0, <2>2, Frame DEF Counters, Tables, mem
    <2> QED BY <2>1, <2>2
  <1>4. filesz' \in Nat /\ memsz' \in Nat /\ bss_offset' \in Nat /\ data' \in Seq(TLSEntry)
    <2>1. CASE pc = 2
      BY <1>0, <2>1, CallOf, CollectTLSTyped
    <2>2. CASE pc # 2
      BY <1>0, <2>2, Frame DEF Counters, Tables, tls_
    <2> QED BY <2>1, <2>2
  <1>5. /\ init_array' \in Seq(Slot) /\ fini_array' \in Seq(Slot)
        /\ DOMAIN bin_to_init' \subseteq Bins /\ bin_to_init' \in [DOMAIN bin_to_init' -> Nat]
        /\ DOMAIN bin_to_fini' \subseteq Bins /\ bin_to_fini' \in [DOMAIN bin_to_fini' -> Nat]
    <2>1. CASE pc = 3
      BY <1>0, <2>1, CallOf, CollectArraysTyped
    <2>2. CASE pc # 3
      BY <1>0, <2>2, Frame DEF Tables, arrays
    <2> QED BY <2>1, <2>2
  <1>6. rels' \in Seq(Relocation)
    <2>1. CASE pc = 4
      BY <1>0, <2>1, CallOf, RelocateTyped
    <2>2. CASE pc = 7
      BY <1>0, <2>2, CallOf, BuildSizesTyped
    <2>3. CASE pc \notin {4, 7}
      BY <1>0, <2>3, Frame DEF Tables
    <2> QED BY <2>1, <2>2, <2>3
  <1>7. nsyms' \in Nat /\ nverneed' \in Nat /\ nvernaux' \in Nat
    <2>1. CASE pc = 5
      BY <1>0, <2>1, CallOf, BuildSizesTyped
    <2>2. CASE pc # 5
      BY <1>0, <2>2, Frame DEF Counters
    <2> QED BY <2>1, <2>2
  <1>8. dynamic' \in Seq(DynEntry) /\ (pc = 8 => strtab' \in Nat)
    <2>1. CASE pc = 8
      BY <1>0, <2>1, CallOf, Frame, BuildDynamicRecords
    <2>2. CASE pc # 8
      BY <1>0, <2>2, Frame DEF Tables
    <2> QED BY <2>1, <2>2
  <1>9. strtab' \in Nat
    <2>1. CASE pc \in {5, 6, 8}
      BY <1>0, <1>8, <2>1, CallOf, BuildSizesTyped
    <2>2. CASE pc \notin {5, 6, 8}
      BY <1>0, <2>2, Frame DEF Counters
    <2> QED BY <2>1, <2>2
  <1>10. /\ loads' \in Seq(LoadSegment) /\ tls_file_offset' \in Nat
         /\ ehframe_file_offset' \in Nat /\ mprotect_file_offset' \in Nat
    <2>1. CASE pc = 9
      BY <1>0, <2>1, CallOf, BuildLoadsTyped
    <2>2. CASE pc # 9
      BY <1>0, <2>2, Frame DEF Counters, Tables, filed
    <2> QED BY <2>1, <2>2
  <1>11. eh_table' \in Seq(Int)
    BY <1>0, MergingStep
  <1>12. shdrs' \in Seq(SecHeader)
    BY <1>0, RegisteringStep
  <1>13. file' \in Seq(FileItem) /\ fpos' \in Nat
    BY <1>0, EmittingStep
  <1>14. Counters'
    BY <1>1, <1>3, <1>4, <1>7, <1>9, <1>10, <1>13 DEF Counters
  <1>15. Tables'
    BY <1>3, <1>4, <1>5, <1>6, <1>8, <1>10, <1>11, <1>12, <1>13 DEF Tables
  <1> QED BY <1>2, <1>14, <1>15 DEF Typed

LEMMA LayoutInit ==
    ASSUME Init
    PROVE  LayoutInv
  <1>1. /\ pc = 1 /\ pos = 1 /\ offsets = <<>> /\ tls_offset = 0 /\ ehframe_offset = 0
        /\ mprotect_offset = 0 /\ init_array = <<>> /\ fini_array = <<>>
        /\ bin_to_init = [b \in {} |-> 0] /\ bin_to_fini = [b \in {} |-> 0]
        /\ rels = <<>> /\ dynamic = <<>> /\ loads = <<>> /\ eh_table = <<>> /\ shdrs = <<>>
        /\ nsyms = 0 /\ nverneed = 0 /\ nvernaux = 0 /\ strtab = 0
        /\ tls_file_offset = 0 /\ ehframe_file_offset = 0 /\ mprotect_file_offset = 0
        /\ file = <<>> /\ fpos = 0
        /\ data = <<>> /\ filesz = 0 /\ memsz = 0 /\ bss_offset = 0
    BY DEF Init, InitTLS
  <1>2. Inputs
    BY DEF Init, Inputs
  <1>3. Counters
    BY <1>1 DEF Counters
  <1>4. Tables
    BY <1>1 DEF Tables
  <1>5. Moving
    <2>1. \A b \in Bins : ~(b < 1)
      BY DEF Bins
    <2> QED BY <1>1, <2>1, NBinsAssumption DEF Moving
  <1>6. Collecting /\ Gathering /\ DynamicBuilt
    BY <1>1 DEF Collecting, Gathering, DynamicBuilt
  <1>7. Loading /\ Merging /\ Registering /\ Emitting
    BY <1>1 DEF Loading, Merging, Registering, Emitting
  <1> QED BY <1>2, <1>3, <1>4, <1>5, <1>6, <1>7 DEF LayoutInv, Typed

LEMMA LayoutStep ==
    ASSUME LayoutInv, [Next]_vars
    PROVE  LayoutInv'
  <1>1. CASE Next
    <2>1. /\ Typed /\ Moving /\ Collecting /\ Gathering /\ DynamicBuilt /\ Loading /\ Merging
          /\ Registering /\ Emitting
      BY DEF LayoutInv
    <2>2. Typed'
      BY <1>1, TypedStep
    <2>3. Moving' /\ Collecting' /\ Gathering' /\ DynamicBuilt'
      BY <1>1, <2>1, MovingStep, CollectingStep, GatheringStep, DynamicBuiltStep
    <2>4. Loading' /\ Merging' /\ Registering' /\ Emitting'
      BY <1>1, <2>1, LoadingStep, MergingStep, RegisteringStep, EmittingStep
    <2> QED BY <2>2, <2>3, <2>4 DEF LayoutInv
  <1>2. CASE UNCHANGED vars
    <2>1. /\ bin' = bin /\ phdr' = phdr /\ pc' = pc /\ pos' = pos /\ mem' = mem /\ tls_' = tls_
          /\ arrays' = arrays /\ rels' = rels /\ sizes' = sizes /\ dynamic' = dynamic /\ filed' = filed
          /\ eh_table' = eh_table /\ shdrs' = shdrs /\ ehdr' = ehdr /\ out' = out
      BY <1>2 DEF vars
    <2>2. /\ offsets' = offsets /\ tls_offset' = tls_offset /\ ehframe_offset' = ehframe_offset
          /\ mprotect_offset' = mprotect_offset
          /\ data' = data /\ filesz' = filesz /\ memsz' = memsz /\ bss_offset' = bss_offset
          /\ init_array' = init_array /\ fini_array' = fini_array
          /\ bin_to_init' = bin_to_init /\ bin_to_fini' = bin_to_fini
          /\ nsyms' = nsyms /\ nverneed' = nverneed /\ nvernaux' = nvernaux /\ strtab' = strtab
          /\ loads' = loads /\ tls_file_offset' = tls_file_offset
          /\ ehframe_file_offset' = ehframe_file_offset /\ mprotect_file_offset' = mprotect_file_offset
          /\ file' = file /\ fpos' = fpos
      BY <2>1 DEF mem, tls_, arrays, sizes, filed, out
    <2>3. /\ InitArrayOffset' = InitArrayOffset /\ InitArraySize' = InitArraySize
          /\ FiniArrayOffset' = FiniArrayOffset /\ FiniArraySize' = FiniArraySize
          /\ GnuHashOffset' = GnuHashOffset /\ GnuHashSize' = GnuHashSize
          /\ SymtabOffset' = SymtabOffset /\ SymtabSize' = SymtabSize
          /\ VersymOffset' = VersymOffset /\ VersymSize' = VersymSize
          /\ VerneedOffset' = VerneedOffset /\ VerneedSize' = VerneedSize
          /\ RelOffset' = RelOffset /\ RelSize' = RelSize /\ StrtabOffset' = StrtabOffset
          /\ DynamicOffset' = DynamicOffset /\ DynamicSize' = DynamicSize
          /\ ShstrtabOffset' = ShstrtabOffset /\ CodeOffset' = CodeOffset
      BY <2>1, <2>2, HeadKept, CodeKept
    <2>4. /\ TLSMemSize' = TLSMemSize /\ TLSFileSize' = TLSFileSize
          /\ EHFrameSize' = EHFrameSize /\ MprotectSize' = MprotectSize
          /\ AllLoads' = AllLoads /\ FDECount' = FDECount
      BY <2>1, SumsKept
    <2>5. /\ ShdrOffset' = ShdrOffset /\ EHFrameOffset' = EHFrameOffset /\ FileFree' = FileFree
          /\ EmittedPhdrs' = EmittedPhdrs
      BY <2>2, <2>3, <2>4 DEF ShdrOffset, EHFrameOffset, FileFree, EmittedPhdrs
    <2>6. Typed'
      BY <2>1, <2>2 DEF LayoutInv, Typed, Inputs, Counters, Tables
    <2>7. Moving' /\ Collecting' /\ Gathering'
      BY <2>1, <2>2, <2>4 DEF LayoutInv, Moving, Movable, RangeStart, Collecting, UpTo, HasTLS, Gathering
    <2>8. DynamicBuilt'
      BY <2>1, <2>2, <2>3 DEF LayoutInv, DynamicBuilt, RightEntry
    <2>9. Loading' /\ Merging'
      BY <2>1, <2>2, <2>3, <2>4, <2>5 DEF LayoutInv, Loading, FreeAt, Merging, UpTo
    <2>10. Registering'
      <3>1. Registered' = Registered
        BY <2>1, <2>2, <2>3 DEF Registered, Shdr, ShstrtabSize
      <3> QED BY <2>1, <2>5, <3>1 DEF LayoutInv, Registering, LinkedShdrs, GetIndex
    <2>11. Emitting'
      <3>1. Items' = Items
        BY <2>1, <2>2, <2>3, <2>4, <2>5 DEF Items, Item, ShstrtabSize
      <3> QED BY <2>1, <2>2, <3>1 DEF LayoutInv, Emitting
    <2> QED BY <2>6, <2>7, <2>8, <2>9, <2>10, <2>11 DEF LayoutInv
  <1> QED BY <1>1, <1>2

LEMMA LayoutInvariant == Spec => []LayoutInv
  <1>1. Init => LayoutInv
    BY LayoutInit
  <1>2. LayoutInv /\ [Next]_vars => LayoutInv'
    BY LayoutStep
  <1> QED BY <1>1, <1>2, PTL DEF Spec

-----------------------------------------------------------------------------
(***************************************************************************)
(* The theorems.                                                           *)
(***************************************************************************)
\* Every table and counter of Sold and its builders has its type at every step
\* of Link, and no offset is taken of a binary that has none.
THEOREM LayoutTypeCorrect == Spec => []TypeOK
  <1>1. LayoutInv => TypeOK
    <2> SUFFICES ASSUME LayoutInv PROVE TypeOK
      OBVIOUS
    <2>1. Counters /\ Tables
      BY DEF LayoutInv, Typed
    <2>2. Len(Calls) = 14
      BY DEF Calls
    <2>3. \A r \in Range(rels) : r.at \in Nat
      <3>1. \A k \in DOMAIN rels : rels[k] \in Relocation
        BY <2>1, LenProperties, ElementOfSeq DEF Tables
      <3> QED BY <3>1 DEF Range, Relocation
    <2>4. \A l \in Range(loads) : l.bin \in Bins /\ l.offset \in Nat /\ l.vaddr \in Nat
      <3>1. \A k \in DOMAIN loads : loads[k] \in LoadSegment
        BY <2>1, LenProperties, ElementOfSeq DEF Tables
      <3> QED BY <3>1 DEF Range, LoadSegment
    <2>5. {tls_offset, ehframe_offset, mprotect_offset, nsyms, nverneed, nvernaux, strtab, fpos,
           filesz, memsz, bss_offset} \subseteq Nat
      BY <2>1 DEF Counters
    <2>6. /\ pc \in 0..14 /\ pos \in Nat /\ offsets \in Seq(Nat) /\ eh_table \in Seq(Int)
          /\ init_array \in Seq(Slot) /\ fini_array \in Seq(Slot)
          /\ DOMAIN bin_to_init \subseteq Bins /\ DOMAIN bin_to_fini \subseteq Bins
      BY <2>1 DEF Counters, Tables
    <2> QED BY <2>2, <2>3, <2>4, <2>5, <2>6 DEF TypeOK
  <1> QED BY <1>1, LayoutInvariant, PTL

\* What a section header says is what sold.h computes.
RightHeader(h) ==
    /\ h.type = "init_array" => h.offset = InitArrayOffset /\ h.size = InitArraySize
    /\ h.type = "fini_array" => h.offset = FiniArrayOffset /\ h.size = FiniArraySize
    /\ h.type = "gnu_hash"   => h.offset = GnuHashOffset /\ h.size = GnuHashSize
    /\ h.type = "symtab"     => h.offset = SymtabOffset /\ h.size = SymtabSize
    /\ h.type = "versym"     => h.offset = VersymOffset /\ h.size = VersymSize
    /\ h.type = "verneed"    => h.offset = VerneedOffset /\ h.size = VerneedSize
    /\ h.type = "rel"        => h.offset = RelOffset /\ h.size = RelSize
    /\ h.type = "strtab"     => h.offset = StrtabOffset /\ h.size = strtab
    /\ h.type = "dynamic"    => h.offset = DynamicOffset /\ h.size = DynamicSize
    /\ h.type = "shstrtab"   => h.offset = ShstrtabOffset /\ h.size = ShstrtabSize

LEMMA HeadersRight ==
    ASSUME Typed, NEW k \in 1..Len(Registered)
    PROVE  RightHeader(Registered[k])
  <1>1. \A type, o, n : /\ Shdr(type, o, n).type = type /\ Shdr(type, o, n).offset = o
                        /\ Shdr(type, o, n).size = n
    BY DEF Shdr
  <1>2. /\ RightHeader(Shdr("null", 0, 0)) /\ RightHeader(Shdr("gnu_hash", GnuHashOffset, GnuHashSize))
        /\ RightHeader(Shdr("symtab", SymtabOffset, SymtabSize))
        /\ RightHeader(Shdr("versym", VersymOffset, VersymSize))
        /\ RightHeader(Shdr("verneed", VerneedOffset, VerneedSize))
        /\ RightHeader(Shdr("rel", RelOffset, RelSize))
        /\ RightHeader(Shdr("init_array", InitArrayOffset, InitArraySize))
        /\ RightHeader(Shdr("fini_array", FiniArrayOffset, FiniArraySize))
        /\ RightHeader(Shdr("strtab", StrtabOffset, strtab))
        /\ RightHeader(Shdr("dynamic", DynamicOffset, DynamicSize))
        /\ RightHeader(Shdr("shstrtab", ShstrtabOffset, ShstrtabSize))
    BY <1>1, SMTT(40) DEF RightHeader
  <1>3. Len(Registered) = 9 + Versions /\ Versions \in {0, 2} /\ (Versions = 2 => nverneed > 0)
    BY RegisteredTypes DEF Versions
  <1>4. CASE Versions = 0
    <2>1. k \in {1, 2, 3, 4, 5, 6, 7, 8, 9}
      BY <1>3, <1>4
    <2> QED BY <1>2, <1>4, <2>1, RegisteredAt
  <1>5. CASE Versions = 2
    <2>1. k \in {1, 2, 3, 4, 5, 6, 7, 8, 9, 10, 11}
      BY <1>3, <1>5
    <2> QED BY <1>2, <1>3, <1>5, <2>1, RegisteredAt
  <1> QED BY <1>3, <1>4, <1>5

\* What Emit has written in the end is where sold.h says, and as large.
LEMMA WrittenRight ==
    ASSUME Typed, Emitting, pc = 14
    PROVE  \A w \in Range(file) : w \in FileItem /\ RightItem(w)
  <1>1. SUFFICES ASSUME NEW k \in DOMAIN file PROVE file[k] \in FileItem /\ RightItem(file[k])
    BY DEF Range
  <1>2. k \in 1..Len(file) /\ file[k] \in FileItem
    BY LenProperties, ElementOfSeq DEF Typed, Tables
  <1>3. /\ Len(file) = Len(Items)
        /\ file[k] = [what |-> Items[k].what, at |-> Items[k].at, size |-> Items[k].size]
    <2>1. pc = 14 /\ pc \in 13..14
      OBVIOUS
    <2> QED BY <1>2, <2>1, Zenon DEF Emitting
  <1>4. RightItem(Items[k])
    BY <1>2, <1>3, ItemsTyped
  <1> QED BY <1>2, <1>3, <1>4 DEF RightItem

\* Whatever the inputs: the offsets and sizes that the dynamic section and the
\* section headers recorded while the output was growing are those at which
\* Emit wrote the sections (the "cur" offsets of sold.h are functions of sizes
\* that change between BuildDynamic, RegisterShdr and Emit).
THEOREM RecordedIsWrittenHolds == Spec => []RecordedIsWritten
  <1>1. LayoutInv => RecordedIsWritten
    <2> SUFFICES ASSUME LayoutInv, Done PROVE RecordedIsWritten
      BY DEF RecordedIsWritten
    <2>0. /\ Typed /\ DynamicBuilt /\ Registering /\ Emitting /\ Counters /\ Tables
          /\ pc = 14
      BY CallNumbers DEF LayoutInv, Typed, Counters
    <2>1. \A w \in Range(file) : w \in FileItem /\ RightItem(w)
      BY <2>0, WrittenRight
    <2>2. \A d \in Range(dynamic) : d \in DynEntry /\ RightEntry(d)
      <3>1. \A k \in DOMAIN dynamic : k \in 1..Len(dynamic) /\ dynamic[k] \in DynEntry
        BY <2>0, LenProperties, ElementOfSeq DEF Tables
      <3> QED BY <2>0, <3>1 DEF Range, DynamicBuilt
    <2>3. \A h \in Range(shdrs) : h \in SecHeader /\ RightHeader(h)
      <3>1. SUFFICES ASSUME NEW k \in DOMAIN shdrs PROVE shdrs[k] \in SecHeader /\ RightHeader(shdrs[k])
        BY DEF Range
      <3>2. shdrs = LinkedShdrs /\ DOMAIN shdrs = DOMAIN Registered /\ shdrs[k] \in SecHeader
        BY <2>0, LenProperties, ElementOfSeq DEF Registering, LinkedShdrs, Tables
      <3>3. /\ k \in 1..Len(Registered) /\ Registered[k] \in SecHeader
            /\ shdrs[k] = [Registered[k] EXCEPT !.link = GetIndex(LinkedTo(Registered[k].type))]
        BY <2>0, <3>1, <3>2, RegisteredAt, LenProperties, ElementOfSeq DEF LinkedShdrs
      <3>4. /\ shdrs[k].type = Registered[k].type /\ shdrs[k].offset = Registered[k].offset
            /\ shdrs[k].size = Registered[k].size
        BY <3>3 DEF SecHeader
      <3>5. RightHeader(Registered[k])
        BY <2>0, <3>3, HeadersRight
      <3> QED BY <3>2, <3>4, <3>5 DEF RightHeader
    <2>4. \A d \in Range(dynamic) : \A w \in Written(d.tag) : d.val = w.at
      <3>1. SUFFICES ASSUME NEW d \in Range(dynamic), NEW w \in Range(file), w.what = d.tag
                     PROVE  d.val = w.at
        BY DEF Written
      <3>2. d.tag \in Tags /\ w.what \in Names /\ RightEntry(d) /\ RightItem(w)
        BY <2>1, <2>2 DEF DynEntry, FileItem
      <3>3. d.tag \in {"init_array", "fini_array", "gnu_hash", "strtab", "symtab", "versym", "verneed", "rel"}
        BY <3>1, <3>2 DEF Tags, Names
      <3> QED BY <3>1, <3>2, <3>3 DEF RightEntry, RightItem
    <2>5. \A d \in Range(dynamic) :
             CASE d.tag = "init_arraysz" -> \A w \in Written("init_array") : d.val = w.size
               [] d.tag = "fini_arraysz" -> \A w \in Written("fini_array") : d.val = w.size
               [] d.tag = "relasz"       -> \A w \in Written("rel") : d.val = w.size
               [] d.tag = "strsz"        -> \A w \in Written("strtab") : d.val = w.size
               [] OTHER                  -> TRUE
      <3>1. SUFFICES ASSUME NEW d \in Range(dynamic)
                     PROVE  /\ d.tag = "init_arraysz" => \A w \in Written("init_array") : d.val = w.size
                            /\ d.tag = "fini_arraysz" => \A w \in Written("fini_array") : d.val = w.size
                            /\ d.tag = "relasz" => \A w \in Written("rel") : d.val = w.size
                            /\ d.tag = "strsz" => \A w \in Written("strtab") : d.val = w.size
        OBVIOUS
      <3>2. RightEntry(d)
        BY <2>2
      <3> QED BY <2>1, <3>2 DEF RightEntry, RightItem, Written
    <2>6. \A h \in Range(shdrs) : \A w \in Written(h.type) : h.offset = w.at /\ h.size = w.size
      <3>1. SUFFICES ASSUME NEW h \in Range(shdrs), NEW w \in Range(file), w.what = h.type
                     PROVE  h.offset = w.at /\ h.size = w.size
        BY DEF Written
      <3>2. h.type \in Sections /\ w.what \in Names /\ RightHeader(h) /\ RightItem(w)
        BY <2>1, <2>3 DEF SecHeader, FileItem
      <3>3. h.type # "null"
        BY <3>1, <3>2 DEF Names
      <3> QED BY <3>1, <3>2, <3>3 DEF RightHeader, RightItem, Sections
    <2> QED BY <2>4, <2>5, <2>6 DEF RecordedIsWritten
  <1> QED BY <1>1, LayoutInvariant, PTL

-----------------------------------------------------------------------------
(***************************************************************************)
(* Every item of Emit fits behind its predecessor.                         *)
(***************************************************************************)
Shifted == IF SectionHeaders THEN 1 ELSE 0

LEMMA ItemsAt ==
    ASSUME Typed
    PROVE  /\ Len(loads) \in Nat /\ Shifted \in {0, 1} /\ Len(Items) = 12 + Len(loads) + 3 + Shifted
           /\ \A i \in 1..12 : Items[i] = HeadItems[i]
           /\ \A i \in 1..Len(loads) : Items[12 + i] = LoadItems[i]
           /\ \A i \in 1..3 : Items[12 + Len(loads) + i] = TailItems[i]
           /\ Shifted = 1 => Items[12 + Len(loads) + 3 + 1] = ShdrItems[1]
  <1> DEFINE L == Len(loads)
             A == HeadItems \o LoadItems
             B == A \o TailItems
  <1>1. L \in Nat /\ Shifted \in {0, 1} /\ Shifted \in Nat
    BY LenProperties DEF Typed, Tables, Shifted
  <1>2. /\ HeadItems \in Seq(EmitItem) /\ LoadItems \in Seq(EmitItem)
        /\ TailItems \in Seq(EmitItem) /\ ShdrItems \in Seq(EmitItem)
        /\ Items = B \o ShdrItems
    BY ItemsTyped
  <1>3. Len(HeadItems) = 12
    BY DEF HeadItems
  <1>4. Len(LoadItems) = L
    BY <1>1 DEF LoadItems
  <1>5. Len(TailItems) = 3
    BY DEF TailItems
  <1>6. Len(ShdrItems) = Shifted
    BY DEF ShdrItems, Shifted
  <1>7. A \in Seq(EmitItem) /\ Places(HeadItems, LoadItems)
    BY <1>2, ConcatPlaces
  <1>8. B \in Seq(EmitItem) /\ Places(A, TailItems)
    BY <1>2, <1>7, ConcatPlaces
  <1>9. Places(B, ShdrItems)
    BY <1>2, <1>8, ConcatPlaces
  <1> HIDE DEF L, A, B
  <1>10. /\ Len(A) = 12 + L /\ \A i \in 1..12 : A[i] = HeadItems[i]
         /\ \A i \in 1..L : A[12 + i] = LoadItems[i]
    BY <1>3, <1>4, <1>7 DEF Places, A
  <1>11. /\ Len(B) = (12 + L) + 3 /\ \A i \in 1..(12 + L) : B[i] = A[i]
         /\ \A i \in 1..3 : B[(12 + L) + i] = TailItems[i]
    BY <1>5, <1>8, <1>10 DEF Places, B
  <1>12. /\ Len(Items) = ((12 + L) + 3) + Shifted /\ \A i \in 1..((12 + L) + 3) : Items[i] = B[i]
         /\ \A i \in 1..Shifted : Items[((12 + L) + 3) + i] = ShdrItems[i]
    BY <1>2, <1>6, <1>9, <1>11 DEF Places
  <1>13. /\ \A i \in 1..12 : i \in 1..(12 + L) /\ i \in 1..((12 + L) + 3)
         /\ \A i \in 1..L : 12 + i \in 1..(12 + L) /\ 12 + i \in 1..((12 + L) + 3)
         /\ \A i \in 1..3 : (12 + L) + i \in 1..((12 + L) + 3)
         /\ Shifted = 1 => 1 \in 1..Shifted
    BY <1>1
  <1>14. \A i \in 1..12 : Items[i] = HeadItems[i]
    BY <1>10, <1>11, <1>12, <1>13
  <1>15. \A i \in 1..L : Items[12 + i] = LoadItems[i]
    BY <1>10, <1>11, <1>12, <1>13
  <1>16. \A i \in 1..3 : Items[(12 + L) + i] = TailItems[i]
    BY <1>11, <1>12, <1>13
  <1>17. Shifted = 1 => Items[((12 + L) + 3) + 1] = ShdrItems[1]
    BY <1>12, <1>13
  <1> QED BY <1>1, <1>12, <1>14, <1>15, <1>16, <1>17 DEF L

\* Where an item ends, and whether the next one may be put behind that.
EndOf(it)   == it.at + it.size
Fits(n, it) == /\ it.how = "check" => n = it.at
               /\ it.how = "pad"   => n <= it.at
               /\ it.how = "align" => AlignNext(n, Page) = it.at

\* CountPhdrs counted at the beginning what EmitPhdrs emits at the end.
LEMMA PhdrsCounted ==
    ASSUME Typed, Loading, pc = 13
    PROVE  EmittedPhdrs = CountPhdrs
  <1> DEFINE items == [b \in Bins |-> bin[b].loads]
             n == [b \in Bins |-> Len(items[b])]
  <1>1. items \in [Bins -> Seq(Extent)] /\ n \in [Bins -> Nat] /\ n = [b \in Bins |-> Len(bin[b].loads)]
    BY BinTyped, SumsTyped DEF Typed
  <1>2. NBins \in Nat /\ n \in [1..NBins -> Int] /\ n \in [Bins -> Int]
    BY <1>1, NBinsAssumption DEF Bins
  <1>3. PICK s : RunningSum(NBins, s, n)
    BY <1>2, RunningSumExists
  <1>4. Len(AllLoads) = s[NBins]
    <2>1. AllLoads = Joined(items)
      BY DEF AllLoads
    <2> HIDE DEF items
    <2>2. Len(Joined(items)) = s[NBins]
      BY <1>1, <1>3, JoinedPlaces
    <2> QED BY <2>1, <2>2
  <1>5. SumBins(n) = s[NBins]
    BY <1>2, <1>3, SumsUp
  <1>6. Len(loads) = Len(AllLoads)
    BY DEF Loading
  <1>7. Len(loads) = SumBins([b \in Bins |-> Len(bin[b].loads)]) /\ Len(loads) \in Nat
    BY <1>1, <1>4, <1>5, <1>6, LenProperties DEF Typed, Tables
  <1> HIDE DEF items, n
  <1>8. \A x, y, z \in Nat : x + 2 + z + y + 2 + 1 + 1 = 6 + x + y + z
    OBVIOUS
  <1>9. (IF Executable THEN 2 ELSE 0) \in Nat /\ (IF memsz > 0 THEN 2 ELSE 0) \in Nat
    OBVIOUS
  <1>10. EmittedPhdrs = 6 + (IF Executable THEN 2 ELSE 0) + (IF memsz > 0 THEN 2 ELSE 0) + Len(loads)
    BY <1>7, <1>8, <1>9, ZenonT(40) DEF EmittedPhdrs
  <1> QED BY <1>7, <1>10 DEF CountPhdrs

\* The head of the file.
LEMMA HeadFollows ==
    ASSUME Typed, Loading, pc = 13
    PROVE  /\ HeadItems[1].how = "check" /\ HeadItems[1].at = 64
           /\ \A i \in 2..12 : Fits(EndOf(HeadItems[i - 1]), HeadItems[i])
           /\ EndOf(HeadItems[12]) = CodeOffset
  <1> DEFINE H == HeadItems
  <1>1. /\ H[1].at = 64 /\ H[1].size = 56 * EmittedPhdrs /\ H[1].how = "check"
        /\ H[2].at = InitArrayOffset /\ H[2].size = 8 * Len(init_array) /\ H[2].how = "pad"
        /\ H[3].at = FiniArrayOffset /\ H[3].size = 8 * Len(fini_array) /\ H[3].how = "check"
        /\ H[4].at = GnuHashOffset /\ H[4].size = 28 + 4 * (nsyms - 1) /\ H[4].how = "check"
        /\ H[5].at = SymtabOffset /\ H[5].size = 24 * nsyms /\ H[5].how = "check"
        /\ H[6].at = VersymOffset /\ H[6].size = (IF nverneed > 0 THEN 2 * nsyms ELSE 0)
        /\ H[6].how = "check"
        /\ H[7].at = VerneedOffset /\ H[7].size = 16 * (nverneed + nvernaux) /\ H[7].how = "check"
        /\ H[8].at = RelOffset /\ H[8].size = 24 * Len(rels) /\ H[8].how = "check"
        /\ H[9].at = StrtabOffset /\ H[9].size = strtab /\ H[9].how = "check"
        /\ H[10].at = DynamicOffset /\ H[10].size = 16 * Len(dynamic) /\ H[10].how = "check"
        /\ H[11].at = ShstrtabOffset /\ H[11].size = ShstrtabSize /\ H[11].how = "check"
        /\ H[12].at = CodeOffset /\ H[12].size = 0 /\ H[12].how = "align"
    BY DEF HeadItems, Item
  <1> HIDE DEF H
  <1>2. /\ Len(init_array) \in Nat /\ Len(fini_array) \in Nat /\ Len(rels) \in Nat /\ Len(dynamic) \in Nat
        /\ nsyms \in Nat /\ nverneed \in Nat /\ nvernaux \in Nat /\ CountPhdrs \in Nat
    BY LenProperties, SumsTyped DEF Typed, Tables, Counters
  <1>3. 64 + 56 * EmittedPhdrs <= InitArrayOffset
    <2>1. 64 + 56 * CountPhdrs \in Nat
      BY <1>2
    <2> QED BY <2>1, WordAlign, PhdrsCounted DEF InitArrayOffset
  <1>4. /\ 8 * Len(init_array) = InitArraySize /\ 8 * Len(fini_array) = FiniArraySize
        /\ 28 + 4 * (nsyms - 1) = GnuHashSize /\ 24 * nsyms = SymtabSize
        /\ (IF nverneed > 0 THEN 2 * nsyms ELSE 0) = VersymSize
        /\ 16 * (nverneed + nvernaux) = VerneedSize /\ 24 * Len(rels) = RelSize
        /\ 16 * Len(dynamic) = DynamicSize
    BY <1>2 DEF InitArraySize, FiniArraySize, GnuHashSize, SymtabSize, VersymSize, VerneedSize, RelSize,
                DynamicSize
  <1>5. /\ FiniArrayOffset = InitArrayOffset + InitArraySize
        /\ GnuHashOffset = FiniArrayOffset + FiniArraySize
        /\ SymtabOffset = GnuHashOffset + GnuHashSize /\ VersymOffset = SymtabOffset + SymtabSize
        /\ VerneedOffset = VersymOffset + VersymSize /\ RelOffset = VerneedOffset + VerneedSize
        /\ StrtabOffset = RelOffset + RelSize /\ DynamicOffset = StrtabOffset + strtab
        /\ ShstrtabOffset = DynamicOffset + DynamicSize
        /\ CodeOffset = AlignNext(ShstrtabOffset + ShstrtabSize, Page)
    BY DEF FiniArrayOffset, GnuHashOffset, SymtabOffset, VersymOffset, VerneedOffset, RelOffset,
           StrtabOffset, DynamicOffset, ShstrtabOffset, CodeOffset
  <1>6. /\ Fits(EndOf(H[1]), H[2]) /\ Fits(EndOf(H[2]), H[3]) /\ Fits(EndOf(H[3]), H[4])
        /\ Fits(EndOf(H[4]), H[5]) /\ Fits(EndOf(H[5]), H[6]) /\ Fits(EndOf(H[6]), H[7])
        /\ Fits(EndOf(H[7]), H[8]) /\ Fits(EndOf(H[8]), H[9]) /\ Fits(EndOf(H[9]), H[10])
        /\ Fits(EndOf(H[10]), H[11]) /\ Fits(EndOf(H[11]), H[12])
    BY <1>1, <1>3, <1>4, <1>5, ZenonT(40) DEF Fits, EndOf
  <1>7. ASSUME NEW i \in 2..12 PROVE Fits(EndOf(H[i - 1]), H[i])
    <2>1. i \in {2, 3, 4, 5, 6, 7, 8, 9, 10, 11, 12}
      BY <1>7
    <2> QED BY <1>6, <2>1
  <1>8. EndOf(H[12]) = CodeOffset
    <2>1. CodeOffset \in Nat
      BY HeadTyped
    <2> QED BY <1>1, <2>1 DEF EndOf
  <1> QED BY <1>1, <1>7, <1>8 DEF H

\* The segments: each starts on or above the first free page.
LEMMA LoadsFollow ==
    ASSUME Typed, Loading, pc = 13
    PROVE  /\ \A i \in 1..Len(loads) :
                /\ LoadItems[i] = Item("load", loads[i].offset, loads[i].filesz, "pad")
                /\ FreeAt(i) <= loads[i].offset
           /\ Len(loads) = 0 => FileFree = CodeOffset
           /\ Len(loads) # 0 => EndOf(LoadItems[Len(loads)]) <= FileFree
           /\ Len(loads) # 0 => CodeOffset <= loads[1].offset
           /\ \A i \in 1..Len(loads) : i # 1 => EndOf(LoadItems[i - 1]) <= loads[i].offset
  <1>0. /\ Len(loads) \in Nat /\ DOMAIN loads = 1..Len(loads) /\ loads \in Seq(LoadSegment)
        /\ CodeOffset \in Nat
        /\ \A i \in 1..Len(loads) :
             loads[i].offset \in Nat /\ loads[i].filesz \in Nat /\ loads[i].offset + loads[i].filesz \in Nat
    <2>1. loads \in Seq(LoadSegment) /\ \A i \in 1..Len(loads) : loads[i] \in LoadSegment
      BY ElementOfSeq DEF Typed, Tables
    <2>2. \A i \in 1..Len(loads) : loads[i].offset \in Nat /\ loads[i].filesz \in Nat
      BY <2>1 DEF LoadSegment
    <2>3. \A x, y \in Nat : x + y \in Nat
      OBVIOUS
    <2> QED BY <2>1, <2>2, <2>3, LenProperties, HeadTyped
  <1>1. \A i \in 1..Len(loads) : LoadItems[i] = Item("load", loads[i].offset, loads[i].filesz, "pad")
    BY <1>0 DEF LoadItems
  <1>2. \A i \in 1..Len(loads) : EndOf(LoadItems[i]) = loads[i].offset + loads[i].filesz
    <2>1. \A at, size : EndOf(Item("load", at, size, "pad")) = at + size
      BY DEF EndOf, Item
    <2> QED BY <1>1, <2>1
  <1>3. \A i \in 1..Len(loads) : i # 1 => /\ FreeAt(i) \in Nat /\ EndOf(LoadItems[i - 1]) <= FreeAt(i)
    <2>1. SUFFICES ASSUME NEW i \in 1..Len(loads), i # 1
                   PROVE  FreeAt(i) \in Nat /\ EndOf(LoadItems[i - 1]) <= FreeAt(i)
      OBVIOUS
    <2>2. i - 1 \in 1..Len(loads)
      BY <1>0, <2>1
    <2>3. loads[i - 1].offset + loads[i - 1].filesz \in Nat
      BY <1>0, <2>2
    <2>4. FreeAt(i) = AlignNext(loads[i - 1].offset + loads[i - 1].filesz, Page)
      BY <2>1 DEF FreeAt
    <2> QED BY <1>2, <2>2, <2>3, <2>4, PageAlign
  <1>4. \A i \in 1..Len(loads) : FreeAt(i) \in Nat
    BY <1>0, <1>3 DEF FreeAt
  <1>5. \A i \in 1..Len(loads) : FreeAt(i) <= loads[i].offset
    <2>1. SUFFICES ASSUME NEW i \in 1..Len(loads) PROVE FreeAt(i) <= loads[i].offset
      OBVIOUS
    <2>2. loads[i].offset = FreeAt(i) + (AllLoads[i][2].vaddr % Page)
      <3>1. loads[i] = LoadOf(i)
        BY DEF Loading, LoadOf
      <3> QED BY <3>1 DEF LoadOf
    <2>3. AllLoads \in Seq(Bins \X Extent) /\ i \in 1..Len(AllLoads)
      BY AllTyped DEF Typed, Loading
    <2>4. AllLoads[i] \in Bins \X Extent
      BY <2>3, ElementOfSeq
    <2>5. AllLoads[i][2].vaddr \in Nat
      BY <2>4 DEF Extent
    <2>6. AllLoads[i][2].vaddr % Page \in Nat
      BY <2>5 DEF Page
    <2>7. \A x, y \in Nat : x <= x + y
      OBVIOUS
    <2> QED BY <1>4, <2>2, <2>6, <2>7
  <1>6. Len(loads) = 0 => FileFree = CodeOffset
    BY <1>0, EmptySeq DEF FileFree
  <1>7. Len(loads) # 0 => EndOf(LoadItems[Len(loads)]) <= FileFree
    <2>1. SUFFICES ASSUME Len(loads) # 0 PROVE EndOf(LoadItems[Len(loads)]) <= FileFree
      OBVIOUS
    <2>2. Len(loads) \in 1..Len(loads) /\ loads # <<>>
      BY <1>0, <2>1, EmptySeq
    <2>3. FileFree = AlignNext(loads[Len(loads)].offset + loads[Len(loads)].filesz, Page)
      BY <2>2 DEF FileFree
    <2>4. loads[Len(loads)].offset + loads[Len(loads)].filesz \in Nat
      BY <1>0, <2>2
    <2> QED BY <1>2, <2>2, <2>3, <2>4, PageAlign
  <1>8. Len(loads) # 0 => CodeOffset <= loads[1].offset
    <2>1. Len(loads) # 0 => 1 \in 1..Len(loads)
      BY <1>0
    <2> QED BY <1>5, <2>1 DEF FreeAt
  <1>9. \A i \in 1..Len(loads) : i # 1 => EndOf(LoadItems[i - 1]) <= loads[i].offset
    <2>1. SUFFICES ASSUME NEW i \in 1..Len(loads), i # 1
                   PROVE  EndOf(LoadItems[i - 1]) <= loads[i].offset
      OBVIOUS
    <2>2. i - 1 \in 1..Len(loads)
      BY <1>0, <2>1
    <2>3. EndOf(LoadItems[i - 1]) \in Nat /\ FreeAt(i) \in Nat /\ loads[i].offset \in Nat
      BY <1>0, <1>2, <1>4, <2>2
    <2>4. EndOf(LoadItems[i - 1]) <= FreeAt(i) /\ FreeAt(i) <= loads[i].offset
      BY <1>3, <1>5, <2>1
    <2>5. \A x, y, z \in Nat : x <= y /\ y <= z => x <= z
      OBVIOUS
    <2> QED BY <2>3, <2>4, <2>5
  <1> QED BY <1>1, <1>5, <1>6, <1>7, <1>8, <1>9

\* What comes after the segments.
LEMMA TailFollows ==
    ASSUME Typed, Collecting, Loading, Merging, pc = 13
    PROVE  /\ TailItems[1].how = "pad" /\ TailItems[1].at = FileFree
           /\ Fits(EndOf(TailItems[1]), TailItems[2]) /\ Fits(EndOf(TailItems[2]), TailItems[3])
           /\ SectionHeaders => Fits(EndOf(TailItems[3]), ShdrItems[1])
  <1> DEFINE T == TailItems
  <1>1. /\ T[1].at = tls_file_offset /\ T[1].size = filesz /\ T[1].how = "pad"
        /\ T[2].at = EHFrameOffset /\ T[2].size = 12 + 8 * Len(eh_table) /\ T[2].how = "pad"
        /\ T[3].at = mprotect_file_offset /\ T[3].size = MprotectSize /\ T[3].how = "pad"
        /\ SectionHeaders => ShdrItems[1].at = ShdrOffset /\ ShdrItems[1].how = "check"
    BY DEF TailItems, ShdrItems, Item
  <1> HIDE DEF T
  <1>2. /\ tls_file_offset = FileFree /\ filesz = TLSFileSize
        /\ ehframe_file_offset = AlignNext(tls_file_offset + TLSFileSize, Page)
        /\ mprotect_file_offset = AlignNext(ehframe_file_offset + EHFrameSize, Page)
        /\ EHFrameSize = 12 + 8 * Len(eh_table)
        /\ EHFrameOffset = AlignNext(tls_file_offset + TLSFileSize, Page)
    BY DEF Collecting, Loading, Merging, EHFrameOffset
  <1>3. /\ tls_file_offset + TLSFileSize \in Nat /\ EHFrameSize \in Nat /\ ehframe_file_offset \in Nat
        /\ ehframe_file_offset + EHFrameSize \in Nat
    <2>1. tls_file_offset \in Nat /\ TLSFileSize \in Nat /\ EHFrameSize \in Nat /\ ehframe_file_offset \in Nat
      BY SumsTyped DEF Typed, Counters
    <2>2. \A x, y \in Nat : x + y \in Nat
      OBVIOUS
    <2> QED BY <2>1, <2>2
  <1>4. EndOf(T[1]) <= T[2].at
    BY <1>1, <1>2, <1>3, PageAlign DEF EndOf
  <1>5. EndOf(T[2]) <= T[3].at
    <2>1. EndOf(T[2]) = ehframe_file_offset + EHFrameSize
      BY <1>1, <1>2 DEF EndOf
    <2> QED BY <1>1, <1>2, <1>3, <2>1, PageAlign
  <1>6. EndOf(T[3]) = ShdrOffset
    BY <1>1 DEF EndOf, ShdrOffset
  <1> QED BY <1>1, <1>2, <1>4, <1>5, <1>6 DEF Fits, T

LEMMA ItemsFit ==
    ASSUME Typed, Collecting, Loading, Merging, pc = 13, NEW k \in 1..Len(Items)
    PROVE  /\ k = 1 => Items[k].how = "check" /\ Items[k].at = 64
           /\ k # 1 => Fits(EndOf(Items[k - 1]), Items[k])
  <1> DEFINE L == Len(loads)
  <1>0. /\ L \in Nat /\ Shifted \in {0, 1} /\ Len(Items) = 12 + L + 3 + Shifted
        /\ \A i \in 1..12 : Items[i] = HeadItems[i]
        /\ \A i \in 1..L : Items[12 + i] = LoadItems[i]
        /\ \A i \in 1..3 : Items[12 + L + i] = TailItems[i]
        /\ Shifted = 1 => Items[12 + L + 3 + 1] = ShdrItems[1]
        /\ Shifted = 1 => SectionHeaders
    BY ItemsAt DEF Shifted
  <1>1. \A n, at, size : n <= at => Fits(n, Item("load", at, size, "pad"))
    BY DEF Fits, Item
  <1>a. \A n, it : it.how = "pad" /\ n <= it.at => Fits(n, it)
    BY DEF Fits
  <1>b. L # 0 => EndOf(LoadItems[L]) <= FileFree
    BY LoadsFollow
  <1>c. L = 0 => FileFree = CodeOffset /\ CodeOffset \in Nat
    BY LoadsFollow, HeadTyped
  <1>d. /\ \A i \in 1..L : LoadItems[i] = Item("load", loads[i].offset, loads[i].filesz, "pad")
        /\ L # 0 => CodeOffset <= loads[1].offset
        /\ \A i \in 1..L : i # 1 => EndOf(LoadItems[i - 1]) <= loads[i].offset
    BY LoadsFollow
  <1> HIDE DEF L
  <1>2. CASE k \in 1..12
    <2>1. CASE k = 1
      BY <1>0, <1>2, <2>1, HeadFollows
    <2>2. CASE k # 1
      <3>1. k \in 2..12 /\ k - 1 \in 1..12
        BY <1>2, <2>2
      <3>2. Items[k] = HeadItems[k] /\ Items[k - 1] = HeadItems[k - 1]
        BY <1>0, <1>2, <3>1
      <3> QED BY <2>2, <3>1, <3>2, HeadFollows
    <2> QED BY <2>1, <2>2
  <1>3. CASE k \in 13..(12 + L)
    <2> DEFINE i == k - 12
    <2>1. i \in 1..L /\ 12 + i = k /\ k # 1 /\ L # 0
      BY <1>0, <1>3
    <2> HIDE DEF i
    <2>2. Items[k] = Item("load", loads[i].offset, loads[i].filesz, "pad")
      BY <1>0, <1>d, <2>1
    <2>3. CASE i = 1
      <3>1. k - 1 = 12 /\ 12 \in 1..12
        BY <2>1, <2>3
      <3>2. EndOf(Items[k - 1]) = CodeOffset
        BY <1>0, <3>1, HeadFollows
      <3> QED BY <1>1, <1>d, <2>1, <2>2, <2>3, <3>2
    <2>4. CASE i # 1
      <3>1. k - 1 = 12 + (i - 1) /\ i - 1 \in 1..L
        BY <1>0, <2>1, <2>4
      <3>2. Items[k - 1] = LoadItems[i - 1]
        BY <1>0, <3>1
      <3>3. EndOf(Items[k - 1]) <= loads[i].offset
        BY <1>d, <2>1, <2>4, <3>2
      <3> QED BY <1>1, <2>1, <2>2, <3>3
    <2> QED BY <2>3, <2>4
  <1>4. CASE k = 12 + L + 1
    <2>1. Items[k] = TailItems[1] /\ k # 1 /\ Items[k].how = "pad" /\ Items[k].at = FileFree
      BY <1>0, <1>4, TailFollows
    <2>2. CASE L = 0
      <3>1. k - 1 = 12 /\ 12 \in 1..12
        BY <1>4, <2>2
      <3>2. EndOf(Items[k - 1]) = CodeOffset
        BY <1>0, <3>1, HeadFollows
      <3> QED BY <1>a, <1>c, <2>1, <2>2, <3>2
    <2>3. CASE L # 0
      <3>1. k - 1 = 12 + L /\ L \in 1..L
        BY <1>0, <1>4, <2>3
      <3>2. Items[k - 1] = LoadItems[L]
        BY <1>0, <3>1
      <3> QED BY <1>a, <1>b, <2>1, <2>3, <3>2
    <2> QED BY <2>2, <2>3
  <1>5. CASE k = 12 + L + 2
    <2>1. k - 1 = 12 + L + 1 /\ k # 1
      BY <1>0, <1>5
    <2>2. Items[k] = TailItems[2] /\ Items[k - 1] = TailItems[1]
      BY <1>0, <1>5, <2>1
    <2> QED BY <2>1, <2>2, TailFollows
  <1>6. CASE k = 12 + L + 3
    <2>1. k - 1 = 12 + L + 2 /\ k # 1
      BY <1>0, <1>6
    <2>2. Items[k] = TailItems[3] /\ Items[k - 1] = TailItems[2]
      BY <1>0, <1>6, <2>1
    <2> QED BY <2>1, <2>2, TailFollows
  <1>7. CASE Shifted = 1 /\ k = 12 + L + 3 + 1
    <2>1. k - 1 = 12 + L + 3 /\ k # 1
      BY <1>0, <1>7
    <2>2. Items[k] = ShdrItems[1] /\ Items[k - 1] = TailItems[3]
      BY <1>0, <1>7, <2>1
    <2> QED BY <1>0, <1>7, <2>1, <2>2, TailFollows
  <1>8. \/ k \in 1..12 \/ k \in 13..(12 + L) \/ k = 12 + L + 1 \/ k = 12 + L + 2
        \/ k = 12 + L + 3 \/ (Shifted = 1 /\ k = 12 + L + 3 + 1)
    BY <1>0
  <1> QED BY <1>2, <1>3, <1>4, <1>5, <1>6, <1>7, <1>8

\* No CHECK of Emit fails.
LEMMA EmitSucceeds ==
    ASSUME LayoutInv, pc = 13, pos \in 1..Len(Items)
    PROVE  Emittable(Items[pos])
  <1>0. /\ Typed /\ Collecting /\ Loading /\ Merging /\ Emitting /\ Tables /\ Counters
        /\ file \in Seq(FileItem) /\ Len(file) \in Nat
    BY LenProperties DEF LayoutInv, Typed, Tables
  <1>1. /\ Len(file) = pos - 1 /\ pos \in Nat
        /\ \A k \in 1..Len(file) :
             file[k] = [what |-> Items[k].what, at |-> Items[k].at, size |-> Items[k].size]
        /\ file # <<>> => fpos = file[Len(file)].at + file[Len(file)].size
    <2>1. pc \in 13..14
      OBVIOUS
    <2> QED BY <1>0, <2>1 DEF Emitting, Counters
  <1>2. Items[pos] \in EmitItem
    BY <1>0, ItemsTyped, ElementOfSeq
  <1>3. CASE pos = 1
    <2>1. file = <<>>
      BY <1>0, <1>1, <1>3, EmptySeq
    <2>2. Start(Items[pos]) = 64
      BY <2>1 DEF Start
    <2>3. Items[pos].how = "check" /\ Items[pos].at = 64
      BY <1>0, <1>3, ItemsFit
    <2> QED BY <1>0, <2>2, <2>3, PhdrsCounted DEF Emittable
  <1>4. CASE pos # 1
    <2>1. pos - 1 \in 1..Len(file) /\ file # <<>>
      BY <1>0, <1>1, <1>4, EmptySeq
    <2>2. fpos = EndOf(Items[pos - 1])
      BY <1>1, <2>1 DEF EndOf
    <2>3. Start(Items[pos]) = EndOf(Items[pos - 1])
      BY <2>1, <2>2 DEF Start
    <2>4. Fits(EndOf(Items[pos - 1]), Items[pos])
      BY <1>0, <1>4, ItemsFit
    <2> QED BY <1>0, <1>2, <2>3, <2>4, PhdrsCounted DEF Emittable, Fits, EmitItem
  <1> QED BY <1>3, <1>4

-----------------------------------------------------------------------------
(***************************************************************************)
(* Why Link may abort.                                                     *)
(***************************************************************************)
LEMMA JoinedFrom ==
    ASSUME NEW V, NEW items \in [Bins -> Seq(V)], NEW k \in 1..Len(Joined(items))
    PROVE  \E b \in Bins : \E i \in 1..Len(items[b]) : Joined(items)[k] = <<b, items[b][i]>>
  <1>1. [b \in Bins |-> Len(items[b])] \in [1..NBins -> Int] /\ NBins \in Nat
    <2>1. \A b \in Bins : Len(items[b]) \in Nat
      BY PiecesTyped
    <2> QED BY <2>1, NBinsAssumption DEF Bins
  <1>2. PICK s : RunningSum(NBins, s, [b \in Bins |-> Len(items[b])])
    BY <1>1, RunningSumExists
  <1>3. JoinedAt(items, s)
    BY <1>2, JoinedPlaces
  <1>4. \A b \in Bins : \A i \in 1..Len(items[b]) : Joined(items)[s[b - 1] + i] = <<b, items[b][i]>>
    BY <1>3 DEF JoinedAt
  <1>5. PICK b \in Bins : \E i \in 1..Len(items[b]) : k = s[b - 1] + i
    BY <1>3 DEF JoinedAt
  <1>6. PICK i \in 1..Len(items[b]) : k = s[b - 1] + i
    BY <1>5
  <1>7. Joined(items)[k] = <<b, items[b][i]>>
    BY <1>4, <1>6
  <1> QED BY <1>7

\* No relocation is for a slot of a .fini_array that is left out of the output.
FiniUnused ==
    \A b \in ExcludedFini : \A at \in Range(Ats(b)) :
        ~InArray(bin[b].init, at) => ~InArray(bin[b].fini, at)

Explained == Aborted => (\E b \in Bins : Refused(b)) \/ ~HeadFits \/ ~FiniUnused

LEMMA RelocateAborts ==
    ASSUME LayoutInv, pc = 4, Relocate, pc' = 0
    PROVE  (\E b \in Bins : Refused(b)) \/ ~FiniUnused
  <1>0. /\ Typed /\ Inputs /\ Collecting /\ Gathering /\ pos \in Nat \ {0} /\ Len(AllRels) \in Nat
        /\ \A k \in 1..Len(AllRels) : /\ AllRels[k] \in Bins \X Reloc
                                      /\ AllRels[k][2] \in Range(RelsOfBin(AllRels[k][1]))
                                      /\ Sites[k] = <<AllRels[k][1], AllRels[k][2].at>>
    BY SitesOfRels DEF LayoutInv, Typed, Counters
  <1>1. CASE \E b \in Called : ~Readable(b)
    BY <1>1 DEF Called, Refused
  <1>2. CASE ~(\E b \in Called : ~Readable(b))
    <2>1. /\ pos <= Len(AllRels)
          /\ ~(Supported(AllRels[pos][1], AllRels[pos][2])
               /\ Relocatable(AllRels[pos][1], AllRels[pos][2].at))
      BY <1>2 DEF Relocate, Return, Proceed
    <2>2. pos \in 1..Len(AllRels)
      BY <1>0, <2>1
    <2>3. PICK b \in Bins, r \in Reloc :
            AllRels[pos][1] = b /\ AllRels[pos][2] = r /\ r \in Range(RelsOfBin(b))
      BY <1>0, <2>2
    <2>4. RelsOfBin(b) # <<>> /\ r.at \in Range(Ats(b)) /\ r.at \in Nat
      <3>1. PICK i \in 1..Len(RelsOfBin(b)) : RelsOfBin(b)[i] = r
        BY <1>0, <2>3, BinTyped, LenProperties DEF Range
      <3>2. Ats(b)[i] = r.at /\ i \in DOMAIN Ats(b)
        BY <3>1 DEF Ats
      <3>3. r.at \in Range(Ats(b))
        BY <3>2 DEF Range
      <3>4. RelsOfBin(b) # <<>>
        BY <1>0, <3>1, BinTyped, EmptySeq
      <3> QED BY <3>3, <3>4 DEF Reloc
    <2>5. CASE ~Supported(b, r)
      BY <2>3, <2>5 DEF Refused
    <2>6. CASE bin[b].init.addr = 0 \/ bin[b].fini.addr = 0
      BY <2>4, <2>6 DEF Refused
    <2>7. CASE ~InArray(bin[b].init, r.at) /\ InArray(bin[b].fini, r.at) /\ b \notin DOMAIN bin_to_fini
      <3>1. b \in ExcludedFini
        BY <1>0, <2>7 DEF Gathering
      <3> QED BY <2>4, <2>7, <3>1 DEF FiniUnused
    <2>8. InTLSData(b, r.at) => \E k \in DOMAIN data : data[k].bin = b
      <3>1. InTLSData(b, r.at) => HasTLS(b)
        BY <1>0, BinTyped DEF InTLSData, HasTLS
      <3> QED BY <1>0, <3>1 DEF Collecting
    <2>9. b \in DOMAIN bin_to_init
      BY <1>0 DEF Gathering
    <2>10. ~Supported(b, r) \/ ~Relocatable(b, r.at)
      BY <2>1, <2>3
    <2> QED BY <2>5, <2>6, <2>7, <2>8, <2>9, <2>10 DEF Relocatable
  <1> QED BY <1>1, <1>2

LEMMA AbortsExplained ==
    ASSUME LayoutInv, Next, pc' = 0
    PROVE  Explained'
  <1>0. /\ Typed /\ Moving /\ Collecting /\ Gathering /\ Loading /\ Merging /\ Inputs /\ Counters
        /\ pc \in 1..13 /\ pos \in Nat \ {0} /\ NBins \in Nat \ {0}
    BY Frame, NBinsAssumption DEF LayoutInv, Typed, Counters
  <1>1. bin' = bin /\ (\A b \in Bins : Refused(b)' = Refused(b)) /\ FiniUnused' = FiniUnused
    BY <1>0, Frame, RelsKept DEF FiniUnused
  <1>2. CASE pc = 1
    <2>1. DecideMemOffset
      BY <1>0, <1>2, CallOf
    <2>2. pos <= NBins /\ ~Movable(pos)
      BY <1>0, <1>2, <2>1 DEF DecideMemOffset, Return, Proceed
    <2>3. pos \in Bins
      BY <1>0, <2>2 DEF Bins
    <2>4. Refused(pos)
      BY <2>2 DEF Refused
    <2>5. \E b \in Bins : Refused(b)
      BY <2>3, <2>4
    <2> QED BY <1>1, <2>5 DEF Explained
  <1>3. CASE pc = 2
    <2>0. CollectTLS /\ pos <= NBins + 1 /\ UpTo([b \in Bins |-> phdr[b].memsz], pos - 1, memsz)
      BY <1>0, <1>3, CallOf DEF Collecting
    <2>1. ~(pos <= NBins) /\ memsz # TLSMemSize
      BY <1>0, <1>3, <2>0 DEF CollectTLS, Return, Proceed
    <2>2. pos - 1 = NBins
      BY <1>0, <2>0, <2>1
    <2>3. memsz = SumBins([b \in Bins |-> phdr[b].memsz])
      BY <1>0, <2>0, <2>2, SumsTyped, UpToEnds
    <2> QED BY <2>1, <2>3 DEF TLSMemSize
  <1>4. CASE pc = 3
    BY <1>0, <1>4, CallOf DEF CollectArrays, Return, Proceed
  <1>5. CASE pc = 4
    BY <1>0, <1>1, <1>5, CallOf, RelocateAborts DEF Explained
  <1>6. CASE pc \in {5, 6, 7, 8, 11, 12}
    BY <1>0, <1>6, CallOf DEF BuildSymtab, BuildInterp, BuildArrays, BuildDynamic, RegisterShdrs,
                              BuildEhdr, Return
  <1>7. CASE pc = 9
    <2>1. CodeOffset >= offsets[1]
      BY <1>0, <1>7, CallOf DEF BuildLoads, Return, Proceed
    <2>2. offsets' = offsets /\ CodeOffset' = CodeOffset
      BY <1>0, <1>7, HeadDone, CodeKept
    <2>3. offsets # <<>> /\ offsets[1] \in Nat /\ CodeOffset \in Nat
      <3>1. Len(offsets) = NBins /\ offsets \in Seq(Nat)
        BY <1>0, <1>7 DEF Moving, Typed, Tables
      <3>2. 1 \in 1..Len(offsets)
        BY <1>0, <3>1
      <3> QED BY <1>0, <3>1, <3>2, ElementOfSeq, EmptySeq, HeadTyped
    <2>4. ~(CodeOffset < offsets[1])
      BY <2>1, <2>3
    <2> QED BY <2>2, <2>3, <2>4 DEF Explained, HeadFits
  <1>8. CASE pc = 10
    <2>0. BuildEHFrameHeader /\ pos <= NBins + 1 /\ UpTo(FDECount, pos - 1, Len(eh_table))
      BY <1>0, <1>8, CallOf DEF Merging
    <2>1. ~(pos <= NBins) /\ EHFrameSize # 12 + 8 * Len(eh_table)
      BY <1>0, <1>8, <2>0 DEF BuildEHFrameHeader, Return, Proceed
    <2>2. pos - 1 = NBins
      BY <1>0, <2>0, <2>1
    <2>3. Len(eh_table) = SumBins(FDECount)
      BY <1>0, <2>0, <2>2, SumsTyped, UpToEnds
    <2> QED BY <2>1, <2>3 DEF EHFrameSize, FDECount
  <1>9. CASE pc = 13
    <2>1. ~(pos > Len(Items)) /\ ~(bin[1].headers /\ Emittable(Items[pos]))
      BY <1>0, <1>9, CallOf DEF Emit, Return, Proceed
    <2>2. pos \in 1..Len(Items)
      <3>1. Len(Items) \in Nat
        BY <1>0, ItemsTyped, LenProperties
      <3> QED BY <1>0, <2>1, <3>1
    <2>3. CASE ~bin[1].headers
      <3>1. 1 \in Bins
        BY <1>0 DEF Bins
      <3>2. Refused(1)
        BY <2>3 DEF Refused
      <3> QED BY <1>1, <3>1, <3>2 DEF Explained
    <2>4. CASE bin[1].headers
      BY <1>9, <2>1, <2>2, <2>4, EmitSucceeds
    <2> QED BY <2>3, <2>4
  <1> QED BY <1>0, <1>2, <1>3, <1>4, <1>5, <1>6, <1>7, <1>8, <1>9

\* Whatever the inputs: when no relocation is for a slot that --exclude-from-fini
\* left out, the layout stops only for a binary that sold refuses, or when the
\* head of the file reaches the first binary; so none of the CHECKs that compare
\* what two calls have computed fails.
THEOREM LinkSucceedsHolds == Spec => [](FiniUnused => LinkSucceeds)
  <1>1. Init => Explained
    <2> SUFFICES ASSUME Init PROVE Explained
      OBVIOUS
    <2>1. pc = 1
      BY DEF Init
    <2> QED BY <2>1 DEF Explained, Aborted
  <1>2. LayoutInv /\ Explained /\ [Next]_vars => Explained'
    <2> SUFFICES ASSUME LayoutInv, Explained, [Next]_vars PROVE Explained'
      OBVIOUS
    <2>1. CASE Next
      <3>1. CASE pc' = 0
        BY <2>1, <3>1, AbortsExplained
      <3>2. CASE pc' # 0
        BY <3>2 DEF Explained, Aborted
      <3> QED BY <3>1, <3>2
    <2>2. CASE UNCHANGED vars
      <3>1. /\ bin' = bin /\ phdr' = phdr /\ pc' = pc /\ mem' = mem /\ tls_' = tls_ /\ arrays' = arrays
            /\ rels' = rels /\ sizes' = sizes /\ dynamic' = dynamic
        BY <2>2 DEF vars
      <3>2. /\ offsets' = offsets /\ memsz' = memsz /\ init_array' = init_array /\ fini_array' = fini_array
            /\ nsyms' = nsyms /\ nverneed' = nverneed /\ nvernaux' = nvernaux /\ strtab' = strtab
        BY <3>1 DEF mem, tls_, arrays, sizes
      <3>3. CodeOffset' = CodeOffset
        BY <3>1, <3>2, CodeKept
      <3> QED BY <3>1, <3>2, <3>3, RelsKept DEF Explained, Aborted, HeadFits, FiniUnused
    <2> QED BY <2>1, <2>2
  <1>3. Explained => (FiniUnused => LinkSucceeds)
    BY DEF Explained, LinkSucceeds
  <1> QED BY <1>1, <1>2, <1>3, LayoutInvariant, PTL DEF Spec

-----------------------------------------------------------------------------
(***************************************************************************)
(* The section headers are found.                                          *)
(***************************************************************************)
\* A header that is linked to is at the index that was recorded.
LEMMA LinksRight ==
    ASSUME Typed, NEW k \in 1..Len(Registered)
    PROVE  /\ GetIndex(LinkedTo(Registered[k].type)) + 1 \in 1..Len(Registered)
           /\ Registered[GetIndex(LinkedTo(Registered[k].type)) + 1].type = LinkedTo(Registered[k].type)
  <1> DEFINE t == Registered[k].type
  <1>1. LinkedTo(t) \in {"symtab", "strtab", "null"}
    BY DEF LinkedTo
  <1>2. Versions \in {0, 2} /\ Len(Registered) = 9 + Versions
    BY RegisteredTypes
  <1>3. /\ Registered[1].type = "null" /\ Registered[3].type = "symtab"
        /\ Registered[7 + Versions].type = "strtab"
    BY RegisteredTypes
  <1> HIDE DEF t
  <1>4. CASE LinkedTo(t) = "null"
    <2>1. GetIndex(LinkedTo(t)) + 1 = 1 /\ 1 \in 1..(9 + Versions)
      BY <1>2, <1>4, LinkIndices
    <2> QED BY <1>2, <1>3, <1>4, <2>1 DEF t
  <1>5. CASE LinkedTo(t) = "symtab"
    <2>1. GetIndex(LinkedTo(t)) + 1 = 3 /\ 3 \in 1..(9 + Versions)
      BY <1>2, <1>5, LinkIndices
    <2> QED BY <1>2, <1>3, <1>5, <2>1 DEF t
  <1>6. CASE LinkedTo(t) = "strtab"
    <2>1. GetIndex(LinkedTo(t)) + 1 = 7 + Versions /\ 7 + Versions \in 1..(9 + Versions)
      BY <1>2, <1>6, LinkIndices
    <2> QED BY <1>2, <1>3, <1>6, <2>1 DEF t
  <1> QED BY <1>1, <1>4, <1>5, <1>6

\* EmitShdrs moves the header of .shstrtab to the end, where it already is.
LEMMA EmittedInPlace ==
    ASSUME Typed, Registering, pc > 11
    PROVE  EmittedShdrs = shdrs /\ shdrs[Len(shdrs)].type = "shstrtab" /\ Len(shdrs) = 9 + Versions
  <1> DEFINE L == 9 + Versions
  <1>1. shdrs = LinkedShdrs /\ Versions \in {0, 2} /\ L \in Nat
    BY RegisteredTypes DEF Registering
  <1>2. /\ Registered \in Seq(SecHeader) /\ DOMAIN Registered = 1..L
        /\ \A k \in 1..L : Registered[k] \in SecHeader
    BY RegisteredAt, LenProperties, ElementOfSeq
  <1>3. shdrs \in Seq(SecHeader) /\ Len(shdrs) = L /\ DOMAIN shdrs = 1..L
    BY <1>1, RegisteredAt, LinkedTyped, LenProperties
  <1>4. \A k \in 1..L : shdrs[k].type = Registered[k].type
    BY <1>1, <1>2 DEF LinkedShdrs, SecHeader
  <1>5. ASSUME NEW k \in 1..L PROVE Registered[k].type = "shstrtab" <=> k = L
    <2>1. CASE Versions = 0
      <3>1. k \in {1, 2, 3, 4, 5, 6, 7, 8, 9}
        BY <1>5, <2>1
      <3> QED BY <2>1, <3>1, RegisteredTypes
    <2>2. CASE Versions = 2
      <3>1. k \in {1, 2, 3, 4, 5, 6, 7, 8, 9, 10, 11}
        BY <1>5, <2>2
      <3> QED BY <2>2, <3>1, RegisteredTypes
    <2> QED BY <1>1, <2>1, <2>2
  <1> DEFINE moved == CHOOSE k \in DOMAIN shdrs : shdrs[k].type = "shstrtab"
  <1>6. L \in 1..L
    BY <1>1
  <1> HIDE DEF L
  <1>7. moved = L
    BY <1>3, <1>4, <1>5, <1>6
  <1>8. EmittedShdrs = [k \in DOMAIN shdrs |-> shdrs[IF k < moved THEN k ELSE IF k < Len(shdrs) THEN k + 1
                                                      ELSE moved]]
    BY DEF EmittedShdrs
  <1> HIDE DEF moved
  <1>9. \A k \in 1..L : (IF k < L THEN k ELSE IF k < L THEN k + 1 ELSE L) = k
    BY <1>1 DEF L
  <1>10. EmittedShdrs = [k \in 1..L |-> shdrs[k]]
    BY <1>3, <1>7, <1>8, <1>9
  <1>11. EmittedShdrs = shdrs
    BY <1>3, <1>10
  <1> QED BY <1>3, <1>4, <1>5, <1>6, <1>11 DEF L

\* Whatever the inputs: with --section-headers the ELF header says where Emit
\* wrote the section headers and how many, e_shstrndx is the index of .shstrtab
\* after EmitShdrs moved it, and every sh_link is the index of the header that
\* Freeze meant.
THEOREM HeadersFoundHolds == Spec => []HeadersFound
  <1>1. LayoutInv => HeadersFound
    <2> SUFFICES ASSUME LayoutInv, Done PROVE HeadersFound
      BY DEF HeadersFound
    <2>0. /\ Typed /\ Registering /\ Emitting /\ pc = 14
      BY CallNumbers DEF LayoutInv, Typed, Counters
    <2>1. /\ shdrs = LinkedShdrs
          /\ ehdr = [shoff |-> ShdrOffset, shnum |-> Len(shdrs), shstrndx |-> Len(shdrs) - 1]
      BY <2>0 DEF Registering
    <2>2. EmittedShdrs = shdrs /\ shdrs[Len(shdrs)].type = "shstrtab" /\ Len(shdrs) = 9 + Versions
      BY <2>0, EmittedInPlace
    <2>3. \A w \in Written("shdrs") : w.at = ehdr.shoff /\ w.size = 64 * ehdr.shnum
      BY <2>0, <2>1, WrittenRight DEF Written, RightItem, ShdrsSize
    <2>4. ehdr.shstrndx + 1 = Len(shdrs)
      <3>1. Len(shdrs) \in Nat
        BY <2>0, LenProperties DEF Typed, Tables
      <3> QED BY <2>1, <3>1
    <2>5. \A h \in Range(EmittedShdrs) : EmittedShdrs[h.link + 1].type = LinkedTo(h.type)
      <3>1. SUFFICES ASSUME NEW k \in DOMAIN shdrs
                     PROVE  shdrs[shdrs[k].link + 1].type = LinkedTo(shdrs[k].type)
        BY <2>2 DEF Range
      <3>2. /\ DOMAIN Registered = 1..Len(Registered) /\ k \in 1..Len(Registered)
            /\ \A i \in 1..Len(Registered) : Registered[i] \in SecHeader
        BY <2>0, <2>1, RegisteredAt, LenProperties, ElementOfSeq DEF LinkedShdrs
      <3>3. \A i \in 1..Len(Registered) :
              /\ shdrs[i] = [Registered[i] EXCEPT !.link = GetIndex(LinkedTo(Registered[i].type))]
              /\ shdrs[i].type = Registered[i].type
              /\ shdrs[i].link = GetIndex(LinkedTo(Registered[i].type))
        BY <2>1, <3>2 DEF LinkedShdrs, SecHeader
      <3>4. /\ GetIndex(LinkedTo(Registered[k].type)) + 1 \in 1..Len(Registered)
            /\ Registered[GetIndex(LinkedTo(Registered[k].type)) + 1].type = LinkedTo(Registered[k].type)
        BY <2>0, <3>2, LinksRight
      <3> QED BY <3>2, <3>3, <3>4
    <2> QED BY <2>2, <2>3, <2>4, <2>5 DEF HeadersFound
  <1> QED BY <1>1, LayoutInvariant, PTL

-----------------------------------------------------------------------------
(***************************************************************************)
(* The segments are apart.                                                 *)
(***************************************************************************)
\* Each binary is put on the page where its predecessor ends, the template, the
\* new .eh_frame_hdr and the code of RELRO above the last one; once BuildLoads
\* has started, the head is known to end below the first binary.
Placing ==
    /\ \A b \in Bins : b <= Len(offsets) => offsets[b] = FreeFrom(b - 1) /\ offsets[b] % Page = 0
    /\ pc > 1 => /\ tls_offset = FreeFrom(NBins)
                 /\ ehframe_offset = AlignNext(tls_offset + TLSMemSize, Page)
                 /\ mprotect_offset = AlignNext(ehframe_offset + EHFrameSize, Page)
    /\ (pc = 9 /\ pos > 1) \/ pc > 9 => CodeOffset < offsets[1]

\* A page never holds parts of both; the second is above the first.
Apart(g, h) == AlignNext(g.vaddr + g.memsz, Page) <= h.vaddr - (h.vaddr % Page)

\* The segments of each input ascend without sharing a page.
PagesApart ==
    \A b \in Bins : \A i \in 1..(Len(bin[b].loads) - 1) : Apart(bin[b].loads[i], bin[b].loads[i + 1])

\* What the alignment to pages does to an address that is moved by whole pages.
LEMMA Moves ==
    ASSUME NEW o \in Nat, o % Page = 0
    PROVE  /\ \A x \in Nat : AlignNext(x + o, Page) = AlignNext(x, Page) + o
           /\ \A x \in Nat : (x + o) - ((x + o) % Page) = (x - (x % Page)) + o
           /\ \A x, f \in Nat : f % Page = 0 => (x + o) % Page = (f + (x % Page)) % Page
           /\ \A x \in Nat : x % Page = 0 => (x + o) % Page = 0
  <1>1. \A x \in Nat : AlignNext(x + o, Page) = AlignNext(x, Page) + o
    BY DEF Page, AlignNext
  <1>2. \A x \in Nat : (x + o) - ((x + o) % Page) = (x - (x % Page)) + o
    BY DEF Page
  <1>3. \A x, f \in Nat : f % Page = 0 => (x + o) % Page = (f + (x % Page)) % Page
    BY DEF Page
  <1>4. \A x \in Nat : x % Page = 0 => (x + o) % Page = 0
    BY DEF Page
  <1> QED BY <1>1, <1>2, <1>3, <1>4

LEMMA Aligned ==
    /\ \A x, y \in Nat : x <= y => AlignNext(x, Page) <= AlignNext(y, Page)
    /\ \A x \in Nat : x % Page = 0 => AlignNext(x, Page) = x /\ x - (x % Page) = x
  <1>1. \A x, y \in Nat : x <= y => AlignNext(x, Page) <= AlignNext(y, Page)
    BY DEF Page, AlignNext
  <1>2. \A x \in Nat : x % Page = 0 => AlignNext(x, Page) = x /\ x - (x % Page) = x
    BY DEF Page, AlignNext
  <1> QED BY <1>1, <1>2

\* The end of a binary is on a page.
LEMMA RangeEndOnPage ==
    ASSUME Inputs, NEW b \in Bins, bin[b].loads # <<>>
    PROVE  RangeEnd(b) % Page = 0
  <1>1. RangeEnd(b) \in Ends(b)
    BY RangeEndTyped
  <1>2. PICK l \in Range(bin[b].loads) : RangeEnd(b) = AlignNext(l.vaddr + l.memsz, Page)
    BY <1>1 DEF Ends
  <1>3. l \in Extent
    BY BinTyped, LenProperties, ElementOfSeq DEF Range
  <1>4. l.vaddr + l.memsz \in Nat
    BY <1>3 DEF Extent
  <1> QED BY <1>2, <1>4, PageAlign

\* FreeFrom is on a page when the binary is.
LEMMA FreeFromOnPage ==
    ASSUME Typed, NEW b \in 0..NBins,
           b > 0 => b \in 1..Len(offsets) /\ Movable(b) /\ offsets[b] % Page = 0
    PROVE  FreeFrom(b) % Page = 0
  <1>1. CASE b = 0
    BY <1>1 DEF FreeFrom, Page
  <1>2. CASE b # 0
    <2>1. b \in Bins /\ b \in 1..Len(offsets) /\ bin[b].loads # <<>> /\ offsets[b] % Page = 0
      BY <1>2, NBinsAssumption DEF Bins, Movable
    <2>2. offsets[b] \in Nat /\ RangeEnd(b) \in Nat /\ RangeEnd(b) % Page = 0
      BY <2>1, RangeEndTyped, RangeEndOnPage, ElementOfSeq DEF Typed, Tables
    <2>3. \A x, y \in Nat : x % Page = 0 /\ y % Page = 0 => (x + y) % Page = 0
      BY DEF Page
    <2>4. FreeFrom(b) = offsets[b] + RangeEnd(b)
      BY <1>2, SMT DEF FreeFrom
    <2> QED BY <2>1, <2>2, <2>3, <2>4
  <1> QED BY <1>1, <1>2

LEMMA PlacingStep ==
    ASSUME LayoutInv, Placing, Next
    PROVE  Placing'
  <1>0. /\ Typed /\ Moving /\ Counters /\ pc \in 1..13 /\ pc' \in {0, pc, pc + 1} /\ pos \in Nat \ {0}
        /\ bin' = bin /\ TLSMemSize' = TLSMemSize /\ EHFrameSize' = EHFrameSize
        /\ NBins \in Nat \ {0} /\ offsets \in Seq(Nat) /\ Len(offsets) \in Nat
    BY Frame, SumsKept, NBinsAssumption, LenProperties DEF LayoutInv, Typed, Tables, Counters
  <1>a. \A b \in Bins : RangeEnd(b)' = RangeEnd(b)
    BY <1>0 DEF RangeEnd, Ends
  <1>1. CASE pc = 1
    <2>0. DecideMemOffset /\ pos <= NBins + 1 /\ Len(offsets) = pos - 1
          /\ \A b \in Bins : b < pos => Movable(b)
      BY <1>0, <1>1, CallOf DEF Moving
    <2>1. CASE pos <= NBins
      <3>1. offsets' = Append(offsets, FreeFrom(pos - 1)) /\ pc' \in {0, 1}
        BY <1>1, <2>0, <2>1 DEF DecideMemOffset, Proceed, Abort
      <3>2. /\ pos - 1 \in 0..NBins
            /\ pos - 1 > 0 => /\ pos - 1 \in 1..Len(offsets) /\ pos - 1 \in Bins /\ pos - 1 < pos
                              /\ pos - 1 <= Len(offsets)
        BY <1>0, <2>0 DEF Bins
      <3>3. FreeFrom(pos - 1) \in Nat /\ FreeFrom(pos - 1) % Page = 0
        BY <1>0, <2>0, <3>2, FreeFromTyped, FreeFromOnPage DEF Placing
      <3>4. /\ Len(offsets') = pos /\ offsets'[pos] = FreeFrom(pos - 1)
            /\ \A b \in 1..(pos - 1) : offsets'[b] = offsets[b]
        BY <1>0, <2>0, <3>1, <3>3, AppendProperties
      <3>5. \A b \in 0..(pos - 1) : FreeFrom(b)' = FreeFrom(b)
        <4>1. SUFFICES ASSUME NEW b \in 0..(pos - 1), b # 0 PROVE FreeFrom(b)' = FreeFrom(b)
          BY DEF FreeFrom
        <4>2. b \in 1..(pos - 1) /\ b \in Bins
          BY <1>0, <2>1, <4>1 DEF Bins
        <4> QED BY <1>a, <3>4, <4>1, <4>2 DEF FreeFrom
      <3>6. ASSUME NEW b \in Bins, b <= pos
            PROVE  offsets'[b] = FreeFrom(b - 1)' /\ offsets'[b] % Page = 0
        <4>1. b - 1 \in 0..(pos - 1)
          BY <1>0, <3>6 DEF Bins
        <4>2. CASE b = pos
          <5>1. FreeFrom(b - 1)' = FreeFrom(b - 1)
            BY <3>5, <4>1
          <5> QED BY <3>3, <3>4, <4>2, <5>1
        <4>3. CASE b # pos
          <5>1. b \in 1..(pos - 1) /\ b <= Len(offsets)
            BY <1>0, <2>0, <3>6, <4>3 DEF Bins
          <5> QED BY <3>4, <3>5, <4>1, <5>1 DEF Placing
        <4> QED BY <4>2, <4>3
      <3>7. \A b \in Bins : b <= Len(offsets') => offsets'[b] = FreeFrom(b - 1)' /\ offsets'[b] % Page = 0
        BY <3>4, <3>6, Zenon
      <3>8. ~(pc' > 1) /\ pc' # 9 /\ ~(pc' > 9)
        BY <3>1
      <3> QED BY <3>7, <3>8, Zenon DEF Placing
    <2>2. CASE ~(pos <= NBins)
      <3>1. /\ offsets' = offsets /\ pc' = 2 /\ tls_offset' = FreeFrom(NBins)
            /\ ehframe_offset' = AlignNext(tls_offset' + TLSMemSize, Page)
            /\ mprotect_offset' = AlignNext(ehframe_offset' + EHFrameSize, Page)
        BY <1>1, <2>0, <2>2 DEF DecideMemOffset, Return
      <3>2. \A b \in 0..NBins : FreeFrom(b)' = FreeFrom(b)
        BY <1>a, <3>1 DEF FreeFrom, Bins
      <3>3. \A b \in Bins : b - 1 \in 0..NBins
        BY <1>0 DEF Bins
      <3>4. NBins \in 0..NBins
        BY <1>0
      <3> QED BY <1>0, <3>1, <3>2, <3>3, <3>4 DEF Placing
    <2> QED BY <2>1, <2>2
  <1>2. CASE pc # 1
    <2>1. offsets' = offsets /\ tls_offset' = tls_offset /\ ehframe_offset' = ehframe_offset
          /\ mprotect_offset' = mprotect_offset
      BY <1>0, <1>2, Frame DEF mem
    <2>2. \A b \in 0..NBins : FreeFrom(b)' = FreeFrom(b)
      BY <1>a, <2>1 DEF FreeFrom, Bins
    <2>3. (\A b \in Bins : b - 1 \in 0..NBins) /\ NBins \in 0..NBins
      BY <1>0 DEF Bins
    <2>4. \A b \in Bins : b <= Len(offsets') => offsets'[b] = FreeFrom(b - 1)' /\ offsets'[b] % Page = 0
      BY <2>1, <2>2, <2>3 DEF Placing
    <2>5. pc' > 1 => /\ tls_offset' = FreeFrom(NBins)'
                     /\ ehframe_offset' = AlignNext(tls_offset' + TLSMemSize', Page)
                     /\ mprotect_offset' = AlignNext(ehframe_offset' + EHFrameSize', Page)
      BY <1>0, <1>2, <2>1, <2>2, <2>3 DEF Placing
    <2>6. (pc' = 9 /\ pos' > 1) \/ pc' > 9 => CodeOffset' < offsets'[1]
      <3>1. CASE pc < 8
        BY <1>0, <3>1
      <3>2. CASE pc = 8
        BY <1>0, <3>2, CallOf DEF BuildDynamic, Return
      <3>3. CASE pc > 8
        <4>1. CodeOffset' = CodeOffset
          BY <1>0, <3>3, HeadDone, CodeKept
        <4>2. SUFFICES ASSUME pc' # 0 PROVE CodeOffset < offsets[1]
          BY <1>0, <2>1, <4>1
        <4>3. CASE pc > 9 \/ (pc = 9 /\ pos > 1)
          BY <4>3 DEF Placing
        <4>4. CASE pc = 9 /\ pos = 1
          <5>1. ~(CodeOffset >= offsets[1])
            BY <1>0, <4>2, <4>4, CallOf DEF BuildLoads, Abort
          <5>2. CodeOffset \in Nat /\ offsets[1] \in Nat
            <6>1. 1 \in 1..Len(offsets)
              BY <1>0, <4>4 DEF Moving
            <6> QED BY <1>0, <6>1, HeadTyped, ElementOfSeq
          <5> QED BY <5>1, <5>2
        <4> QED BY <1>0, <3>3, <4>3, <4>4
      <3> QED BY <1>0, <3>1, <3>2, <3>3
    <2> QED BY <2>4, <2>5, <2>6 DEF Placing
  <1> QED BY <1>1, <1>2

LEMMA PlacingInvariant == Spec => []Placing
  <1>1. Init => Placing
    <2> SUFFICES ASSUME Init PROVE Placing
      OBVIOUS
    <2>1. pc = 1 /\ pos = 1 /\ Len(offsets) = 0
      BY DEF Init
    <2> QED BY <2>1 DEF Placing, Bins
  <1>2. LayoutInv /\ Placing /\ [Next]_vars => Placing'
    <2> SUFFICES ASSUME LayoutInv, Placing, [Next]_vars PROVE Placing'
      OBVIOUS
    <2>1. CASE Next
      BY <2>1, PlacingStep
    <2>2. CASE UNCHANGED vars
      <3>1. /\ bin' = bin /\ phdr' = phdr /\ pc' = pc /\ pos' = pos /\ mem' = mem /\ tls_' = tls_
            /\ arrays' = arrays /\ rels' = rels /\ sizes' = sizes /\ dynamic' = dynamic
        BY <2>2 DEF vars
      <3>2. /\ offsets' = offsets /\ tls_offset' = tls_offset /\ ehframe_offset' = ehframe_offset
            /\ mprotect_offset' = mprotect_offset /\ memsz' = memsz
            /\ init_array' = init_array /\ fini_array' = fini_array
            /\ nsyms' = nsyms /\ nverneed' = nverneed /\ nvernaux' = nvernaux /\ strtab' = strtab
        BY <3>1 DEF mem, tls_, arrays, sizes
      <3>3. CodeOffset' = CodeOffset /\ TLSMemSize' = TLSMemSize /\ EHFrameSize' = EHFrameSize
        BY <3>1, <3>2, CodeKept, SumsKept
      <3>4. \A b : RangeEnd(b)' = RangeEnd(b)
        BY <3>1 DEF RangeEnd, Ends
      <3>5. \A b : FreeFrom(b)' = FreeFrom(b)
        BY <3>2, <3>4, SMT DEF FreeFrom
      <3> QED BY <3>1, <3>2, <3>3, <3>5 DEF Placing
    <2> QED BY <2>1, <2>2
  <1> QED BY <1>1, <1>2, LayoutInvariant, PTL DEF Spec

\* The parts of Segments: the head, the binaries, the template when there is
\* one, .eh_frame_hdr and the code of RELRO.
HeadSegment  == Segment(0, AlignNext(DynamicOffset + DynamicSize, Page),
                        AlignNext(DynamicOffset + DynamicSize, Page), 0)
LoadSegments == [k \in DOMAIN loads |-> Segment(loads[k].vaddr, loads[k].filesz, loads[k].memsz, loads[k].offset)]
TLSSegment   == Segment(tls_offset, filesz, memsz, tls_file_offset)
TLSSegments  == IF memsz > 0 THEN <<TLSSegment>> ELSE <<>>
EHSegment    == Segment(ehframe_offset, 12 + 8 * Len(eh_table), 12 + 8 * Len(eh_table), ehframe_file_offset)
MprotectSegment == Segment(mprotect_offset, MprotectSize, MprotectSize, mprotect_file_offset)

AnySegment == [vaddr : Nat, filesz : Nat, memsz : Nat, offset : Nat]

WithTLS == IF memsz > 0 THEN 1 ELSE 0

LEMMA SegmentsTyped ==
    ASSUME Typed
    PROVE  /\ HeadSegment \in AnySegment /\ LoadSegments \in Seq(AnySegment) /\ TLSSegment \in AnySegment
           /\ EHSegment \in AnySegment /\ MprotectSegment \in AnySegment
           /\ Len(LoadSegments) = Len(loads) /\ Len(loads) \in Nat
           /\ \A k \in 1..Len(loads) :
                LoadSegments[k] = Segment(loads[k].vaddr, loads[k].filesz, loads[k].memsz, loads[k].offset)
  <1>1. \A a, n, m, o \in Nat : Segment(a, n, m, o) \in AnySegment
    BY DEF Segment, AnySegment
  <1>2. AlignNext(DynamicOffset + DynamicSize, Page) \in Nat
    <2>1. DynamicOffset + DynamicSize \in Nat
      BY HeadTyped
    <2> QED BY <2>1, PageAlign
  <1>3. 0 \in Nat /\ 12 + 8 * Len(eh_table) \in Nat
    BY LenProperties DEF Typed, Tables
  <1>4. /\ tls_offset \in Nat /\ ehframe_offset \in Nat /\ mprotect_offset \in Nat /\ filesz \in Nat
        /\ memsz \in Nat /\ tls_file_offset \in Nat /\ ehframe_file_offset \in Nat
        /\ mprotect_file_offset \in Nat /\ MprotectSize \in Nat
    BY SumsTyped DEF Typed, Counters
  <1>5. /\ HeadSegment \in AnySegment /\ TLSSegment \in AnySegment /\ EHSegment \in AnySegment
        /\ MprotectSegment \in AnySegment
    BY <1>1, <1>2, <1>3, <1>4 DEF HeadSegment, TLSSegment, EHSegment, MprotectSegment
  <1>6. /\ Len(loads) \in Nat /\ DOMAIN loads = 1..Len(loads)
        /\ \A k \in 1..Len(loads) : loads[k] \in LoadSegment
    BY LenProperties, ElementOfSeq DEF Typed, Tables
  <1>7. \A k \in 1..Len(loads) :
          Segment(loads[k].vaddr, loads[k].filesz, loads[k].memsz, loads[k].offset) \in AnySegment
    BY <1>1, <1>6 DEF LoadSegment
  <1> QED BY <1>5, <1>6, <1>7 DEF LoadSegments

LEMMA SegmentsAt ==
    ASSUME Typed
    PROVE  /\ WithTLS \in {0, 1} /\ Len(Segments) = 1 + Len(loads) + WithTLS + 2
           /\ DOMAIN Segments = 1..(1 + Len(loads) + WithTLS + 2)
           /\ Segments[1] = HeadSegment
           /\ \A k \in 1..Len(loads) : Segments[1 + k] = LoadSegments[k]
           /\ WithTLS = 1 => Segments[1 + Len(loads) + 1] = TLSSegment
           /\ Segments[1 + Len(loads) + WithTLS + 1] = EHSegment
           /\ Segments[1 + Len(loads) + WithTLS + 2] = MprotectSegment
  <1> DEFINE L == Len(loads)
             H == <<HeadSegment>>
             T == <<EHSegment, MprotectSegment>>
             A == H \o LoadSegments
             B == A \o TLSSegments
  <1>1. L \in Nat /\ WithTLS \in {0, 1} /\ WithTLS \in Nat /\ Len(LoadSegments) = L
    BY SegmentsTyped DEF WithTLS
  <1>2. /\ H \in Seq(AnySegment) /\ LoadSegments \in Seq(AnySegment)
        /\ TLSSegments \in Seq(AnySegment) /\ T \in Seq(AnySegment)
    BY SegmentsTyped DEF TLSSegments
  <1>3. /\ Len(H) = 1 /\ H[1] = HeadSegment /\ Len(T) = 2 /\ T[1] = EHSegment /\ T[2] = MprotectSegment
    OBVIOUS
  <1>4. Len(TLSSegments) = WithTLS /\ (WithTLS = 1 => TLSSegments[1] = TLSSegment)
    BY DEF TLSSegments, WithTLS
  <1>5. Segments = B \o T
    BY DEF Segments, HeadSegment, LoadSegments, TLSSegments, TLSSegment, EHSegment, MprotectSegment
  <1> HIDE DEF H, T
  <1>6. A \in Seq(AnySegment) /\ Places(H, LoadSegments)
    BY <1>2, ConcatPlaces
  <1>7. B \in Seq(AnySegment) /\ Places(A, TLSSegments)
    BY <1>2, <1>6, ConcatPlaces
  <1>8. Segments \in Seq(AnySegment) /\ Places(B, T)
    BY <1>2, <1>5, <1>7, ConcatPlaces
  <1> HIDE DEF L, A, B
  <1>9. Len(A) = 1 + L /\ A[1] = HeadSegment /\ \A k \in 1..L : A[1 + k] = LoadSegments[k]
    BY <1>1, <1>3, <1>6 DEF Places, A
  <1>10. /\ Len(B) = (1 + L) + WithTLS /\ \A i \in 1..(1 + L) : B[i] = A[i]
         /\ \A i \in 1..WithTLS : B[(1 + L) + i] = TLSSegments[i]
    BY <1>4, <1>7, <1>9 DEF Places, B
  <1>11. /\ Len(Segments) = ((1 + L) + WithTLS) + 2
         /\ \A i \in 1..((1 + L) + WithTLS) : Segments[i] = B[i]
         /\ \A i \in 1..2 : Segments[((1 + L) + WithTLS) + i] = T[i]
    BY <1>3, <1>5, <1>8, <1>10 DEF Places
  <1>12. /\ 1 \in 1..(1 + L) /\ 1 \in 1..((1 + L) + WithTLS)
         /\ \A k \in 1..L : 1 + k \in 1..(1 + L) /\ 1 + k \in 1..((1 + L) + WithTLS)
         /\ WithTLS = 1 => 1 \in 1..WithTLS /\ (1 + L) + 1 \in 1..((1 + L) + WithTLS)
         /\ 1 \in 1..2 /\ 2 \in 1..2
    BY <1>1
  <1>13. Segments[1] = HeadSegment /\ \A k \in 1..L : Segments[1 + k] = LoadSegments[k]
    BY <1>9, <1>10, <1>11, <1>12
  <1>14. WithTLS = 1 => Segments[(1 + L) + 1] = TLSSegment
    BY <1>4, <1>10, <1>11, <1>12
  <1>15. Segments[((1 + L) + WithTLS) + 1] = EHSegment /\ Segments[((1 + L) + WithTLS) + 2] = MprotectSegment
    BY <1>3, <1>11, <1>12
  <1>16. DOMAIN Segments = 1..(((1 + L) + WithTLS) + 2)
    BY <1>8, <1>11, LenProperties
  <1> QED BY <1>1, <1>11, <1>13, <1>14, <1>15, <1>16 DEF L

\* The segments of a binary are those of its file, moved by its offset, which is
\* a whole number of pages.
MovedSegment(k, b, i) ==
    /\ b \in Bins /\ i \in 1..Len(bin[b].loads) /\ offsets[b] \in Nat /\ offsets[b] % Page = 0
    /\ bin[b].loads[i].vaddr \in Nat /\ bin[b].loads[i].memsz \in Nat
    /\ loads[k].vaddr = bin[b].loads[i].vaddr + offsets[b]
    /\ loads[k].memsz = bin[b].loads[i].memsz /\ loads[k].filesz = bin[b].loads[i].filesz
    /\ loads[k].offset = FreeAt(k) + (bin[b].loads[i].vaddr % Page)

\* Which segment comes where: one of the file it comes from, the next segment of
\* which follows, or, after its last one, the first of the next binary.
SegmentOrder ==
    /\ Len(loads) > 0 /\ MovedSegment(1, 1, 1)
    /\ MovedSegment(Len(loads), NBins, Len(bin[NBins].loads))
    /\ \A k \in 1..Len(loads) : \E b \in Bins : \E i \in 1..Len(bin[b].loads) :
         /\ MovedSegment(k, b, i)
         /\ k < Len(loads) => \/ i < Len(bin[b].loads) /\ MovedSegment(k + 1, b, i + 1)
                              \/ b < NBins /\ MovedSegment(k + 1, b + 1, 1)

LEMMA SegmentsOrdered ==
    ASSUME LayoutInv, Placing, pc = 14
    PROVE  SegmentOrder
  <1> DEFINE items == [b \in Bins |-> bin[b].loads]
             n == [b \in Bins |-> Len(items[b])]
             L == Len(loads)
  <1>0. /\ Typed /\ Moving /\ Loading /\ Inputs /\ NBins \in Nat \ {0} /\ Len(offsets) = NBins
        /\ L = Len(AllLoads) /\ L \in Nat /\ AllLoads = Joined(items)
        /\ \A k \in 1..L : loads[k] = LoadOf(k)
    <2>1. Typed /\ Moving /\ Loading /\ Inputs /\ NBins \in Nat \ {0} /\ Len(loads) \in Nat
      BY NBinsAssumption, LenProperties DEF LayoutInv, Typed, Tables
    <2>2. Len(offsets) = NBins /\ AllLoads = Joined(items)
      BY <2>1 DEF Moving, AllLoads
    <2>3. L = Len(AllLoads) /\ \A k \in 1..L : loads[k] = LoadOf(k)
      BY <2>1 DEF Loading, LoadOf
    <2> QED BY <2>1, <2>2, <2>3
  <1>1. /\ items \in [Bins -> Seq(Extent)] /\ n \in [1..NBins -> Int]
        /\ \A b \in Bins : /\ items[b] = bin[b].loads /\ n[b] = Len(items[b]) /\ n[b] \in Nat \ {0}
                           /\ \A i \in 1..n[b] : items[b][i] \in Extent
    <2>1. \A b \in Bins : bin[b].loads \in Seq(Extent) /\ bin[b].loads # <<>>
      BY <1>0, BinTyped DEF Moving, Movable
    <2>2. \A b \in Bins : Len(bin[b].loads) \in Nat \ {0}
      BY <2>1, LenProperties, EmptySeq
    <2>3. \A b \in Bins : \A i \in 1..Len(bin[b].loads) : bin[b].loads[i] \in Extent
      BY <2>1, ElementOfSeq
    <2> QED BY <2>1, <2>2, <2>3 DEF Bins
  <1> HIDE DEF items, n
  <1>2. PICK s : RunningSum(NBins, s, n)
    BY <1>0, <1>1, RunningSumExists
  <1>3. Len(Joined(items)) = s[NBins] /\ JoinedAt(items, s)
    <2>1. RunningSum(NBins, s, [b \in Bins |-> Len(items[b])])
      BY <1>2 DEF n
    <2> QED BY <1>1, <2>1, JoinedPlaces
  <1>4. /\ s[0] = 0 /\ \A b \in Bins : s[b] = s[b - 1] + n[b] /\ s[b] \in Int /\ s[b - 1] \in Int
    <2>1. \A b \in Bins : b \in 1..NBins /\ b \in 0..NBins /\ b - 1 \in 0..NBins
      BY <1>0 DEF Bins
    <2> QED BY <1>2, <2>1 DEF RunningSum
  <1>5. ASSUME NEW b \in Bins, NEW i \in 1..n[b]
        PROVE  s[b - 1] + i \in 1..L /\ MovedSegment(s[b - 1] + i, b, i)
    <2> DEFINE k == s[b - 1] + i
    <2>1. k \in 1..L /\ AllLoads[k] = <<b, items[b][i]>>
      <3>1. i \in 1..Len(items[b])
        BY <1>1
      <3> QED BY <1>0, <1>3, <3>1 DEF JoinedAt
    <2>2. loads[k] = LoadOf(k)
      BY <1>0, <2>1
    <2> HIDE DEF k
    <2>3. items[b] = bin[b].loads /\ items[b][i] \in Extent /\ i \in 1..Len(bin[b].loads)
      BY <1>1
    <2>4. offsets[b] \in Nat /\ offsets[b] % Page = 0
      <3>1. b \in 1..Len(offsets) /\ b <= Len(offsets)
        BY <1>0 DEF Bins
      <3> QED BY <1>0, <3>1, ElementOfSeq DEF Placing, Typed, Tables
    <2>5. AllLoads[k][1] = b /\ AllLoads[k][2] = bin[b].loads[i]
      BY <2>1, <2>3
    <2>6. bin[b].loads[i].vaddr \in Nat /\ bin[b].loads[i].memsz \in Nat
      BY <2>3 DEF Extent
    <2>7. MovedSegment(k, b, i)
      BY <2>2, <2>3, <2>4, <2>5, <2>6 DEF MovedSegment, LoadOf
    <2> QED BY <2>1, <2>7 DEF k
  <1>6. L > 0 /\ MovedSegment(1, 1, 1)
    <2>1. 1 \in Bins /\ 1 \in 1..n[1] /\ s[1 - 1] + 1 = 1
      BY <1>0, <1>1, <1>4 DEF Bins
    <2> QED BY <1>0, <1>5, <2>1
  <1>7. MovedSegment(L, NBins, Len(bin[NBins].loads))
    <2>1. NBins \in Bins
      BY <1>0 DEF Bins
    <2>2. n[NBins] \in 1..n[NBins] /\ s[NBins - 1] + n[NBins] = s[NBins] /\ n[NBins] = Len(bin[NBins].loads)
      BY <1>1, <1>4, <2>1
    <2> QED BY <1>0, <1>3, <1>5, <2>1, <2>2
  <1>8. ASSUME NEW k \in 1..L
        PROVE  \E b \in Bins : \E i \in 1..Len(bin[b].loads) :
                 /\ MovedSegment(k, b, i)
                 /\ k < L => \/ i < Len(bin[b].loads) /\ MovedSegment(k + 1, b, i + 1)
                             \/ b < NBins /\ MovedSegment(k + 1, b + 1, 1)
    <2>1. PICK b \in Bins : \E i \in 1..Len(items[b]) : k = s[b - 1] + i
      BY <1>0, <1>3 DEF JoinedAt
    <2>2. PICK i \in 1..Len(items[b]) : k = s[b - 1] + i
      BY <2>1
    <2>3. i \in 1..n[b] /\ n[b] = Len(bin[b].loads) /\ n[b] \in Nat
      BY <1>1
    <2>4. MovedSegment(k, b, i)
      BY <1>5, <2>2, <2>3
    <2>5. CASE i < n[b]
      <3>1. i + 1 \in 1..n[b] /\ s[b - 1] + (i + 1) = k + 1
        BY <1>4, <2>2, <2>3, <2>5
      <3>2. MovedSegment(k + 1, b, i + 1)
        BY <1>5, <3>1
      <3> QED BY <2>3, <2>4, <2>5, <3>2
    <2>6. CASE ~(i < n[b]) /\ k < L
      <3>1. i = n[b] /\ k = s[b]
        BY <1>4, <2>2, <2>3, <2>6
      <3>2. b # NBins
        BY <1>0, <1>3, <2>6, <3>1
      <3>3. b + 1 \in Bins /\ b < NBins /\ (b + 1) - 1 = b
        BY <1>0, <3>2 DEF Bins
      <3>4. 1 \in 1..n[b + 1]
        BY <1>1, <3>3
      <3>5. s[(b + 1) - 1] + 1 = k + 1
        BY <3>1, <3>3
      <3>6. MovedSegment(k + 1, b + 1, 1)
        BY <1>5, <3>3, <3>4, <3>5
      <3> QED BY <2>3, <2>4, <3>3, <3>6
    <2>7. CASE ~(k < L)
      BY <2>3, <2>4, <2>7
    <2> QED BY <2>5, <2>6, <2>7
  <1> QED BY <1>6, <1>7, <1>8 DEF SegmentOrder

\* The first free page of the file is on a page.
LEMMA FreeOnPage ==
    ASSUME Typed, NEW k \in 1..Len(loads)
    PROVE  FreeAt(k) \in Nat /\ FreeAt(k) % Page = 0
  <1>1. CASE k = 1
    <2>1. CodeOffset \in Nat /\ CodeOffset % Page = 0
      <3>1. ShstrtabOffset + ShstrtabSize \in Nat
        <4>1. ShstrtabOffset \in Nat /\ ShstrtabSize \in Nat
          BY HeadTyped
        <4> QED BY <4>1
      <3> QED BY <3>1, PageAlign DEF CodeOffset
    <2> QED BY <1>1, <2>1 DEF FreeAt
  <1>2. CASE k # 1
    <2>1. k - 1 \in 1..Len(loads)
      BY <1>2, LenProperties DEF Typed, Tables
    <2>2. loads[k - 1] \in LoadSegment
      BY <2>1, ElementOfSeq DEF Typed, Tables
    <2>3. loads[k - 1].offset + loads[k - 1].filesz \in Nat
      BY <2>2 DEF LoadSegment
    <2> QED BY <1>2, <2>3, PageAlign DEF FreeAt
  <1> QED BY <1>1, <1>2

Congruent(g) == g.vaddr % Page = g.offset % Page

LEMMA LoadsApart ==
    ASSUME LayoutInv, Placing, PagesApart, pc = 14
    PROVE  /\ Len(loads) \in Nat /\ Len(loads) > 0
           /\ \A k \in 1..Len(loads) : /\ Congruent(loads[k])
                                       /\ k < Len(loads) => Apart(loads[k], loads[k + 1])
           /\ loads[1].vaddr - (loads[1].vaddr % Page) = offsets[1]
           /\ AlignNext(loads[Len(loads)].vaddr + loads[Len(loads)].memsz, Page) <= tls_offset
           /\ tls_offset % Page = 0
  <1> DEFINE L == Len(loads)
  <1>0. /\ Typed /\ Inputs /\ NBins \in Nat \ {0} /\ L \in Nat /\ Len(offsets) = NBins
        /\ \A b \in Bins : Movable(b) /\ bin[b].loads # <<>> /\ bin[b].loads[1].vaddr = 0
        /\ SegmentOrder
    BY NBinsAssumption, LenProperties, SegmentsOrdered
    DEF LayoutInv, Typed, Tables, Moving, Movable, RangeStart
  \* What moves with a binary.
  <1>1. ASSUME NEW k \in 1..L, NEW b \in Bins, NEW i \in 1..Len(bin[b].loads), MovedSegment(k, b, i)
        PROVE  /\ Congruent(loads[k])
               /\ loads[k].vaddr - (loads[k].vaddr % Page)
                    = (bin[b].loads[i].vaddr - (bin[b].loads[i].vaddr % Page)) + offsets[b]
               /\ AlignNext(loads[k].vaddr + loads[k].memsz, Page)
                    = AlignNext(bin[b].loads[i].vaddr + bin[b].loads[i].memsz, Page) + offsets[b]
    <2> DEFINE x == bin[b].loads[i].vaddr
               m == bin[b].loads[i].memsz
               o == offsets[b]
               f == FreeAt(k)
    <2>1. /\ x \in Nat /\ m \in Nat /\ o \in Nat /\ o % Page = 0
          /\ loads[k].vaddr = x + o /\ loads[k].memsz = m /\ loads[k].offset = f + (x % Page)
      BY <1>1 DEF MovedSegment
    <2>2. f \in Nat /\ f % Page = 0
      BY <1>0, FreeOnPage
    <2> HIDE DEF x, m, o, f
    <2>3. (x + o) % Page = (f + (x % Page)) % Page /\ (x + o) - ((x + o) % Page) = (x - (x % Page)) + o
      BY <2>1, <2>2, Moves
    <2>4. AlignNext((x + m) + o, Page) = AlignNext(x + m, Page) + o
      <3>1. x + m \in Nat
        BY <2>1
      <3> QED BY <2>1, <3>1, Moves
    <2>5. (x + o) + m = (x + m) + o
      BY <2>1
    <2> QED BY <2>1, <2>3, <2>4, <2>5 DEF Congruent, x, m, o
  \* The end of a segment is not above that of its binary.
  <1>2. ASSUME NEW b \in Bins, NEW i \in 1..Len(bin[b].loads)
        PROVE  /\ AlignNext(bin[b].loads[i].vaddr + bin[b].loads[i].memsz, Page) <= RangeEnd(b)
               /\ AlignNext(bin[b].loads[i].vaddr + bin[b].loads[i].memsz, Page) \in Nat
               /\ RangeEnd(b) \in Nat
    <2>1. bin[b].loads[i] \in Range(bin[b].loads) /\ bin[b].loads[i] \in Extent
      BY <1>0, <1>2, BinTyped, LenProperties, ElementOfSeq DEF Range
    <2>2. AlignNext(bin[b].loads[i].vaddr + bin[b].loads[i].memsz, Page) \in Ends(b)
      BY <2>1 DEF Ends
    <2>3. bin[b].loads[i].vaddr + bin[b].loads[i].memsz \in Nat
      BY <2>1 DEF Extent
    <2> QED BY <1>0, <2>2, <2>3, RangeEndTyped, PageAlign
  <1>3. ASSUME NEW k \in 1..L, NEW b \in Bins, NEW i \in 1..Len(bin[b].loads), MovedSegment(k, b, i)
        PROVE  AlignNext(loads[k].vaddr + loads[k].memsz, Page) <= FreeFrom(b)
    <2>1. FreeFrom(b) = offsets[b] + RangeEnd(b)
      <3>1. b # 0
        BY DEF Bins
      <3> QED BY <3>1, SMT DEF FreeFrom
    <2>2. offsets[b] \in Nat
      BY <1>3 DEF MovedSegment
    <2>3. \A x, y, z \in Nat : x <= y => x + z <= z + y
      OBVIOUS
    <2> QED BY <1>1, <1>2, <1>3, <2>1, <2>2, <2>3
  <1>4. \A b \in Bins : offsets[b] = FreeFrom(b - 1)
    BY <1>0 DEF Placing, Bins
  <1>5. ASSUME NEW k \in 1..L
        PROVE  Congruent(loads[k]) /\ (k < L => Apart(loads[k], loads[k + 1]))
    <2>1. PICK b \in Bins : \E i \in 1..Len(bin[b].loads) :
            /\ MovedSegment(k, b, i)
            /\ k < L => \/ i < Len(bin[b].loads) /\ MovedSegment(k + 1, b, i + 1)
                        \/ b < NBins /\ MovedSegment(k + 1, b + 1, 1)
      BY <1>0 DEF SegmentOrder
    <2>2. PICK i \in 1..Len(bin[b].loads) :
            /\ MovedSegment(k, b, i)
            /\ k < L => \/ i < Len(bin[b].loads) /\ MovedSegment(k + 1, b, i + 1)
                        \/ b < NBins /\ MovedSegment(k + 1, b + 1, 1)
      BY <2>1
    <2>3. Congruent(loads[k])
      BY <1>1, <2>2
    <2>4. CASE k < L /\ i < Len(bin[b].loads) /\ MovedSegment(k + 1, b, i + 1)
      <3>1. /\ k + 1 \in 1..L /\ i + 1 \in 1..Len(bin[b].loads)
            /\ i \in 1..(Len(bin[b].loads) - 1)
        <4>1. Len(bin[b].loads) \in Nat /\ L \in Nat
          BY <1>0, BinTyped, LenProperties
        <4>2. \A x, n \in Nat : x \in 1..n /\ x < n => x + 1 \in 1..n /\ x \in 1..(n - 1)
          OBVIOUS
        <4>3. i \in Nat /\ k \in Nat
          OBVIOUS
        <4> HIDE DEF L
        <4> QED BY <2>4, <4>1, <4>2, <4>3
      <3> DEFINE e == AlignNext(bin[b].loads[i].vaddr + bin[b].loads[i].memsz, Page)
                 a == bin[b].loads[i + 1].vaddr - (bin[b].loads[i + 1].vaddr % Page)
      <3>2. e <= a
        BY <3>1 DEF PagesApart, Apart
      <3>3. e \in Nat /\ a \in Int /\ offsets[b] \in Nat
        <4>1. bin[b].loads[i + 1].vaddr \in Nat /\ offsets[b] \in Nat
          BY <2>4 DEF MovedSegment
        <4>2. a \in Int
          BY <4>1 DEF Page
        <4> QED BY <1>2, <4>1, <4>2
      <3>4. /\ AlignNext(loads[k].vaddr + loads[k].memsz, Page) = e + offsets[b]
            /\ loads[k + 1].vaddr - (loads[k + 1].vaddr % Page) = a + offsets[b]
        BY <1>1, <2>2, <2>4, <3>1
      <3> HIDE DEF e, a
      <3>5. e + offsets[b] <= a + offsets[b]
        BY <3>2, <3>3
      <3> QED BY <2>3, <3>4, <3>5 DEF Apart
    <2>5. CASE k < L /\ b < NBins /\ MovedSegment(k + 1, b + 1, 1)
      <3>1. k + 1 \in 1..L /\ b + 1 \in Bins /\ (b + 1) - 1 = b
        <4>1. L \in Nat /\ NBins \in Nat /\ b \in 1..NBins
          BY <1>0 DEF Bins
        <4> HIDE DEF L
        <4>2. k + 1 \in 1..L
          BY <2>5, <4>1
        <4> QED BY <2>5, <4>1, <4>2 DEF Bins
      <3>2. 1 \in 1..Len(bin[b + 1].loads)
        BY <2>5 DEF MovedSegment
      <3>3. loads[k + 1].vaddr - (loads[k + 1].vaddr % Page) = (0 - (0 % Page)) + offsets[b + 1]
        BY <1>0, <1>1, <2>5, <3>1, <3>2
      <3>4. (0 - (0 % Page)) + offsets[b + 1] = FreeFrom(b)
        <4>1. offsets[b + 1] \in Nat /\ offsets[b + 1] = FreeFrom(b)
          BY <1>4, <2>5, <3>1 DEF MovedSegment
        <4>2. \A x \in Nat : (0 - (0 % Page)) + x = x
          BY DEF Page
        <4> QED BY <4>1, <4>2
      <3>5. AlignNext(loads[k].vaddr + loads[k].memsz, Page) <= FreeFrom(b)
        BY <1>3, <2>2
      <3> QED BY <2>3, <3>3, <3>4, <3>5 DEF Apart
    <2> QED BY <2>2, <2>3, <2>4, <2>5
  <1>6. L > 0 /\ loads[1].vaddr - (loads[1].vaddr % Page) = offsets[1]
    <2>1. L > 0 /\ MovedSegment(1, 1, 1)
      BY <1>0 DEF SegmentOrder
    <2>2. 1 \in 1..L /\ 1 \in Bins /\ 1 \in 1..Len(bin[1].loads) /\ offsets[1] \in Nat
      BY <1>0, <2>1 DEF MovedSegment
    <2>3. loads[1].vaddr - (loads[1].vaddr % Page) = (0 - (0 % Page)) + offsets[1]
      BY <1>0, <1>1, <2>1, <2>2
    <2>4. \A x \in Nat : (0 - (0 % Page)) + x = x
      BY DEF Page
    <2> QED BY <2>1, <2>2, <2>3, <2>4
  <1>7. AlignNext(loads[L].vaddr + loads[L].memsz, Page) <= tls_offset
    <2>1. L \in 1..L /\ NBins \in Bins /\ MovedSegment(L, NBins, Len(bin[NBins].loads))
      BY <1>0, <1>6 DEF SegmentOrder, Bins
    <2>2. Len(bin[NBins].loads) \in 1..Len(bin[NBins].loads) /\ tls_offset = FreeFrom(NBins)
      BY <2>1 DEF MovedSegment, Placing
    <2> QED BY <1>3, <2>1, <2>2
  <1>8. tls_offset % Page = 0
    <2>1. NBins \in 0..NBins /\ NBins \in 1..Len(offsets) /\ NBins \in Bins /\ NBins <= Len(offsets)
      BY <1>0 DEF Bins
    <2>2. FreeFrom(NBins) % Page = 0
      BY <1>0, <2>1, FreeFromOnPage DEF Placing
    <2> QED BY <2>2 DEF Placing
  <1> QED BY <1>0, <1>5, <1>6, <1>7, <1>8

\* Emit has written every item at its place.
LEMMA ItemsWritten ==
    ASSUME LayoutInv, pc = 14
    PROVE  \A k \in 1..Len(Items) : \E w \in Range(file) : w.at = Items[k].at /\ w.size = Items[k].size
  <1>1. SUFFICES ASSUME NEW k \in 1..Len(Items)
                 PROVE  \E w \in Range(file) : w.at = Items[k].at /\ w.size = Items[k].size
    OBVIOUS
  <1>2. Emitting /\ Len(file) = Len(Items) /\ pc \in 13..14 /\ DOMAIN file = 1..Len(file)
    BY LenProperties DEF LayoutInv, Emitting, Typed, Tables
  <1>3. file[k] = [what |-> Items[k].what, at |-> Items[k].at, size |-> Items[k].size]
    BY <1>2, Zenon DEF Emitting
  <1>4. file[k] \in Range(file)
    BY <1>2 DEF Range
  <1> QED BY <1>3, <1>4

\* What SegmentsMap says of the j-th segment.
Mapped(j) ==
    /\ Congruent(Segments[j])
    /\ j > 1 => \E w \in Range(file) : w.at = Segments[j].offset /\ w.size = Segments[j].filesz
    /\ j < Len(Segments) => Apart(Segments[j], Segments[j + 1])

LEMMA SegmentsMapped ==
    ASSUME LayoutInv, Placing, PagesApart, pc = 14, NEW j \in DOMAIN Segments
    PROVE  Mapped(j)
  <1> DEFINE L == Len(loads)
             N == WithTLS
             B(g) == \E w \in Range(file) : w.at = g.offset /\ w.size = g.filesz
  <1>0. /\ Typed /\ Collecting /\ Loading /\ Merging /\ Moving
        /\ memsz = TLSMemSize /\ filesz = TLSFileSize /\ EHFrameSize = 12 + 8 * Len(eh_table)
        /\ tls_file_offset = FileFree
        /\ ehframe_file_offset = AlignNext(tls_file_offset + TLSFileSize, Page)
        /\ mprotect_file_offset = AlignNext(ehframe_file_offset + EHFrameSize, Page)
    BY DEF LayoutInv, Collecting, Loading, Merging
  <1>1. /\ L \in Nat /\ L > 0 /\ \A k \in 1..L : Congruent(loads[k])
        /\ \A k \in 1..L : k < L => Apart(loads[k], loads[k + 1])
        /\ loads[1].vaddr - (loads[1].vaddr % Page) = offsets[1]
        /\ AlignNext(loads[L].vaddr + loads[L].memsz, Page) <= tls_offset
        /\ tls_offset % Page = 0
    BY LoadsApart
  <1>2. /\ N \in {0, 1} /\ Len(Segments) = 1 + L + N + 2 /\ DOMAIN Segments = 1..(1 + L + N + 2)
        /\ Segments[1] = HeadSegment /\ \A k \in 1..L : Segments[1 + k] = LoadSegments[k]
        /\ N = 1 => Segments[1 + L + 1] = TLSSegment
        /\ Segments[1 + L + N + 1] = EHSegment /\ Segments[1 + L + N + 2] = MprotectSegment
    BY <1>0, SegmentsAt
  <1>3. \A k \in 1..L :
          LoadSegments[k] = Segment(loads[k].vaddr, loads[k].filesz, loads[k].memsz, loads[k].offset)
    BY <1>0, SegmentsTyped
  <1>4. /\ tls_offset \in Nat /\ TLSMemSize \in Nat /\ EHFrameSize \in Nat /\ TLSFileSize \in Nat
        /\ ehframe_offset = AlignNext(tls_offset + TLSMemSize, Page)
        /\ mprotect_offset = AlignNext(ehframe_offset + EHFrameSize, Page)
        /\ ehframe_offset \in Nat /\ mprotect_offset \in Nat /\ tls_file_offset \in Nat
        /\ ehframe_file_offset \in Nat /\ mprotect_file_offset \in Nat
        /\ filesz \in Nat /\ CodeOffset < offsets[1]
    BY <1>0, SumsTyped DEF Typed, Counters, Placing
  <1>5. /\ ehframe_offset % Page = 0 /\ mprotect_offset % Page = 0
        /\ ehframe_file_offset % Page = 0 /\ mprotect_file_offset % Page = 0
    <2>1. /\ tls_offset + TLSMemSize \in Nat /\ ehframe_offset + EHFrameSize \in Nat
          /\ tls_file_offset + TLSFileSize \in Nat /\ ehframe_file_offset + EHFrameSize \in Nat
      <3>1. \A x, y \in Nat : x + y \in Nat
        OBVIOUS
      <3> QED BY <1>4, <3>1, Zenon
    <2> QED BY <1>0, <1>4, <2>1, PageAlign
  <1>6. tls_file_offset % Page = 0
    <2>1. loads # <<>> /\ L \in 1..L
      BY <1>0, <1>1, EmptySeq DEF Typed, Tables
    <2>2. loads[L].offset \in Nat /\ loads[L].filesz \in Nat
      <3>1. loads[L] \in LoadSegment
        BY <1>0, <2>1, ElementOfSeq DEF Typed, Tables
      <3> QED BY <3>1 DEF LoadSegment
    <2> DEFINE x == loads[L].offset
               y == loads[L].filesz
    <2>3. x + y \in Nat
      <3>1. x \in Nat /\ y \in Nat
        BY <2>2
      <3> HIDE DEF x, y
      <3> QED BY <3>1
    <2> QED BY <1>0, <2>1, <2>3, PageAlign DEF FileFree
  \* A segment starts where its address says.
  <1>7. ASSUME NEW a \in Nat, a % Page = 0 PROVE a - (a % Page) = a /\ AlignNext(a, Page) = a
    BY <1>7, Aligned
  <1>8. /\ EHSegment.vaddr = ehframe_offset /\ EHSegment.memsz = EHFrameSize
        /\ EHSegment.filesz = 12 + 8 * Len(eh_table) /\ EHSegment.offset = ehframe_file_offset
        /\ MprotectSegment.vaddr = mprotect_offset /\ MprotectSegment.filesz = MprotectSize
        /\ MprotectSegment.offset = mprotect_file_offset
        /\ TLSSegment.vaddr = tls_offset /\ TLSSegment.memsz = memsz /\ TLSSegment.filesz = filesz
        /\ TLSSegment.offset = tls_file_offset
        /\ \A k \in 1..L : /\ LoadSegments[k].vaddr = loads[k].vaddr
                           /\ LoadSegments[k].memsz = loads[k].memsz
                           /\ LoadSegments[k].filesz = loads[k].filesz
                           /\ LoadSegments[k].offset = loads[k].offset
    <2>1. \A a, n, m, o : /\ Segment(a, n, m, o).vaddr = a /\ Segment(a, n, m, o).filesz = n
                          /\ Segment(a, n, m, o).memsz = m /\ Segment(a, n, m, o).offset = o
      BY DEF Segment
    <2>2. EHSegment.memsz = EHFrameSize
      BY <1>0, <2>1 DEF EHSegment
    <2> HIDE DEF L
    <2> QED BY <1>3, <2>1, <2>2 DEF EHSegment, MprotectSegment, TLSSegment
  \* What is written for each.
  <1>9. /\ \A k \in 1..L : B(LoadSegments[k])
        /\ B(TLSSegment) /\ B(EHSegment) /\ B(MprotectSegment)
    <2>1. /\ Shifted \in {0, 1} /\ Len(Items) = 12 + L + 3 + Shifted
          /\ \A i \in 1..L : Items[12 + i] = LoadItems[i]
          /\ \A i \in 1..3 : Items[12 + L + i] = TailItems[i]
      BY <1>0, ItemsAt
    <2>2. \A i \in 1..L : LoadItems[i].at = loads[i].offset /\ LoadItems[i].size = loads[i].filesz
      <3>1. DOMAIN loads = 1..L
        BY <1>0, LenProperties DEF Typed, Tables
      <3> QED BY <3>1 DEF LoadItems, Item
    <2>3. /\ TailItems[1].at = tls_file_offset /\ TailItems[1].size = filesz
          /\ TailItems[2].at = EHFrameOffset /\ TailItems[2].size = 12 + 8 * Len(eh_table)
          /\ TailItems[3].at = mprotect_file_offset /\ TailItems[3].size = MprotectSize
      BY DEF TailItems, Item
    <2>4. EHFrameOffset = ehframe_file_offset
      BY <1>0 DEF EHFrameOffset
    <2>5. /\ \A i \in 1..L : 12 + i \in 1..Len(Items)
          /\ \A i \in 1..3 : 12 + L + i \in 1..Len(Items)
          /\ 1 \in 1..3 /\ 2 \in 1..3 /\ 3 \in 1..3
      <3> HIDE DEF L
      <3> QED BY <1>1, <2>1
    <2> HIDE DEF L
    <2>6. \A k \in 1..L : B(LoadSegments[k])
      <3>1. SUFFICES ASSUME NEW k \in 1..L PROVE B(LoadSegments[k])
        OBVIOUS
      <3>2. PICK w \in Range(file) : w.at = Items[12 + k].at /\ w.size = Items[12 + k].size
        BY <2>5, ItemsWritten
      <3> QED BY <1>8, <2>1, <2>2, <3>2
    <2>7. \A i \in 1..3 : \E w \in Range(file) : w.at = TailItems[i].at /\ w.size = TailItems[i].size
      BY <2>1, <2>5, ItemsWritten
    <2>8. B(TLSSegment) /\ B(EHSegment) /\ B(MprotectSegment)
      BY <1>8, <2>3, <2>4, <2>5, <2>7
    <2> QED BY <2>6, <2>8
  <1>10. /\ Congruent(HeadSegment) /\ Congruent(TLSSegment) /\ Congruent(EHSegment)
         /\ Congruent(MprotectSegment) /\ \A k \in 1..L : Congruent(LoadSegments[k])
    <2>1. Congruent(HeadSegment)
      BY DEF HeadSegment, Segment, Congruent
    <2>2. Congruent(TLSSegment) /\ Congruent(EHSegment) /\ Congruent(MprotectSegment)
      BY <1>1, <1>5, <1>6, <1>8 DEF Congruent
    <2> QED BY <1>1, <1>8, <2>1, <2>2 DEF Congruent
  <1>11. Apart(HeadSegment, LoadSegments[1])
    <2> DEFINE d == DynamicOffset + DynamicSize
               h == AlignNext(d, Page)
    <2>1. HeadSegment.vaddr = 0 /\ HeadSegment.memsz = h
      BY DEF HeadSegment, Segment
    <2>2. d \in Nat /\ d <= ShstrtabOffset + ShstrtabSize /\ ShstrtabOffset + ShstrtabSize \in Nat
      <3>1. DynamicOffset \in Nat /\ DynamicSize \in Nat
        BY <1>0, HeadTyped
      <3> QED BY <3>1 DEF ShstrtabOffset, ShstrtabSize
    <2>3. h \in Nat /\ h % Page = 0 /\ h <= CodeOffset /\ CodeOffset \in Nat
      <3> HIDE DEF d
      <3>1. h \in Nat /\ h % Page = 0
        BY <2>2, PageAlign
      <3>2. h <= CodeOffset
        BY <2>2, Aligned DEF CodeOffset
      <3> QED BY <1>0, <3>1, <3>2, HeadTyped
    <2> HIDE DEF d, h
    <2>4. 0 + h = h /\ AlignNext(h, Page) = h
      BY <1>7, <2>3
    <2>5. offsets[1] \in Nat
      <3>1. 1 \in 1..Len(offsets)
        BY <1>0, NBinsAssumption DEF Moving
      <3> QED BY <1>0, <3>1, ElementOfSeq DEF Typed, Tables
    <2>6. h <= offsets[1]
      BY <1>4, <2>3, <2>5
    <2>7. 1 \in 1..L
      BY <1>1
    <2>8. LoadSegments[1].vaddr = loads[1].vaddr
      BY <1>8, <2>7
    <2> QED BY <1>1, <2>1, <2>4, <2>6, <2>8 DEF Apart
  <1>12. \A k \in 1..L : k < L => Apart(LoadSegments[k], LoadSegments[k + 1])
    <2>1. SUFFICES ASSUME NEW k \in 1..L, k < L PROVE Apart(LoadSegments[k], LoadSegments[k + 1])
      OBVIOUS
    <2>2. k + 1 \in 1..L
      <3> HIDE DEF L
      <3> QED BY <1>1, <2>1
    <2> QED BY <1>1, <1>8, <2>1, <2>2 DEF Apart
  <1>13. \A g : g.vaddr \in Nat /\ g.vaddr % Page = 0 /\ tls_offset <= g.vaddr => Apart(LoadSegments[L], g)
    <2>1. SUFFICES ASSUME NEW g, g.vaddr \in Nat, g.vaddr % Page = 0, tls_offset <= g.vaddr
                   PROVE  Apart(LoadSegments[L], g)
      OBVIOUS
    <2>2. g.vaddr - (g.vaddr % Page) = g.vaddr
      BY <1>7, <2>1
    <2>3. L \in 1..L
      BY <1>1
    <2>4. LoadSegments[L].vaddr = loads[L].vaddr /\ LoadSegments[L].memsz = loads[L].memsz
      BY <1>8, <2>3
    <2>5. AlignNext(loads[L].vaddr + loads[L].memsz, Page) \in Nat
      <3>1. loads[L] \in LoadSegment
        BY <1>0, <2>3, ElementOfSeq DEF Typed, Tables
      <3>2. loads[L].vaddr + loads[L].memsz \in Nat
        BY <3>1 DEF LoadSegment
      <3> QED BY <3>2, PageAlign
    <2>6. \A x, y, z \in Nat : x <= y /\ y <= z => x <= z
      OBVIOUS
    <2>7. AlignNext(loads[L].vaddr + loads[L].memsz, Page) <= g.vaddr
      BY <1>1, <1>4, <2>1, <2>5, <2>6
    <2> QED BY <2>2, <2>4, <2>7 DEF Apart
  <1>14. tls_offset <= ehframe_offset
    <2>1. tls_offset + TLSMemSize \in Nat /\ tls_offset <= tls_offset + TLSMemSize
      BY <1>4
    <2>2. tls_offset + TLSMemSize <= ehframe_offset
      BY <1>4, <2>1, PageAlign
    <2> QED BY <1>4, <2>1, <2>2
  <1>15. Apart(TLSSegment, EHSegment) /\ Apart(EHSegment, MprotectSegment)
    <2>1. ehframe_offset - (ehframe_offset % Page) = ehframe_offset
          /\ mprotect_offset - (mprotect_offset % Page) = mprotect_offset
      BY <1>4, <1>5, <1>7
    <2>2. /\ AlignNext(TLSSegment.vaddr + TLSSegment.memsz, Page) = ehframe_offset
          /\ AlignNext(EHSegment.vaddr + EHSegment.memsz, Page) = mprotect_offset
      BY <1>0, <1>4, <1>8, Zenon
    <2>3. ehframe_offset <= ehframe_offset /\ mprotect_offset <= mprotect_offset
      BY <1>4
    <2> QED BY <1>8, <2>1, <2>2, <2>3, Zenon DEF Apart
  <1>16. Apart(LoadSegments[L], TLSSegment) /\ Apart(LoadSegments[L], EHSegment)
    <2>1. tls_offset <= tls_offset /\ tls_offset % Page = 0 /\ tls_offset \in Nat
      BY <1>1, <1>4
    <2>2. Apart(LoadSegments[L], TLSSegment)
      BY <1>8, <1>13, <2>1, Zenon
    <2>3. Apart(LoadSegments[L], EHSegment)
      BY <1>4, <1>5, <1>8, <1>13, <1>14, Zenon
    <2> QED BY <2>2, <2>3
  <1> HIDE DEF L, N, B
  <1>a. \A i : B(Segments[i]) => \E w \in Range(file) : w.at = Segments[i].offset /\ w.size = Segments[i].filesz
    BY DEF B
  <1>17. CASE j = 1
    <2>1. 1 \in 1..L /\ 1 + 1 = 2
      BY <1>1
    <2>2. Segments[j + 1] = LoadSegments[1]
      BY <1>2, <1>17, <2>1
    <2> QED BY <1>2, <1>10, <1>11, <1>17, <2>2 DEF Mapped
  <1>18. CASE j \in 2..(1 + L)
    <2> DEFINE k == j - 1
    <2>1. k \in 1..L /\ 1 + k = j
      BY <1>1, <1>18
    <2>2. Segments[j] = LoadSegments[k]
      BY <1>2, <2>1
    <2>3. Apart(LoadSegments[k], Segments[j + 1])
      <3>1. CASE k < L
        <4>1. k + 1 \in 1..L /\ 1 + (k + 1) = j + 1
          BY <1>1, <2>1, <3>1
        <4>2. Segments[j + 1] = LoadSegments[k + 1]
          BY <1>2, <4>1
        <4> QED BY <1>12, <2>1, <3>1, <4>2
      <3>2. CASE ~(k < L)
        <4>1. k = L /\ j + 1 = 1 + L + 1
          BY <1>1, <2>1, <3>2
        <4>2. CASE N = 1
          <5>1. Segments[j + 1] = TLSSegment
            BY <1>2, <4>1, <4>2
          <5> QED BY <1>16, <4>1, <5>1
        <4>3. CASE N = 0
          <5>1. 1 + L + N + 1 = j + 1
            BY <1>1, <4>1, <4>3
          <5>2. Segments[j + 1] = EHSegment
            BY <1>2, <5>1
          <5> QED BY <1>16, <4>1, <5>2
        <4> QED BY <1>2, <4>2, <4>3
      <3> QED BY <3>1, <3>2
    <2> HIDE DEF k
    <2>4. Congruent(Segments[j]) /\ B(Segments[j])
      BY <1>9, <1>10, <2>1, <2>2
    <2> QED BY <1>a, <2>2, <2>3, <2>4 DEF Mapped
  <1>19. CASE N = 1 /\ j = 1 + L + 1
    <2>1. Segments[j] = TLSSegment
      BY <1>2, <1>19
    <2>2. 1 + L + N + 1 = j + 1
      BY <1>1, <1>19
    <2>3. Segments[j + 1] = EHSegment
      BY <1>2, <2>2
    <2> QED BY <1>a, <1>9, <1>10, <1>15, <2>1, <2>3 DEF Mapped
  <1>20. CASE j = 1 + L + N + 1
    <2>1. Segments[j] = EHSegment
      BY <1>2, <1>20
    <2>2. 1 + L + N + 2 = j + 1
      BY <1>1, <1>2, <1>20
    <2>3. Segments[j + 1] = MprotectSegment
      BY <1>2, <2>2
    <2> QED BY <1>a, <1>9, <1>10, <1>15, <2>1, <2>3 DEF Mapped
  <1>21. CASE j = 1 + L + N + 2
    <2>1. Segments[j] = MprotectSegment
      BY <1>2, <1>21
    <2>2. ~(j < Len(Segments))
      BY <1>1, <1>2, <1>21
    <2> QED BY <1>a, <1>9, <1>10, <2>1, <2>2 DEF Mapped
  <1>22. \/ j = 1 \/ j \in 2..(1 + L) \/ (N = 1 /\ j = 1 + L + 1) \/ j = 1 + L + N + 1 \/ j = 1 + L + N + 2
    <2>1. j \in 1..(1 + L + N + 2)
      BY <1>2
    <2> QED BY <1>1, <1>2, <2>1
  <1> QED BY <1>17, <1>18, <1>19, <1>20, <1>21, <1>22

\* Whatever the inputs: when the segments of each of them ascend without sharing
\* a page, those of the output do, from the head of the file to the code of
\* RELRO; each is congruent to its place in the file, where Emit wrote what
\* belongs in it (DecideMemOffset, BuildLoads, EmitPhdrs).
THEOREM SegmentsMapHolds == Spec => [](PagesApart => SegmentsMap)
  <1>1. LayoutInv /\ Placing => (PagesApart => SegmentsMap)
    <2> SUFFICES ASSUME LayoutInv, Placing, PagesApart, Done PROVE SegmentsMap
      BY DEF SegmentsMap
    <2>1. pc = 14
      BY CallNumbers DEF LayoutInv, Typed, Counters
    <2>2. \A j \in DOMAIN Segments : Mapped(j)
      BY <2>1, SegmentsMapped
    <2> QED BY <2>2 DEF SegmentsMap, Mapped, Congruent, Apart
  <1> QED BY <1>1, LayoutInvariant, PlacingInvariant, PTL

-----------------------------------------------------------------------------
(***************************************************************************)
(* The arrays of initialisers and finalisers of the output and the         *)
(* relocations: every slot of an array is relocated once, by the function  *)
(* of the same slot of the same input, and no relocation is for a place    *)
(* outside the segments of its binary, the template and the arrays.        *)
(*                                                                         *)
(* Three facts extend the invariant LayoutInv.  Reserved:                  *)
(* the initial values of each binary are inside the template.  Slotting:   *)
(* the slots of a binary are in an array of the output in order, from the  *)
(* place the map remembers, and there are no others but that of mprotect.  *)
(* Relocating: every relocation of the output comes from one of an input,  *)
(* in order, and what has a place in the arrays has been copied.           *)
(***************************************************************************)

-----------------------------------------------------------------------------
(***************************************************************************)
(* The arrays of the output.                                               *)
(***************************************************************************)
InitCount == [b \in Bins |-> bin[b].init.n]
FiniCount == [b \in Bins |-> bin[b].fini.n]

\* Binary b has its n[b] slots behind the first p of the array at base.
HasPlace(array, map, base, n, b, p) ==
    /\ map[b] = base + 8 * p /\ p + n[b] <= Len(array)
    /\ \A k \in 1..n[b] : array[p + k] = <<b, k>>

\* The q-th slot of the array at base is the k-th of binary b.
IsSlotOf(array, map, base, q, b, k) == array[q] = <<b, k>> /\ map[b] = base + 8 * (q - k)

Held(array, map, base, n) ==
    /\ \A b \in DOMAIN map : \E p \in 0..Len(array) : HasPlace(array, map, base, n, b, p)
    /\ \A q \in 1..Len(array) : array[q] # <<0, 0>> =>
         \E b \in DOMAIN map : \E k \in 1..n[b] : IsSlotOf(array, map, base, q, b, k)

\* The slot of mprotect is the first one of .init_array.
Slotting ==
    /\ pc \in 1..2 => init_array = <<>> /\ fini_array = <<>>
    /\ pc = 3 /\ pos = 1 => init_array = <<>>
    /\ pc = 3 /\ pos <= NBins + 1 => fini_array = <<>>
    /\ (pc = 3 /\ pos > 1) \/ pc > 3 =>
         /\ Len(init_array) > 0
         /\ \A q \in 1..Len(init_array) : init_array[q] = <<0, 0>> <=> q = 1
         /\ \A q \in 1..Len(fini_array) : fini_array[q] # <<0, 0>>
         /\ Held(init_array, bin_to_init, InitArrayOffset, InitCount)
         /\ Held(fini_array, bin_to_fini, FiniArrayOffset, FiniCount)

\* Array c is array a with n slots of binary b behind it.
WithSlots(a, b, n, c) ==
    /\ Len(a) \in Nat /\ c \in Seq(Slot) /\ Len(c) = Len(a) + n
    /\ \A q \in 1..Len(a) : c[q] = a[q]
    /\ \A k \in 1..n : c[Len(a) + k] = <<b, k>>
    /\ \A q \in 1..(Len(a) + n) : q \in 1..Len(a) \/ q - Len(a) \in 1..n

LEMMA SlotsAt ==
    ASSUME NEW a \in Seq(Slot), NEW b \in Bins, NEW n \in Nat
    PROVE  WithSlots(a, b, n, a \o Slots(b, n))
  <1>1. \A k \in 1..n : <<b, k>> \in Slot
    BY DEF Slot
  <1>2. Slots(b, n) \in Seq(Slot) /\ Len(Slots(b, n)) = n /\ \A k \in 1..n : Slots(b, n)[k] = <<b, k>>
    BY <1>1 DEF Slots
  <1>3. Places(a, Slots(b, n))
    BY <1>2, ConcatPlaces
  <1>4. Len(a) \in Nat
    BY LenProperties
  <1>5. \A q \in 1..(Len(a) + n) : q \in 1..Len(a) \/ q - Len(a) \in 1..n
    BY <1>4
  <1> QED BY <1>2, <1>3, <1>4, <1>5, SlotsTyped DEF Places, WithSlots

\* Appending the slots of a binary that had none.
LEMMA HeldGrows ==
    ASSUME NEW a \in Seq(Slot), NEW m, NEW base \in Nat, NEW n \in [Bins -> Nat], Held(a, m, base, n),
           DOMAIN m \subseteq Bins, NEW b \in Bins, b \notin DOMAIN m
    PROVE  Held(a \o Slots(b, n[b]), Put(m, b, base + 8 * Len(a)), base, n)
  <1> DEFINE c == a \o Slots(b, n[b])
             w == Put(m, b, base + 8 * Len(a))
  <1>1. /\ n[b] \in Nat /\ Len(a) \in Nat /\ Len(c) = Len(a) + n[b]
        /\ \A q \in 1..Len(a) : c[q] = a[q]
        /\ \A k \in 1..n[b] : c[Len(a) + k] = <<b, k>>
        /\ \A q \in 1..(Len(a) + n[b]) : q \in 1..Len(a) \/ q - Len(a) \in 1..n[b]
    <2>1. n[b] \in Nat
      OBVIOUS
    <2>2. WithSlots(a, b, n[b], c)
      BY <2>1, SlotsAt
    <2> HIDE DEF c
    <2> QED BY <2>1, <2>2 DEF WithSlots
  <1>2. /\ DOMAIN w = DOMAIN m \cup {b} /\ w[b] = base + 8 * Len(a)
        /\ \A x \in DOMAIN m : w[x] = m[x] /\ n[x] \in Nat
    BY DEF Put
  <1> HIDE DEF c, w
  <1>3. ASSUME NEW x \in DOMAIN w PROVE \E p \in 0..Len(c) : HasPlace(c, w, base, n, x, p)
    <2>1. CASE x = b
      <3>1. Len(a) \in 0..Len(c) /\ Len(a) + n[b] <= Len(c)
        BY <1>1
      <3>2. HasPlace(c, w, base, n, b, Len(a))
        BY <1>1, <1>2, <3>1 DEF HasPlace
      <3> QED BY <2>1, <3>1, <3>2
    <2>2. CASE x # b
      <3>1. x \in DOMAIN m
        BY <1>2, <2>2
      <3>2. PICK p \in 0..Len(a) : HasPlace(a, m, base, n, x, p)
        BY <3>1 DEF Held
      <3>3. p \in 0..Len(c) /\ p + n[x] <= Len(a) /\ p + n[x] <= Len(c)
        BY <1>1, <1>2, <3>1, <3>2 DEF HasPlace
      <3>4. \A k \in 1..n[x] : p + k \in 1..Len(a)
        BY <1>1, <1>2, <3>1, <3>3
      <3>5. HasPlace(c, w, base, n, x, p)
        BY <1>1, <1>2, <3>1, <3>2, <3>3, <3>4 DEF HasPlace
      <3> QED BY <3>3, <3>5
    <2> QED BY <2>1, <2>2
  <1>4. ASSUME NEW q \in 1..Len(c), c[q] # <<0, 0>>
        PROVE  \E x \in DOMAIN w : \E k \in 1..n[x] : IsSlotOf(c, w, base, q, x, k)
    <2>1. CASE q \in 1..Len(a)
      <3>1. PICK x \in DOMAIN m : \E k \in 1..n[x] : IsSlotOf(a, m, base, q, x, k)
        BY <1>1, <1>4, <2>1 DEF Held
      <3>2. PICK k \in 1..n[x] : IsSlotOf(a, m, base, q, x, k)
        BY <3>1
      <3>3. IsSlotOf(c, w, base, q, x, k)
        BY <1>1, <1>2, <2>1, <3>2 DEF IsSlotOf
      <3> QED BY <1>2, <3>3
    <2>2. CASE q - Len(a) \in 1..n[b]
      <3> DEFINE k == q - Len(a)
      <3>1. k \in 1..n[b] /\ Len(a) + k = q /\ q - k = Len(a)
        BY <1>1, <2>2
      <3> HIDE DEF k
      <3>2. IsSlotOf(c, w, base, q, b, k)
        BY <1>1, <1>2, <3>1 DEF IsSlotOf
      <3> QED BY <1>2, <3>1, <3>2
    <2> QED BY <1>1, <2>1, <2>2
  <1> QED BY <1>3, <1>4 DEF Held, c, w

\* The offsets of the arrays need only what CollectTLS has computed.
LEMMA ArraysKept ==
    ASSUME bin' = bin, memsz' = memsz
    PROVE  /\ InitArrayOffset' = InitArrayOffset
           /\ init_array' = init_array => FiniArrayOffset' = FiniArrayOffset
  <1>1. CountPhdrs' = CountPhdrs
    BY DEF CountPhdrs
  <1>2. InitArrayOffset' = InitArrayOffset
    BY <1>1 DEF InitArrayOffset
  <1> QED BY <1>2 DEF FiniArrayOffset, InitArraySize

LEMMA CollectArraysHolds ==
    ASSUME Typed, Gathering, Slotting, pc = 3, CollectArrays
    PROVE  /\ Len(init_array') > 0
           /\ \A q \in 1..Len(init_array') : init_array'[q] = <<0, 0>> <=> q = 1
           /\ \A q \in 1..Len(fini_array') : fini_array'[q] # <<0, 0>>
           /\ Held(init_array', bin_to_init', InitArrayOffset', InitCount')
           /\ Held(fini_array', bin_to_fini', FiniArrayOffset', FiniCount')
           /\ pos < NBins + 1 => fini_array' = <<>>
  <1>0. /\ init_array \in Seq(Slot) /\ fini_array \in Seq(Slot)
        /\ DOMAIN bin_to_init \subseteq Bins /\ DOMAIN bin_to_fini \subseteq Bins
        /\ pos \in Nat \ {0} /\ NBins \in Nat \ {0} /\ pos <= 2 * NBins + 1
        /\ DOMAIN bin_to_init = {b \in Bins : b > NBins + 2 - pos}
        /\ DOMAIN bin_to_fini = {b \in Bins : b < pos - NBins - 1} \ ExcludedFini
        /\ Len(init_array) \in Nat /\ Len(fini_array) \in Nat
        /\ InitArrayOffset \in Nat /\ FiniArrayOffset \in Nat
    BY NBinsAssumption, LenProperties, HeadTyped DEF Typed, Counters, Tables, Gathering
  <1>1. /\ bin' = bin /\ memsz' = memsz /\ InitCount' = InitCount /\ FiniCount' = FiniCount
        /\ InitArrayOffset' = InitArrayOffset
        /\ init_array' = init_array => FiniArrayOffset' = FiniArrayOffset
    BY ArraysKept DEF CollectArrays, tls_, InitCount, FiniCount
  <1>2. InitCount \in [Bins -> Nat] /\ FiniCount \in [Bins -> Nat]
    <2>1. \A b \in Bins : bin[b].init.n \in Nat /\ bin[b].fini.n \in Nat
      BY BinTyped DEF Typed, RunOf
    <2> QED BY <2>1 DEF InitCount, FiniCount
  <1>3. ASSUME NEW map, NEW base, DOMAIN map = {} PROVE Held(<<>>, map, base, FiniCount)
    BY <1>3 DEF Held
  <1>a. CASE pos = 1
    <2>1. init_array' = <<<<0, 0>>>> /\ fini_array' = fini_array /\ bin_to_init' = bin_to_init
          /\ bin_to_fini' = bin_to_fini
      BY <1>a DEF CollectArrays
    <2>2. fini_array = <<>> /\ DOMAIN bin_to_init = {} /\ DOMAIN bin_to_fini = {}
      BY <1>0, <1>a DEF Slotting, Bins
    <2>3. Held(<<<<0, 0>>>>, bin_to_init, InitArrayOffset', InitCount)
      BY <2>2 DEF Held
    <2>4. Held(fini_array', bin_to_fini', FiniArrayOffset', FiniCount')
      BY <1>1, <1>3, <2>1, <2>2
    <2> QED BY <1>1, <2>1, <2>2, <2>3, <2>4
  <1>b. CASE pos # 1 /\ pos <= NBins + 1
    <2> DEFINE b == NBins + 2 - pos
    <2>1. b \in Bins /\ b \notin DOMAIN bin_to_init /\ DOMAIN bin_to_fini = {}
      BY <1>0, <1>b DEF Bins
    <2>2. CollectInit(b)
      BY <1>0, <1>b DEF CollectArrays
    <2> HIDE DEF b
    <2>3. /\ bin_to_init' = Put(bin_to_init, b, InitArrayOffset + 8 * Len(init_array))
          /\ init_array' = init_array \o Slots(b, InitCount[b])
          /\ fini_array' = fini_array /\ bin_to_fini' = bin_to_fini
      BY <2>1, <2>2 DEF CollectInit, InitArraySize, InitCount
    <2>4. /\ Len(init_array) > 0
          /\ \A q \in 1..Len(init_array) : init_array[q] = <<0, 0>> <=> q = 1
          /\ Held(init_array, bin_to_init, InitArrayOffset, InitCount) /\ fini_array = <<>>
      BY <1>0, <1>b DEF Slotting
    <2>5. Held(init_array', bin_to_init', InitArrayOffset, InitCount)
      BY <1>0, <1>2, <2>1, <2>3, <2>4, HeldGrows
    <2>6. Held(fini_array', bin_to_fini', FiniArrayOffset', FiniCount')
      BY <1>1, <1>3, <2>1, <2>3, <2>4
    <2>7. /\ Len(init_array') = Len(init_array) + InitCount[b] /\ InitCount[b] \in Nat
          /\ \A q \in 1..Len(init_array) : init_array'[q] = init_array[q]
          /\ \A k \in 1..InitCount[b] : init_array'[Len(init_array) + k] = <<b, k>>
          /\ \A q \in 1..(Len(init_array) + InitCount[b]) :
               q \in 1..Len(init_array) \/ q - Len(init_array) \in 1..InitCount[b]
      <3>1. InitCount[b] \in Nat
        BY <1>2, <2>1
      <3>2. WithSlots(init_array, b, InitCount[b], init_array')
        BY <1>0, <2>1, <2>3, <3>1, SlotsAt
      <3> QED BY <3>1, <3>2 DEF WithSlots
    <2>8. Len(init_array') > 0
      BY <1>0, <2>4, <2>7
    <2>9. ASSUME NEW q \in 1..Len(init_array') PROVE init_array'[q] = <<0, 0>> <=> q = 1
      <3>1. CASE q \in 1..Len(init_array)
        BY <2>4, <2>7, <3>1
      <3>2. CASE q - Len(init_array) \in 1..InitCount[b]
        <4> DEFINE k == q - Len(init_array)
        <4>1. k \in 1..InitCount[b] /\ Len(init_array) + k = q /\ q # 1 /\ b # 0
          BY <1>0, <2>1, <2>4, <2>7, <3>2 DEF Bins
        <4> HIDE DEF k
        <4>2. init_array'[q] = <<b, k>>
          BY <2>7, <4>1
        <4> QED BY <4>1, <4>2
      <3> QED BY <2>7, <3>1, <3>2
    <2>10. Held(init_array', bin_to_init', InitArrayOffset', InitCount')
      BY <1>1, <2>5
    <2>11. fini_array' = <<>>
      BY <2>3, <2>4
    <2>12. \A q \in 1..Len(fini_array') : fini_array'[q] # <<0, 0>>
      BY <2>11
    <2> QED BY <2>6, <2>8, <2>9, <2>10, <2>11, <2>12
  <1>c. CASE pos > NBins + 1
    <2> DEFINE b == pos - NBins - 1
    <2>1. b \in Bins /\ b \notin DOMAIN bin_to_fini /\ pos # 1 /\ ~(pos <= NBins + 1) /\ pos > 1
          /\ ~(pos < NBins + 1)
      BY <1>0, <1>c DEF Bins
    <2>2. CollectFini(b)
      BY <2>1 DEF CollectArrays
    <2> HIDE DEF b
    <2>3. /\ Len(init_array) > 0
          /\ \A q \in 1..Len(init_array) : init_array[q] = <<0, 0>> <=> q = 1
          /\ \A q \in 1..Len(fini_array) : fini_array[q] # <<0, 0>>
          /\ Held(init_array, bin_to_init, InitArrayOffset, InitCount)
          /\ Held(fini_array, bin_to_fini, FiniArrayOffset, FiniCount)
      BY <2>1 DEF Slotting
    <2>4. init_array' = init_array /\ bin_to_init' = bin_to_init
      BY <2>2 DEF CollectFini
    <2>5. CASE b \in ExcludedFini
      <3>1. fini_array' = fini_array /\ bin_to_fini' = bin_to_fini
        BY <2>2, <2>5 DEF CollectFini
      <3> QED BY <1>1, <2>1, <2>3, <2>4, <3>1
    <2>6. CASE b \notin ExcludedFini
      <3>1. /\ bin_to_fini' = Put(bin_to_fini, b, FiniArrayOffset + 8 * Len(fini_array))
            /\ fini_array' = fini_array \o Slots(b, FiniCount[b])
        BY <2>1, <2>2, <2>6 DEF CollectFini, FiniArraySize, FiniCount
      <3>2. Held(fini_array', bin_to_fini', FiniArrayOffset, FiniCount)
        BY <1>0, <1>2, <2>1, <2>3, <3>1, HeldGrows
      <3>3. /\ Len(fini_array') = Len(fini_array) + FiniCount[b] /\ FiniCount[b] \in Nat
            /\ \A q \in 1..Len(fini_array) : fini_array'[q] = fini_array[q]
            /\ \A k \in 1..FiniCount[b] : fini_array'[Len(fini_array) + k] = <<b, k>>
            /\ \A q \in 1..(Len(fini_array) + FiniCount[b]) :
                 q \in 1..Len(fini_array) \/ q - Len(fini_array) \in 1..FiniCount[b]
        <4>1. FiniCount[b] \in Nat
          BY <1>2, <2>1
        <4>2. WithSlots(fini_array, b, FiniCount[b], fini_array')
          BY <1>0, <2>1, <3>1, <4>1, SlotsAt
        <4> QED BY <4>1, <4>2 DEF WithSlots
      <3>4. ASSUME NEW q \in 1..Len(fini_array') PROVE fini_array'[q] # <<0, 0>>
        <4>1. CASE q \in 1..Len(fini_array)
          BY <2>3, <3>3, <4>1
        <4>2. CASE q - Len(fini_array) \in 1..FiniCount[b]
          <5> DEFINE k == q - Len(fini_array)
          <5>1. k \in 1..FiniCount[b] /\ Len(fini_array) + k = q /\ b # 0
            BY <1>0, <2>1, <3>3, <4>2 DEF Bins
          <5> HIDE DEF k
          <5>2. fini_array'[q] = <<b, k>>
            BY <3>3, <5>1
          <5> QED BY <5>1, <5>2
        <4> QED BY <3>3, <4>1, <4>2
      <3> QED BY <1>1, <2>1, <2>3, <2>4, <3>2, <3>4
    <2> QED BY <2>5, <2>6
  <1> QED BY <1>0, <1>a, <1>b, <1>c

LEMMA SlottingStep ==
    ASSUME LayoutInv, Slotting, Next
    PROVE  Slotting'
  <1>0. /\ Typed /\ Gathering /\ Counters /\ pc \in 1..13 /\ pc' \in {0, pc, pc + 1} /\ pos \in Nat \ {0}
        /\ NBins \in Nat \ {0} /\ bin' = bin
    BY Frame, NBinsAssumption DEF LayoutInv, Typed, Counters
  <1>1. CASE pc < 3
    <2>1. init_array' = <<>> /\ fini_array' = <<>>
      BY <1>0, <1>1, Frame DEF Slotting, arrays
    <2>2. pc = 2 /\ pc' = 3 => pos' = 1
      BY <1>0, CallOf DEF CollectTLS, Return, Proceed, Abort
    <2>3. ~((pc' = 3 /\ pos' > 1) \/ pc' > 3)
      BY <1>0, <1>1, <2>2
    <2> QED BY <2>1, <2>3 DEF Slotting
  <1>2. CASE pc = 3
    <2>1. CollectArrays
      BY <1>0, <1>2, CallOf
    <2>2. pc' = 4 \/ (pc' = 3 /\ pos' = pos + 1)
      BY <1>2, <2>1 DEF CollectArrays, Return, Proceed
    <2>3. ~(pc' \in 1..2) /\ ~(pc' = 3 /\ pos' = 1) /\ (pc' = 3 /\ pos' <= NBins + 1 => pos < NBins + 1)
      BY <1>0, <2>2
    <2> QED BY <1>0, <1>2, <2>1, <2>3, CollectArraysHolds DEF Slotting
  <1>3. CASE pc > 3
    <2>1. /\ init_array' = init_array /\ fini_array' = fini_array /\ bin_to_init' = bin_to_init
          /\ bin_to_fini' = bin_to_fini /\ memsz' = memsz
      BY <1>0, <1>3, Frame DEF arrays, tls_
    <2>2. /\ InitArrayOffset' = InitArrayOffset /\ FiniArrayOffset' = FiniArrayOffset
          /\ InitCount' = InitCount /\ FiniCount' = FiniCount
      BY <1>0, <2>1, ArraysKept DEF InitCount, FiniCount
    <2>3. pc' = 0 \/ pc' > 3
      BY <1>0, <1>3
    <2> QED BY <1>3, <2>1, <2>2, <2>3 DEF Slotting
  <1> QED BY <1>0, <1>1, <1>2, <1>3

LEMMA SlottingInvariant == Spec => []Slotting
  <1>1. Init => Slotting
    <2> SUFFICES ASSUME Init PROVE Slotting
      OBVIOUS
    <2>1. pc = 1 /\ init_array = <<>> /\ fini_array = <<>>
      BY DEF Init
    <2> QED BY <2>1 DEF Slotting
  <1>2. LayoutInv /\ Slotting /\ [Next]_vars => Slotting'
    <2> SUFFICES ASSUME LayoutInv, Slotting, [Next]_vars PROVE Slotting'
      OBVIOUS
    <2>1. CASE Next
      BY <2>1, SlottingStep
    <2>2. CASE UNCHANGED vars
      <3>1. /\ bin' = bin /\ pc' = pc /\ pos' = pos /\ arrays' = arrays /\ tls_' = tls_
        BY <2>2 DEF vars
      <3>2. /\ init_array' = init_array /\ fini_array' = fini_array /\ memsz' = memsz
            /\ bin_to_init' = bin_to_init /\ bin_to_fini' = bin_to_fini
        BY <3>1 DEF arrays, tls_
      <3>3. /\ InitArrayOffset' = InitArrayOffset /\ FiniArrayOffset' = FiniArrayOffset
            /\ InitCount' = InitCount /\ FiniCount' = FiniCount
        BY <3>1, <3>2, ArraysKept DEF InitCount, FiniCount
      <3> QED BY <3>1, <3>2, <3>3 DEF Slotting
    <2> QED BY <2>1, <2>2
  <1> QED BY <1>1, <1>2, LayoutInvariant, PTL DEF Spec

\* Address `to' is in the array at base; if a slot starts there, it is the one
\* for the place `at' in the array `run' of binary b.
InSlot(array, base, b, run, at, to) ==
    /\ to \in Nat /\ base <= to /\ to < base + 8 * Len(array)
    /\ \A q \in Nat : to = base + 8 * (q - 1) =>
         \E k \in 1..run.n : array[q] = <<b, k>> /\ at = run.addr + 8 * (k - 1)

\* A place in the array of a binary comes to the slot of the same number.
LEMMA SlotInPlace ==
    ASSUME NEW array, Len(array) \in Nat, NEW map, NEW base \in Nat, NEW n, NEW b, NEW run \in RunOf,
           NEW p \in Nat, HasPlace(array, map, base, n, b, p), n[b] = run.n, NEW at \in Nat,
           InArray(run, at)
    PROVE  InSlot(array, base, b, run, at, at - run.addr + map[b])
  <1> DEFINE to == at - run.addr + map[b]
  <1>1. /\ run.addr \in Nat /\ run.n \in Nat /\ run.addr <= at /\ at < run.addr + 8 * run.n
        /\ map[b] = base + 8 * p /\ p + run.n <= Len(array)
    BY DEF InArray, HasPlace, RunOf
  <1>a. \A k \in 1..run.n : array[p + k] = <<b, k>>
    BY DEF HasPlace
  <1>b. \A a, n1, l \in Nat : a <= at /\ at < a + 8 * n1 /\ p + n1 <= l =>
          /\ at - a + (base + 8 * p) \in Nat /\ base <= at - a + (base + 8 * p)
          /\ at - a + (base + 8 * p) < base + 8 * l
    OBVIOUS
  <1>2. to = at - run.addr + (base + 8 * p) /\ to \in Nat /\ base <= to /\ to < base + 8 * Len(array)
    BY <1>1, <1>b, Zenon
  <1> HIDE DEF to
  <1>3. ASSUME NEW q \in Nat, to = base + 8 * (q - 1)
        PROVE  \E k \in 1..run.n : array[q] = <<b, k>> /\ at = run.addr + 8 * (k - 1)
    <2>1. \A a, n1 \in Nat : a <= at /\ at < a + 8 * n1 /\ at - a + (base + 8 * p) = base + 8 * (q - 1) =>
            q - p \in 1..n1 /\ p + (q - p) = q /\ at = a + 8 * ((q - p) - 1)
      OBVIOUS
    <2>2. q - p \in 1..run.n /\ p + (q - p) = q /\ at = run.addr + 8 * ((q - p) - 1)
      BY <1>1, <1>2, <1>3, <2>1
    <2>3. array[p + (q - p)] = <<b, q - p>>
      BY <1>a, <2>2
    <2> QED BY <2>2, <2>3
  <1>4. InSlot(array, base, b, run, at, to)
    BY <1>2, <1>3 DEF InSlot
  <1> QED BY <1>4 DEF to

\* The place `at' in the array `run' of binary b is for its k-th slot, which is
\* the q-th of the array at base.
SlotPlace(map, base, q, b, run, k, at) ==
    /\ at \in Nat /\ InArray(run, at) /\ at - run.addr + map[b] = base + 8 * (q - 1)
    /\ (at - run.addr) \div 8 + 1 = k

\* The place of a slot is in the array of its binary.
LEMMA PlaceOfSlot ==
    ASSUME NEW array, NEW map, NEW base \in Nat, NEW q \in Nat, NEW b, NEW run \in RunOf, NEW k \in 1..run.n,
           IsSlotOf(array, map, base, q, b, k)
    PROVE  SlotPlace(map, base, q, b, run, k, run.addr + 8 * (k - 1))
  <1>1. run.addr \in Nat /\ run.n \in Nat /\ map[b] = base + 8 * (q - k)
    BY DEF RunOf, IsSlotOf
  <1> DEFINE at == run.addr + 8 * (k - 1)
  <1>2. at \in Nat /\ run.addr <= at /\ at < run.addr + 8 * run.n
    BY <1>1
  <1>3. at - run.addr = 8 * (k - 1)
    BY <1>1
  <1>4. at - run.addr + map[b] = base + 8 * (q - 1)
    BY <1>1, <1>3
  <1>5. (8 * (k - 1)) \div 8 + 1 = k
    OBVIOUS
  <1> QED BY <1>2, <1>3, <1>4, <1>5 DEF InArray, SlotPlace

-----------------------------------------------------------------------------
(***************************************************************************)
(* The relocations of the output and those they come from.                 *)
(***************************************************************************)
MovedTo  == [k \in 1..Len(Sites) |-> Moved(Sites[k][1], Sites[k][2])]
CopiedTo == [k \in 1..Len(Sites) |-> Copied(Sites[k][1], Sites[k][2])]
WhatOf   == [k \in 1..Len(Sites) |-> What(Sites[k][1], Sites[k][2])]

\* The first n of r come from the first m, in order: from[j] for r[j].  There is
\* one with the copied address of each that has one, and it is the last of its
\* origin.
From(r, n, m, to, copy, what, from) ==
    /\ from \in [1..n -> 1..m]
    /\ \A j \in 1..n : /\ r[j].what = what[from[j]]
                       /\ r[j].at = to[from[j]] \/ copy[from[j]] = <<r[j].at>>
    /\ \A i, j \in 1..n : i < j /\ from[i] = from[j] => r[i].at = to[from[i]]
    /\ \A k \in 1..m : copy[k] # <<>> => \E j \in 1..n : from[j] = k /\ copy[k] = <<r[j].at>>

RelocatedTo(r, n, m, to, copy, what) == \E from : From(r, n, m, to, copy, what, from)

Relocating ==
    /\ pc \in 1..3 => rels = <<>>
    /\ pc = 4 => /\ pos <= Len(Sites) + 1
                 /\ \A k \in 1..(pos - 1) : Relocatable(Sites[k][1], Sites[k][2])
                 /\ RelocatedTo(rels, Len(rels), pos - 1, MovedTo, CopiedTo, WhatOf)
    /\ pc > 4 => \A k \in 1..Len(Sites) : Relocatable(Sites[k][1], Sites[k][2])
    /\ pc \in 5..7 => RelocatedTo(rels, Len(rels), Len(Sites), MovedTo, CopiedTo, WhatOf)
    /\ pc > 7 => /\ Len(rels) >= 1
                 /\ RelocatedTo(rels, Len(rels) - 1, Len(Sites), MovedTo, CopiedTo, WhatOf)
                 /\ rels[Len(rels)] = [at |-> InitArrayOffset, what |-> <<"init", 0, 0>>]

LEMMA FromSame ==
    ASSUME NEW r, NEW n, NEW m, NEW to, NEW copy, NEW what, NEW from, From(r, n, m, to, copy, what, from),
           NEW c, \A j \in 1..n : c[j] = r[j]
    PROVE  From(c, n, m, to, copy, what, from)
  <1>1. /\ from \in [1..n -> 1..m]
        /\ \A j \in 1..n : /\ r[j].what = what[from[j]]
                           /\ r[j].at = to[from[j]] \/ copy[from[j]] = <<r[j].at>>
        /\ \A i, j \in 1..n : i < j /\ from[i] = from[j] => r[i].at = to[from[i]]
        /\ \A k \in 1..m : copy[k] # <<>> => \E j \in 1..n : from[j] = k /\ copy[k] = <<r[j].at>>
    BY DEF From
  <1>2. \A j \in 1..n : c[j].what = what[from[j]] /\ (c[j].at = to[from[j]] \/ copy[from[j]] = <<c[j].at>>)
    <2> TAKE j \in 1..n
    <2>1. c[j] = r[j]
      OBVIOUS
    <2> QED BY <1>1, <2>1
  <1>3. ASSUME NEW i \in 1..n, NEW j \in 1..n, i < j, from[i] = from[j] PROVE c[i].at = to[from[i]]
    <2>1. c[i] = r[i] /\ r[i].at = to[from[i]]
      BY <1>1, <1>3
    <2> QED BY <2>1
  <1>4. ASSUME NEW k \in 1..m, copy[k] # <<>> PROVE \E j \in 1..n : from[j] = k /\ copy[k] = <<c[j].at>>
    <2>1. PICK j \in 1..n : from[j] = k /\ copy[k] = <<r[j].at>>
      BY <1>1, <1>4
    <2>2. c[j] = r[j]
      OBVIOUS
    <2> QED BY <2>1, <2>2
  <1> QED BY <1>1, <1>2, <1>3, <1>4 DEF From

\* A relocation without a copy.
LEMMA OneMore ==
    ASSUME NEW r, NEW n \in Nat, NEW m \in Nat, NEW to, NEW copy, NEW what, NEW c,
           RelocatedTo(r, n, m, to, copy, what), \A j \in 1..n : c[j] = r[j],
           c[n + 1] = [at |-> to[m + 1], what |-> what[m + 1]], copy[m + 1] = <<>>
    PROVE  RelocatedTo(c, n + 1, m + 1, to, copy, what)
  <1>1. PICK from : From(r, n, m, to, copy, what, from)
    BY DEF RelocatedTo
  <1>2. /\ from \in [1..n -> 1..m]
        /\ \A j \in 1..n : /\ r[j].what = what[from[j]]
                           /\ r[j].at = to[from[j]] \/ copy[from[j]] = <<r[j].at>>
        /\ \A i, j \in 1..n : i < j /\ from[i] = from[j] => r[i].at = to[from[i]]
        /\ \A k \in 1..m : copy[k] # <<>> => \E j \in 1..n : from[j] = k /\ copy[k] = <<r[j].at>>
    BY <1>1 DEF From
  <1> DEFINE more == [j \in 1..(n + 1) |-> IF j = n + 1 THEN m + 1 ELSE from[j]]
  <1>3. /\ \A j \in 1..(n + 1) : j = n + 1 \/ j \in 1..n
        /\ \A j \in 1..n : j \in 1..(n + 1) /\ j # n + 1 /\ ~(n + 1 < j)
        /\ n + 1 \in 1..(n + 1) /\ m + 1 \in 1..(m + 1) /\ ~(n + 1 < n + 1)
        /\ \A k \in 1..(m + 1) : k = m + 1 \/ k \in 1..m
        /\ \A k \in 1..m : k \in 1..(m + 1) /\ k # m + 1
    OBVIOUS
  <1>4. more[n + 1] = m + 1 /\ \A j \in 1..n : more[j] = from[j] /\ from[j] \in 1..m
    BY <1>2, <1>3
  <1>5. more \in [1..(n + 1) -> 1..(m + 1)]
    BY <1>2, <1>3
  <1> HIDE DEF more
  <1>6. ASSUME NEW j \in 1..(n + 1)
        PROVE  /\ c[j].what = what[more[j]]
               /\ c[j].at = to[more[j]] \/ copy[more[j]] = <<c[j].at>>
    <2>1. CASE j \in 1..n
      <3>1. c[j] = r[j] /\ more[j] = from[j]
        BY <1>4, <2>1
      <3>2. /\ r[j].what = what[from[j]]
            /\ r[j].at = to[from[j]] \/ copy[from[j]] = <<r[j].at>>
        BY <1>2, <2>1
      <3> QED BY <3>1, <3>2
    <2>2. CASE j = n + 1
      BY <1>4, <2>2
    <2> QED BY <1>3, <2>1, <2>2
  <1>7. ASSUME NEW i \in 1..(n + 1), NEW j \in 1..(n + 1), i < j, more[i] = more[j]
        PROVE  c[i].at = to[more[i]]
    <2>1. CASE i \in 1..n /\ j \in 1..n
      <3>1. c[i] = r[i] /\ more[i] = from[i] /\ more[j] = from[j]
        BY <1>4, <2>1
      <3>2. r[i].at = to[from[i]]
        BY <1>2, <1>7, <2>1, <3>1
      <3> QED BY <3>1, <3>2
    <2>2. CASE i \in 1..n /\ j \notin 1..n
      <3>1. more[i] \in 1..m /\ more[j] = m + 1
        BY <1>3, <1>4, <2>2
      <3> QED BY <1>3, <1>7, <3>1
    <2>3. CASE i = n + 1
      BY <1>4, <2>3
    <2> QED BY <1>3, <2>1, <2>2, <2>3
  <1>8. ASSUME NEW k \in 1..(m + 1), copy[k] # <<>>
        PROVE  \E j \in 1..(n + 1) : more[j] = k /\ copy[k] = <<c[j].at>>
    <2>1. CASE k \in 1..m
      <3>1. PICK j \in 1..n : from[j] = k /\ copy[k] = <<r[j].at>>
        BY <1>2, <1>8, <2>1
      <3>2. j \in 1..(n + 1) /\ more[j] = k /\ c[j] = r[j]
        BY <1>3, <1>4, <3>1
      <3> QED BY <3>1, <3>2
    <2>2. CASE k = m + 1
      BY <1>8, <2>2
    <2> QED BY <1>3, <2>1, <2>2
  <1>9. From(c, n + 1, m + 1, to, copy, what, more)
    BY <1>5, <1>6, <1>7, <1>8 DEF From
  <1> QED BY <1>9 DEF RelocatedTo

\* A relocation with a copy.
LEMMA TwoMore ==
    ASSUME NEW r, NEW n \in Nat, NEW m \in Nat, NEW to, NEW copy, NEW what, NEW c,
           RelocatedTo(r, n, m, to, copy, what), \A j \in 1..n : c[j] = r[j],
           c[n + 1] = [at |-> to[m + 1], what |-> what[m + 1]],
           c[n + 2].what = what[m + 1], copy[m + 1] = <<c[n + 2].at>>
    PROVE  RelocatedTo(c, n + 2, m + 1, to, copy, what)
  <1>1. PICK from : From(r, n, m, to, copy, what, from)
    BY DEF RelocatedTo
  <1>2. /\ from \in [1..n -> 1..m]
        /\ \A j \in 1..n : /\ r[j].what = what[from[j]]
                           /\ r[j].at = to[from[j]] \/ copy[from[j]] = <<r[j].at>>
        /\ \A i, j \in 1..n : i < j /\ from[i] = from[j] => r[i].at = to[from[i]]
        /\ \A k \in 1..m : copy[k] # <<>> => \E j \in 1..n : from[j] = k /\ copy[k] = <<r[j].at>>
    BY <1>1 DEF From
  <1> DEFINE more == [j \in 1..(n + 2) |-> IF j > n THEN m + 1 ELSE from[j]]
  <1>3. /\ \A j \in 1..(n + 2) : j = n + 1 \/ j = n + 2 \/ j \in 1..n
        /\ \A j \in 1..n : j \in 1..(n + 2) /\ ~(j > n) /\ ~(n + 1 < j) /\ ~(n + 2 < j)
        /\ n + 1 \in 1..(n + 2) /\ n + 2 \in 1..(n + 2) /\ m + 1 \in 1..(m + 1)
        /\ n + 1 > n /\ n + 2 > n /\ ~(n + 2 < n + 1) /\ ~(n + 2 < n + 2) /\ ~(n + 1 < n + 1)
        /\ \A k \in 1..(m + 1) : k = m + 1 \/ k \in 1..m
        /\ \A k \in 1..m : k \in 1..(m + 1) /\ k # m + 1
    OBVIOUS
  <1>4. more[n + 1] = m + 1 /\ more[n + 2] = m + 1 /\ \A j \in 1..n : more[j] = from[j] /\ from[j] \in 1..m
    BY <1>2, <1>3
  <1>5. more \in [1..(n + 2) -> 1..(m + 1)]
    BY <1>2, <1>3
  <1> HIDE DEF more
  <1>6. ASSUME NEW j \in 1..(n + 2)
        PROVE  /\ c[j].what = what[more[j]]
               /\ c[j].at = to[more[j]] \/ copy[more[j]] = <<c[j].at>>
    <2>1. CASE j \in 1..n
      <3>1. c[j] = r[j] /\ more[j] = from[j]
        BY <1>4, <2>1
      <3>2. /\ r[j].what = what[from[j]]
            /\ r[j].at = to[from[j]] \/ copy[from[j]] = <<r[j].at>>
        BY <1>2, <2>1
      <3> QED BY <3>1, <3>2
    <2>2. CASE j = n + 1
      BY <1>4, <2>2
    <2>3. CASE j = n + 2
      BY <1>4, <2>3
    <2> QED BY <1>3, <2>1, <2>2, <2>3
  <1>7. ASSUME NEW i \in 1..(n + 2), NEW j \in 1..(n + 2), i < j, more[i] = more[j]
        PROVE  c[i].at = to[more[i]]
    <2>1. CASE i \in 1..n /\ j \in 1..n
      <3>1. c[i] = r[i] /\ more[i] = from[i] /\ more[j] = from[j]
        BY <1>4, <2>1
      <3>2. r[i].at = to[from[i]]
        BY <1>2, <1>7, <2>1, <3>1
      <3> QED BY <3>1, <3>2
    <2>2. CASE i \in 1..n /\ j \notin 1..n
      <3>1. more[i] \in 1..m /\ more[j] = m + 1
        BY <1>3, <1>4, <2>2
      <3> QED BY <1>3, <1>7, <3>1
    <2>3. CASE i = n + 1
      BY <1>4, <2>3
    <2>4. CASE i = n + 2
      BY <1>3, <1>7, <2>4
    <2> QED BY <1>3, <2>1, <2>2, <2>3, <2>4
  <1>8. ASSUME NEW k \in 1..(m + 1), copy[k] # <<>>
        PROVE  \E j \in 1..(n + 2) : more[j] = k /\ copy[k] = <<c[j].at>>
    <2>1. CASE k \in 1..m
      <3>1. PICK j \in 1..n : from[j] = k /\ copy[k] = <<r[j].at>>
        BY <1>2, <1>8, <2>1
      <3>2. j \in 1..(n + 2) /\ more[j] = k /\ c[j] = r[j]
        BY <1>3, <1>4, <3>1
      <3> QED BY <3>1, <3>2
    <2>2. CASE k = m + 1
      BY <1>3, <1>4, <2>2
    <2> QED BY <1>3, <2>1, <2>2
  <1>9. From(c, n + 2, m + 1, to, copy, what, more)
    BY <1>5, <1>6, <1>7, <1>8 DEF From
  <1> QED BY <1>9 DEF RelocatedTo

\* What a relocation is turned into depends on what CollectTLS, DecideMemOffset
\* and CollectArrays have computed.
LEMMA OriginsKept ==
    ASSUME bin' = bin, phdr' = phdr, data' = data, offsets' = offsets, tls_offset' = tls_offset,
           bin_to_init' = bin_to_init, bin_to_fini' = bin_to_fini
    PROVE  /\ Sites' = Sites /\ MovedTo' = MovedTo /\ CopiedTo' = CopiedTo /\ WhatOf' = WhatOf
           /\ \A b, at : Relocatable(b, at)' = Relocatable(b, at)
  <1>1. Sites' = Sites
    BY RelsKept
  <1>2. ASSUME NEW b, NEW at PROVE Moved(b, at)' = Moved(b, at)
    BY DEF Moved, InTLSData, RemapTLS, InData, Entry
  <1>3. ASSUME NEW b, NEW at PROVE Copied(b, at)' = Copied(b, at)
    BY DEF Copied, InArray
  <1>4. ASSUME NEW b, NEW at PROVE What(b, at)' = What(b, at)
    BY DEF What, InArray
  <1>5. ASSUME NEW b, NEW at PROVE Relocatable(b, at)' = Relocatable(b, at)
    BY DEF Relocatable, InArray, InTLSData
  <1>6. MovedTo' = MovedTo /\ CopiedTo' = CopiedTo /\ WhatOf' = WhatOf
    BY <1>1, <1>2, <1>3, <1>4 DEF MovedTo, CopiedTo, WhatOf
  <1> QED BY <1>1, <1>5, <1>6

\* The relocations of one input relocation.
LEMMA RelocateOne ==
    ASSUME Typed, Moving, Collecting, Gathering, Relocating, pc = 4, Relocate, pos <= Len(Sites), pc' # 0
    PROVE  /\ Relocatable(Sites[pos][1], Sites[pos][2]) /\ pos' = pos + 1 /\ pc' = 4
           /\ RelocatedTo(rels', Len(rels'), pos, MovedTo, CopiedTo, WhatOf)
  <1> DEFINE b == Sites[pos][1]
             at == Sites[pos][2]
             to == <<Moved(b, at)>> \o Copied(b, at)
             new == [k \in DOMAIN to |-> [at |-> to[k], what |-> What(b, at)]]
             n == Len(rels)
  <1>0. /\ pos \in Nat \ {0} /\ rels \in Seq(Relocation) /\ n \in Nat /\ Sites \in Seq(Bins \X Nat)
        /\ Len(Sites) \in Nat /\ Len(Sites) = Len(AllRels)
        /\ \A k \in 1..Len(AllRels) : Sites[k] = <<AllRels[k][1], AllRels[k][2].at>>
    BY LenProperties, AllTyped, SitesOfRels DEF Typed, Counters, Tables
  <1>1. pos \in 1..Len(Sites) /\ Sites[pos] \in Bins \X Nat /\ b \in Bins /\ at \in Nat
    BY <1>0, ElementOfSeq
  <1>2. Relocatable(b, at) /\ rels' = rels \o new /\ pos' = pos + 1 /\ pc' = 4
    <2>1. b = AllRels[pos][1] /\ at = AllRels[pos][2].at /\ pos <= Len(AllRels)
      BY <1>0, <1>1
    <2> HIDE DEF b, at
    <2> QED BY <2>1, Zenon DEF Relocate, Abort, Proceed
  <1>3. MovedTo[pos] = Moved(b, at) /\ CopiedTo[pos] = Copied(b, at) /\ WhatOf[pos] = What(b, at)
    BY <1>1 DEF MovedTo, CopiedTo, WhatOf
  <1> HIDE DEF b, at, n
  <1>4. Moved(b, at) \in Nat /\ Copied(b, at) \in Seq(Nat) /\ What(b, at) \in {"init", "fini", "other"} \X (0..NBins) \X Int
    BY <1>1, <1>2, MovedTyped, CopiedTyped, WhatTyped
  <1>5. RelocatedTo(rels, n, pos - 1, MovedTo, CopiedTo, WhatOf) /\ pos - 1 \in Nat /\ (pos - 1) + 1 = pos
    BY <1>0 DEF Relocating, n
  <1>6. CASE Copied(b, at) = <<>>
    <2>1. to = <<Moved(b, at)>>
      BY <1>4, <1>6
    <2>2. new = <<[at |-> Moved(b, at), what |-> What(b, at)]>>
      BY <2>1
    <2> HIDE DEF to, new
    <2>3. rels' = Append(rels, [at |-> Moved(b, at), what |-> What(b, at)])
      BY <1>0, <1>2, <2>2
    <2>4. [at |-> Moved(b, at), what |-> What(b, at)] \in Relocation
      BY <1>4 DEF Relocation
    <2>5. /\ Len(rels') = n + 1 /\ rels'[n + 1] = [at |-> Moved(b, at), what |-> What(b, at)]
          /\ \A j \in 1..n : rels'[j] = rels[j]
      BY <1>0, <2>3, <2>4, AppendProperties DEF n
    <2>6. RelocatedTo(rels', n + 1, (pos - 1) + 1, MovedTo, CopiedTo, WhatOf)
      BY <1>0, <1>3, <1>5, <1>6, <2>5, OneMore DEF n
    <2> QED BY <1>2, <1>5, <2>5, <2>6 DEF b, at
  <1>7. CASE Copied(b, at) # <<>>
    <2>1. PICK x : Copied(b, at) = <<x>>
      BY <1>7 DEF Copied
    <2>2. x \in Nat
      <3>1. Copied(b, at)[1] \in Nat
        BY <1>4, <2>1, ElementOfSeq
      <3> QED BY <2>1, <3>1
    <2>3. DOMAIN to = 1..2 /\ to[1] = Moved(b, at) /\ to[2] = x
      <3>1. <<Moved(b, at)>> \in Seq(Nat) /\ Len(<<Moved(b, at)>>) = 1 /\ <<Moved(b, at)>>[1] = Moved(b, at)
        BY <1>4
      <3>2. Len(Copied(b, at)) = 1 /\ Copied(b, at)[1] = x
        BY <2>1
      <3>3. to \in Seq(Nat) /\ Places(<<Moved(b, at)>>, Copied(b, at))
        BY <1>4, <3>1, ConcatPlaces
      <3>4. Len(to) = 2 /\ to[1] = Moved(b, at) /\ to[1 + 1] = x
        BY <3>1, <3>2, <3>3 DEF Places
      <3> HIDE DEF to
      <3> QED BY <3>3, <3>4, LenProperties
    <2> HIDE DEF to
    <2>4. /\ DOMAIN new = 1..2
          /\ new[1] = [at |-> Moved(b, at), what |-> What(b, at)]
          /\ new[2] = [at |-> x, what |-> What(b, at)]
      BY <2>3
    <2>5. new \in Seq(Relocation) /\ Len(new) = 2
      <3>1. /\ [at |-> Moved(b, at), what |-> What(b, at)] \in Relocation
            /\ [at |-> x, what |-> What(b, at)] \in Relocation
        BY <1>4, <2>2 DEF Relocation
      <3>2. \A k \in 1..2 : [at |-> to[k], what |-> What(b, at)] \in Relocation
        BY <2>3, <3>1
      <3>3. new \in Seq(Relocation)
        BY <2>3, <3>2
      <3> HIDE DEF new
      <3> QED BY <2>4, <3>3, LenProperties
    <2> HIDE DEF new
    <2>6. Places(rels, new)
      BY <1>0, <2>5, ConcatPlaces
    <2>7. /\ Len(rels') = n + 2 /\ \A j \in 1..n : rels'[j] = rels[j]
          /\ rels'[n + 1] = new[1] /\ rels'[n + 2] = new[2]
      BY <1>0, <1>2, <2>5, <2>6 DEF Places, n
    <2>8. /\ rels'[n + 1] = [at |-> Moved(b, at), what |-> What(b, at)]
          /\ rels'[n + 2].what = What(b, at) /\ rels'[n + 2].at = x
      BY <2>4, <2>7
    <2>9. RelocatedTo(rels', n + 2, (pos - 1) + 1, MovedTo, CopiedTo, WhatOf)
      <3>1. /\ rels'[n + 1] = [at |-> MovedTo[(pos - 1) + 1], what |-> WhatOf[(pos - 1) + 1]]
            /\ rels'[n + 2].what = WhatOf[(pos - 1) + 1]
            /\ CopiedTo[(pos - 1) + 1] = <<rels'[n + 2].at>>
        BY <1>3, <1>5, <2>1, <2>8, Zenon
      <3>2. n \in Nat
        BY <1>0
      <3> QED BY <1>5, <2>7, <3>1, <3>2, TwoMore, Zenon
    <2> QED BY <1>2, <1>5, <2>7, <2>9 DEF b, at
  <1> QED BY <1>6, <1>7

LEMMA RelocatingStep ==
    ASSUME LayoutInv, Relocating, Next
    PROVE  Relocating'
  <1>0. /\ Typed /\ Gathering /\ Moving /\ Collecting /\ Counters /\ pc \in 1..13 /\ pc' \in {0, pc, pc + 1}
        /\ pos \in Nat \ {0} /\ bin' = bin /\ phdr' = phdr /\ rels \in Seq(Relocation) /\ Len(rels) \in Nat
        /\ Len(Sites) \in Nat /\ Sites' = Sites
    BY Frame, RelsKept, AllTyped, LenProperties DEF LayoutInv, Typed, Counters, Tables
  <1>1. CASE pc < 4
    <2>1. rels' = <<>>
      BY <1>0, <1>1, Frame DEF Relocating
    <2>2. pc = 3 /\ pc' = 4 => pos' = 1
      BY <1>0, CallOf DEF CollectArrays, Return, Proceed
    <2>3. pc' = 4 => pos' = 1
      BY <1>0, <1>1, <2>2
    <2>4. ~(pc' > 4) /\ pc' \notin 5..7
      BY <1>0, <1>1
    <2>5. RelocatedTo(rels', 0, 0, MovedTo', CopiedTo', WhatOf')
      <3>1. \E g : g \in [1..0 -> 1..0]
        <4>1. [j \in 1..0 |-> j] \in [1..0 -> 1..0]
          OBVIOUS
        <4> QED BY <4>1
      <3>2. PICK g : g \in [1..0 -> 1..0]
        BY <3>1
      <3>3. From(rels', 0, 0, MovedTo', CopiedTo', WhatOf', g)
        BY <3>2 DEF From
      <3> QED BY <3>3 DEF RelocatedTo
    <2>6. Len(rels') = 0
      BY <2>1
    <2>7. pc' = 4 => /\ pos' <= Len(Sites') + 1 /\ pos' - 1 = 0 /\ \A k \in 1..(pos' - 1) : FALSE
      BY <1>0, <2>3
    <2> HIDE <1>0
    <2> QED BY <2>1, <2>4, <2>5, <2>6, <2>7, <1>0 DEF Relocating
  <1>2. CASE pc > 3
    <2>0. /\ MovedTo' = MovedTo /\ CopiedTo' = CopiedTo /\ WhatOf' = WhatOf
          /\ \A b, at : Relocatable(b, at)' = Relocatable(b, at)
          /\ memsz' = memsz /\ InitArrayOffset' = InitArrayOffset
      <3>1. data' = data /\ offsets' = offsets /\ tls_offset' = tls_offset /\ memsz' = memsz
            /\ bin_to_init' = bin_to_init /\ bin_to_fini' = bin_to_fini
        BY <1>0, <1>2, Frame DEF tls_, mem, arrays
      <3> QED BY <1>0, <3>1, OriginsKept, ArraysKept
    <2>1. CASE pc = 4 /\ pos <= Len(Sites) /\ pc' # 0
      <3>1. /\ Relocatable(Sites[pos][1], Sites[pos][2]) /\ pos' = pos + 1 /\ pc' = 4
            /\ RelocatedTo(rels', Len(rels'), pos, MovedTo, CopiedTo, WhatOf)
        BY <1>0, <2>1, CallOf, RelocateOne
      <3>2. \A k \in 1..pos : k = pos \/ k \in 1..(pos - 1)
        BY <1>0
      <3>3. \A k \in 1..pos : Relocatable(Sites[k][1], Sites[k][2])
        BY <2>1, <3>1, <3>2 DEF Relocating
      <3>4. pos' - 1 = pos /\ pos' <= Len(Sites) + 1
        BY <1>0, <2>1, <3>1
      <3> QED BY <1>0, <2>0, <3>1, <3>3, <3>4 DEF Relocating
    <2>2. CASE pc = 4 /\ ~(pos <= Len(Sites)) /\ pc' # 0
      <3>1. pc' = 5 /\ rels' = rels
        BY <1>0, <2>2, CallOf, SitesOfRels DEF Relocate, Return, Abort, Typed
      <3>2. pos - 1 = Len(Sites)
        BY <1>0, <2>2 DEF Relocating
      <3> QED BY <1>0, <2>0, <2>2, <3>1, <3>2 DEF Relocating
    <2>3. CASE pc = 7
      <3>1. pc' = 8 /\ rels' = Append(rels, [at |-> InitArrayOffset, what |-> <<"init", 0, 0>>])
        BY <1>0, <2>3, CallOf DEF BuildArrays, Return
      <3>2. [at |-> InitArrayOffset, what |-> <<"init", 0, 0>>] \in Relocation
        <4>1. InitArrayOffset \in Nat /\ 0 \in 0..NBins
          BY <1>0, HeadTyped, NBinsAssumption
        <4>2. <<"init", 0, 0>> \in {"init", "fini", "other"} \X (0..NBins) \X Int
          BY <4>1
        <4> QED BY <4>1, <4>2 DEF Relocation
      <3>3. /\ Len(rels') = Len(rels) + 1 /\ \A j \in 1..Len(rels) : rels'[j] = rels[j]
            /\ rels'[Len(rels')] = [at |-> InitArrayOffset, what |-> <<"init", 0, 0>>]
        BY <1>0, <3>1, <3>2, AppendProperties
      <3>4. RelocatedTo(rels, Len(rels), Len(Sites), MovedTo, CopiedTo, WhatOf)
        BY <2>3 DEF Relocating
      <3>5. RelocatedTo(rels', Len(rels), Len(Sites), MovedTo, CopiedTo, WhatOf)
        <4>1. PICK g : From(rels, Len(rels), Len(Sites), MovedTo, CopiedTo, WhatOf, g)
          BY <3>4 DEF RelocatedTo
        <4>2. \A j \in 1..Len(rels) : rels'[j] = rels[j]
          BY <3>3
        <4>3. From(rels', Len(rels), Len(Sites), MovedTo, CopiedTo, WhatOf, g)
          BY <4>1, <4>2, FromSame
        <4> QED BY <4>3 DEF RelocatedTo
      <3>6. Len(rels') - 1 = Len(rels) /\ Len(rels') >= 1
        BY <1>0, <3>3
      <3>7. \A k \in 1..Len(Sites) : Relocatable(Sites[k][1], Sites[k][2])
        BY <2>3 DEF Relocating
      <3> QED BY <1>0, <2>0, <3>1, <3>3, <3>5, <3>6, <3>7 DEF Relocating
    <2>4. CASE pc \notin {4, 7} \/ pc' = 0
      <3>1. CASE pc' = 0
        BY <3>1 DEF Relocating
      <3>2. CASE pc \notin {4, 7} /\ pc' # 0
        <4>1. rels' = rels
          BY <1>0, <3>2, Frame
        <4>2. (pc \in 5..6 /\ pc' \in 5..7) \/ (pc > 7 /\ pc' > 7)
          BY <1>0, <1>2, <3>2
        <4>3. CASE pc \in 5..6 /\ pc' \in 5..7
          <5>1. /\ pc' \notin 1..3 /\ pc' # 4 /\ pc' > 4 /\ ~(pc' > 7)
                /\ pc \in 5..7 /\ pc > 4
            BY <4>3
          <5> QED BY <1>0, <2>0, <4>1, <5>1, Zenon DEF Relocating
        <4>4. CASE pc > 7 /\ pc' > 7
          <5>1. pc' \notin 1..3 /\ pc' # 4 /\ pc' > 4 /\ pc' \notin 5..7 /\ pc > 4
            BY <1>0, <4>4
          <5> QED BY <1>0, <2>0, <4>1, <4>4, <5>1, Zenon DEF Relocating
        <4> QED BY <4>2, <4>3, <4>4
      <3> QED BY <2>4, <3>1, <3>2
    <2> QED BY <1>0, <1>2, <2>1, <2>2, <2>3, <2>4
  <1> QED BY <1>0, <1>1, <1>2

LEMMA RelocatingInvariant == Spec => []Relocating
  <1>1. Init => Relocating
    BY DEF Init, Relocating
  <1>2. LayoutInv /\ Relocating /\ [Next]_vars => Relocating'
    <2> SUFFICES ASSUME LayoutInv, Relocating, [Next]_vars PROVE Relocating'
      OBVIOUS
    <2>1. CASE Next
      BY <2>1, RelocatingStep
    <2>2. CASE UNCHANGED vars
      <3>1. /\ bin' = bin /\ phdr' = phdr /\ pc' = pc /\ pos' = pos /\ arrays' = arrays /\ tls_' = tls_
            /\ mem' = mem /\ rels' = rels
        BY <2>2 DEF vars
      <3>2. /\ data' = data /\ offsets' = offsets /\ tls_offset' = tls_offset /\ memsz' = memsz
            /\ bin_to_init' = bin_to_init /\ bin_to_fini' = bin_to_fini
        BY <3>1 DEF arrays, tls_, mem
      <3>3. /\ Sites' = Sites /\ MovedTo' = MovedTo /\ CopiedTo' = CopiedTo /\ WhatOf' = WhatOf
            /\ \A b, at : Relocatable(b, at)' = Relocatable(b, at)
            /\ InitArrayOffset' = InitArrayOffset
        BY <3>1, <3>2, OriginsKept, ArraysKept
      <3> QED BY <3>1, <3>3 DEF Relocating
    <2> QED BY <2>1, <2>2
  <1> QED BY <1>1, <1>2, LayoutInvariant, PTL DEF Spec

-----------------------------------------------------------------------------
(***************************************************************************)
(* Where a relocation lands.                                               *)
(***************************************************************************)
\* The initial values of each binary are in the template.
InTemplate(k) == data[k].file_offset + phdr[data[k].bin].filesz <= filesz
Reserved      == \A k \in DOMAIN data : InTemplate(k)

LEMMA ReservedStep ==
    ASSUME LayoutInv, Reserved, Next
    PROVE  Reserved'
  <1>0. /\ Typed /\ Counters /\ pc \in 1..13 /\ phdr' = phdr /\ filesz \in Nat /\ pos \in Nat \ {0}
        /\ data \in Seq(TLSEntry) /\ Len(data) \in Nat /\ DOMAIN data = 1..Len(data)
        /\ \A k \in DOMAIN data : data[k] \in TLSEntry
    BY Frame, LenProperties, ElementOfSeq DEF LayoutInv, Typed, Counters, Tables
  <1>1. CASE tls_' = tls_
    BY <1>0, <1>1 DEF Reserved, InTemplate, tls_
  <1>2. CASE pc = 2 /\ pos <= NBins /\ HasTLS(pos) /\ CollectTLSOf(pos)
    <2>1. data' = Append(data, Collected(pos)) /\ filesz' = filesz + phdr[pos].filesz
      BY <1>2 DEF CollectTLSOf
    <2>2. pos \in Bins /\ phdr[pos].filesz \in Nat
      <3>1. pos \in Bins
        BY <1>0, <1>2, NBinsAssumption DEF Bins
      <3> QED BY <1>0, <3>1, BinTyped DEF Typed
    <2>3. Collected(pos) \in TLSEntry /\ Collected(pos).bin = pos /\ Collected(pos).file_offset = filesz
      BY <1>0, <2>2 DEF Collected, TLSEntry, Counters
    <2>4. /\ data' \in Seq(TLSEntry) /\ Len(data') = Len(data) + 1
          /\ \A k \in 1..Len(data) : data'[k] = data[k]
          /\ data'[Len(data) + 1] = Collected(pos)
      BY <1>0, <2>1, <2>3, AppendProperties
    <2>5. DOMAIN data' = 1..(Len(data) + 1)
      BY <2>4, LenProperties
    <2>6. ASSUME NEW k \in DOMAIN data' PROVE InTemplate(k)'
      <3>1. CASE k \in 1..Len(data)
        <4>1. data[k] \in TLSEntry /\ data'[k] = data[k] /\ InTemplate(k)
          BY <1>0, <2>4, <3>1 DEF Reserved
        <4>2. data[k].file_offset \in Nat /\ data[k].bin \in Bins
          BY <4>1 DEF TLSEntry
        <4>3. phdr[data[k].bin].filesz \in Nat
          BY <1>0, <4>2, BinTyped DEF Typed
        <4>4. \A x, y, z, w \in Nat : x + y <= z => x + y <= z + w
          OBVIOUS
        <4> QED BY <1>0, <2>1, <2>2, <4>1, <4>2, <4>3, <4>4 DEF InTemplate
      <3>2. CASE k = Len(data) + 1
        BY <1>0, <2>1, <2>2, <2>3, <2>4, <3>2 DEF InTemplate
      <3> QED BY <1>0, <2>5, <2>6, <3>1, <3>2
    <2> QED BY <2>6 DEF Reserved
  <1>3. CASE pc = 2 /\ FinishTLS
    <2>1. data' = [k \in DOMAIN data |-> [data[k] EXCEPT !.bss_offset = @ + filesz]] /\ filesz' = filesz
      BY <1>3 DEF FinishTLS
    <2>2. ASSUME NEW k \in DOMAIN data' PROVE InTemplate(k)'
      <3>1. k \in DOMAIN data /\ data'[k] = [data[k] EXCEPT !.bss_offset = @ + filesz] /\ data[k] \in TLSEntry
        BY <1>0, <2>1, <2>2
      <3>2. data'[k].file_offset = data[k].file_offset /\ data'[k].bin = data[k].bin
        BY <3>1 DEF TLSEntry
      <3> QED BY <1>0, <2>1, <3>1, <3>2 DEF Reserved, InTemplate
    <2> QED BY <2>2 DEF Reserved
  <1> QED
    <2>1. CASE pc # 2
      BY <1>0, <1>1, <2>1, Frame
    <2>2. CASE pc = 2
      BY <1>0, <1>1, <1>2, <1>3, <2>2, CallOf DEF CollectTLS, CollectTLSOf
    <2> QED BY <2>1, <2>2

LEMMA ReservedInvariant == Spec => []Reserved
  <1>1. Init => Reserved
    BY DEF Init, InitTLS, Reserved
  <1>2. LayoutInv /\ Reserved /\ [Next]_vars => Reserved'
    <2> SUFFICES ASSUME LayoutInv, Reserved, [Next]_vars PROVE Reserved'
      OBVIOUS
    <2>1. CASE Next
      BY <2>1, ReservedStep
    <2>2. CASE UNCHANGED vars
      BY <2>2 DEF vars, tls_, Reserved, InTemplate
    <2> QED BY <2>1, <2>2
  <1> QED BY <1>1, <1>2, LayoutInvariant, PTL DEF Spec

\* The binaries ascend from the first one, and the template is above them.
LEMMA OffsetsAscend ==
    ASSUME LayoutInv, Placing, pc > 1
    PROVE  /\ \A b \in Bins : offsets[b] \in Nat /\ offsets[1] <= offsets[b]
           /\ offsets[1] \in Nat /\ offsets[1] <= tls_offset
  <1>0. /\ Typed /\ Moving /\ NBins \in Nat \ {0} /\ Len(offsets) = NBins /\ offsets \in Seq(Nat)
        /\ \A b \in Bins : Movable(b)
    BY NBinsAssumption DEF LayoutInv, Typed, Tables, Moving
  <1>1. \A b \in 1..NBins : offsets[b] \in Nat
    BY <1>0, ElementOfSeq
  <1>2. \A b \in 1..NBins : RangeEnd(b) \in Nat /\ FreeFrom(b) = offsets[b] + RangeEnd(b)
    <2> TAKE b \in 1..NBins
    <2>1. b \in Bins /\ b # 0 /\ bin[b].loads # <<>>
      BY <1>0 DEF Bins, Movable
    <2>2. RangeEnd(b) \in Nat
      BY <1>0, <2>1, RangeEndTyped DEF Typed
    <2>3. FreeFrom(b) = offsets[b] + RangeEnd(b)
      BY <2>1, SMT DEF FreeFrom
    <2> QED BY <2>2, <2>3
  <1>3. \A b \in 1..NBins : offsets[b] <= FreeFrom(b) /\ FreeFrom(b) \in Nat
    BY <1>1, <1>2
  <1>4. \A b \in 1..NBins : offsets[b] = FreeFrom(b - 1)
    BY <1>0 DEF Placing, Bins
  <1> DEFINE T == {b \in 0..NBins : b > 0 => offsets[1] <= offsets[b]}
  <1>5. 0..NBins \subseteq T
    <2>1. 0 \in T
      BY <1>0
    <2>2. ASSUME NEW b \in 0..NBins, b \in T, b < NBins PROVE b + 1 \in T
      <3>1. b + 1 \in 1..NBins /\ 1 \in 1..NBins /\ (b + 1) - 1 = b /\ b + 1 \in 0..NBins
        BY <1>0, <2>2
      <3>2. CASE b = 0
        BY <1>1, <3>1, <3>2
      <3>3. CASE b # 0
        <4>1. b \in 1..NBins /\ offsets[1] <= offsets[b]
          BY <2>2, <3>3
        <4>2. offsets[b] <= offsets[b + 1]
          BY <1>3, <1>4, <3>1, <4>1
        <4>3. offsets[1] <= offsets[b + 1]
          BY <1>1, <3>1, <4>1, <4>2
        <4> QED BY <3>1, <4>3
      <3> QED BY <3>2, <3>3
    <2> HIDE DEF T
    <2> QED BY <1>0, <2>1, <2>2, IntervalInduction
  <1>6. \A b \in 1..NBins : offsets[1] <= offsets[b]
    BY <1>5
  <1>7. 1 \in 1..NBins /\ NBins \in 1..NBins
    BY <1>0
  <1>8. tls_offset = FreeFrom(NBins)
    BY DEF Placing
  <1>9. offsets[1] <= tls_offset
    BY <1>1, <1>3, <1>6, <1>7, <1>8
  <1> QED BY <1>1, <1>6, <1>7, <1>9 DEF Bins

\* The arrays are in the head of the file.
LEMMA ArraysInHead ==
    ASSUME Typed
    PROVE  /\ FiniArrayOffset = InitArrayOffset + 8 * Len(init_array)
           /\ GnuHashOffset = FiniArrayOffset + 8 * Len(fini_array)
           /\ GnuHashOffset <= CodeOffset
           /\ InitArrayOffset \in Nat /\ FiniArrayOffset \in Nat /\ GnuHashOffset \in Nat /\ CodeOffset \in Nat
           /\ Len(init_array) \in Nat /\ Len(fini_array) \in Nat
  <1>1. /\ GnuHashOffset \in Nat /\ GnuHashSize \in Nat /\ SymtabOffset \in Nat /\ SymtabSize \in Nat
        /\ VersymOffset \in Nat /\ VersymSize \in Nat /\ VerneedOffset \in Nat /\ VerneedSize \in Nat
        /\ RelOffset \in Nat /\ RelSize \in Nat /\ StrtabOffset \in Nat /\ strtab \in Nat
        /\ DynamicOffset \in Nat /\ DynamicSize \in Nat /\ ShstrtabOffset \in Nat /\ ShstrtabSize \in Nat
    BY HeadTyped DEF Typed, Counters
  <1>2. /\ SymtabOffset = GnuHashOffset + GnuHashSize /\ VersymOffset = SymtabOffset + SymtabSize
        /\ VerneedOffset = VersymOffset + VersymSize /\ RelOffset = VerneedOffset + VerneedSize
        /\ StrtabOffset = RelOffset + RelSize /\ DynamicOffset = StrtabOffset + strtab
        /\ ShstrtabOffset = DynamicOffset + DynamicSize
    BY DEF SymtabOffset, VersymOffset, VerneedOffset, RelOffset, StrtabOffset, DynamicOffset, ShstrtabOffset
  <1>3. \A x, y \in Nat : x <= x + y
    OBVIOUS
  <1>4. GnuHashOffset <= VerneedOffset
    BY <1>1, <1>2
  <1>5. VerneedOffset <= DynamicOffset
    BY <1>1, <1>2
  <1>6. GnuHashOffset <= ShstrtabOffset + ShstrtabSize /\ ShstrtabOffset + ShstrtabSize \in Nat
    BY <1>1, <1>2, <1>4, <1>5
  <1>7. ShstrtabOffset + ShstrtabSize <= CodeOffset
    BY <1>6, PageAlign DEF CodeOffset
  <1>8. CodeOffset \in Nat /\ InitArrayOffset \in Nat /\ FiniArrayOffset \in Nat
    BY HeadTyped
  <1>9. GnuHashOffset <= CodeOffset
    BY <1>1, <1>6, <1>7, <1>8
  <1>10. Len(init_array) \in Nat /\ Len(fini_array) \in Nat
    BY LenProperties DEF Typed, Tables
  <1>11. /\ FiniArrayOffset = InitArrayOffset + 8 * Len(init_array)
         /\ GnuHashOffset = FiniArrayOffset + 8 * Len(fini_array)
    BY DEF FiniArrayOffset, GnuHashOffset, InitArraySize, FiniArraySize
  <1> QED BY <1>1, <1>8, <1>9, <1>10, <1>11

\* A place in the template, or in a binary, is above the head of the file.
LEMMA MovedLands ==
    ASSUME LayoutInv, Placing, Reserved, pc = 14, NEW b \in Bins, NEW at \in Nat
    PROVE  /\ Moved(b, at) \in Nat /\ GnuHashOffset < Moved(b, at)
           /\ InTLSData(b, at) => tls_offset <= Moved(b, at) /\ Moved(b, at) < tls_offset + filesz
           /\ ~InTLSData(b, at) => Moved(b, at) = at + offsets[b]
  <1>0. Typed /\ Moving /\ Collecting /\ Counters /\ tls_offset \in Nat /\ filesz \in Nat
    BY DEF LayoutInv, Typed, Counters
  <1>1. /\ offsets[b] \in Nat /\ offsets[1] \in Nat /\ offsets[1] <= offsets[b] /\ offsets[1] <= tls_offset
    BY OffsetsAscend
  <1>2. GnuHashOffset < offsets[1] /\ GnuHashOffset \in Nat
    <2>1. CodeOffset < offsets[1]
      BY DEF Placing
    <2> QED BY <1>0, <1>1, <2>1, ArraysInHead
  <1>3. CASE InTLSData(b, at)
    <2> DEFINE off == at - bin[b].tls.vaddr
    <2>1. /\ bin[b].tls.vaddr \in Nat /\ bin[b].tls.filesz \in Nat /\ bin[b].tls.memsz \in Nat
          /\ phdr[b].memsz = bin[b].tls.memsz /\ phdr[b].filesz = bin[b].tls.filesz
      BY <1>0, BinTyped DEF Typed, Extent
    <2>2. HasTLS(b) /\ off \in Nat /\ off < phdr[b].filesz /\ phdr[b].filesz \in Nat
      BY <1>3, <2>1 DEF InTLSData, HasTLS
    <2>3. \E k \in DOMAIN data : data[k].bin = b
      BY <1>0, <2>2 DEF Collecting
    <2>4. \E k \in DOMAIN data : data[k].bin = b /\ Entry(b) = data[k]
      BY <2>3 DEF Entry
    <2>5. PICK k \in DOMAIN data : data[k].bin = b /\ Entry(b) = data[k]
      BY <2>4
    <2>6. data[k].file_offset \in Nat
      <3>1. data \in Seq(TLSEntry)
        BY <1>0 DEF Typed, Tables
      <3>2. data[k] \in TLSEntry
        BY <2>5, <3>1, LenProperties, ElementOfSeq
      <3> QED BY <3>2 DEF TLSEntry
    <2>7. Entry(b).file_offset \in Nat /\ Entry(b).file_offset + phdr[b].filesz <= filesz
      BY <2>5, <2>6 DEF Reserved, InTemplate
    <2> HIDE DEF off
    <2>8. RemapTLS(b, off) = off + Entry(b).file_offset
      BY <2>2 DEF RemapTLS, InData
    <2>9. Moved(b, at) = (off + Entry(b).file_offset) + tls_offset
      BY <1>3, <2>8 DEF Moved, off
    <2>10. \A o, e, s, f, t \in Nat : o < s /\ e + s <= f =>
             (o + e) + t \in Nat /\ t <= (o + e) + t /\ (o + e) + t < t + f
      OBVIOUS
    <2>11. Moved(b, at) \in Nat /\ tls_offset <= Moved(b, at) /\ Moved(b, at) < tls_offset + filesz
      <3> DEFINE e == Entry(b).file_offset
                 s == phdr[b].filesz
      <3>1. off \in Nat /\ e \in Nat /\ s \in Nat /\ filesz \in Nat /\ tls_offset \in Nat
            /\ off < s /\ e + s <= filesz /\ Moved(b, at) = (off + e) + tls_offset
        BY <1>0, <2>2, <2>7, <2>9
      <3> HIDE DEF e, s
      <3> QED BY <2>10, <3>1
    <2>12. GnuHashOffset < Moved(b, at)
      BY <1>0, <1>1, <1>2, <2>11
    <2> QED BY <1>3, <2>11, <2>12
  <1>4. CASE ~InTLSData(b, at)
    <2>1. Moved(b, at) = at + offsets[b]
      BY <1>4 DEF Moved
    <2> QED BY <1>1, <1>2, <1>4, <2>1
  <1> QED BY <1>3, <1>4

\* Binary b has a place in the array of its initialisers, and in that of its
\* finalisers unless they are left out.
LEMMA HasPlaces ==
    ASSUME LayoutInv, Slotting, pc = 14, NEW b \in Bins
    PROVE  /\ \E p \in 0..Len(init_array) : HasPlace(init_array, bin_to_init, InitArrayOffset, InitCount, b, p)
           /\ b \in DOMAIN bin_to_fini =>
                \E p \in 0..Len(fini_array) : HasPlace(fini_array, bin_to_fini, FiniArrayOffset, FiniCount, b, p)
  <1>1. b \in DOMAIN bin_to_init
    BY DEF LayoutInv, Gathering
  <1>2. Held(init_array, bin_to_init, InitArrayOffset, InitCount) /\ Held(fini_array, bin_to_fini, FiniArrayOffset, FiniCount)
    BY DEF Slotting
  <1> QED BY <1>1, <1>2 DEF Held

\* What the address of a copied relocation says of where it comes from.
FromInit(b, at, x) ==
    /\ InArray(bin[b].init, at) /\ InitArrayOffset <= x /\ x < FiniArrayOffset
    /\ \A q \in Nat : x = InitArrayOffset + 8 * (q - 1) =>
         \E k \in 1..bin[b].init.n : init_array[q] = <<b, k>> /\ at = bin[b].init.addr + 8 * (k - 1)
FromFini(b, at, x) ==
    /\ InArray(bin[b].fini, at) /\ FiniArrayOffset <= x /\ x < GnuHashOffset
    /\ \A q \in Nat : x = FiniArrayOffset + 8 * (q - 1) =>
         \E k \in 1..bin[b].fini.n : fini_array[q] = <<b, k>> /\ at = bin[b].fini.addr + 8 * (k - 1)

LEMMA CopiedFrom ==
    ASSUME LayoutInv, Slotting, pc = 14, NEW b \in Bins, NEW at \in Nat, Relocatable(b, at),
           NEW x, Copied(b, at) = <<x>>
    PROVE  x \in Nat /\ (FromInit(b, at, x) \/ FromFini(b, at, x))
  <1>0. /\ Typed /\ bin[b].init \in RunOf /\ bin[b].fini \in RunOf
        /\ InitArrayOffset \in Nat /\ FiniArrayOffset \in Nat
        /\ FiniArrayOffset = InitArrayOffset + 8 * Len(init_array)
        /\ GnuHashOffset = FiniArrayOffset + 8 * Len(fini_array)
        /\ Len(init_array) \in Nat /\ Len(fini_array) \in Nat
        /\ InitCount[b] = bin[b].init.n /\ FiniCount[b] = bin[b].fini.n
    BY BinTyped, ArraysInHead DEF LayoutInv, Typed, InitCount, FiniCount
  <1>1. CASE InArray(bin[b].init, at)
    <2>1. x = at - bin[b].init.addr + bin_to_init[b]
      BY <1>1 DEF Copied
    <2>2. PICK p \in 0..Len(init_array) : HasPlace(init_array, bin_to_init, InitArrayOffset, InitCount, b, p)
      BY HasPlaces
    <2>3. p \in Nat
      BY <1>0
    <2>4. InSlot(init_array, InitArrayOffset, b, bin[b].init, at, x)
      BY <1>0, <1>1, <2>1, <2>2, <2>3, SlotInPlace
    <2> QED BY <1>0, <1>1, <2>4 DEF FromInit, InSlot
  <1>2. CASE ~InArray(bin[b].init, at)
    <2>1. InArray(bin[b].fini, at) /\ x = at - bin[b].fini.addr + bin_to_fini[b] /\ b \in DOMAIN bin_to_fini
      BY <1>2 DEF Copied, Relocatable
    <2>2. PICK p \in 0..Len(fini_array) : HasPlace(fini_array, bin_to_fini, FiniArrayOffset, FiniCount, b, p)
      BY <2>1, HasPlaces
    <2>3. p \in Nat
      BY <1>0
    <2>4. InSlot(fini_array, FiniArrayOffset, b, bin[b].fini, at, x)
      BY <1>0, <2>1, <2>2, <2>3, SlotInPlace
    <2> QED BY <1>0, <2>1, <2>4 DEF FromFini, InSlot
  <1> QED BY <1>1, <1>2

\* Every relocation of an input is for a place in one of its segments.
RelocsInside ==
    \A b \in Bins : \A at \in Range(Ats(b)) :
        \E l \in Range(bin[b].loads) : l.vaddr <= at /\ at < l.vaddr + l.memsz

\* The segments of each binary are among those of the output.
LEMMA LoadWritten ==
    ASSUME LayoutInv, pc = 14, NEW b \in Bins, NEW l \in Range(bin[b].loads)
    PROVE  \E m \in 1..Len(loads) :
             loads[m].bin = b /\ loads[m].vaddr = l.vaddr + offsets[b] /\ loads[m].memsz = l.memsz
  <1> DEFINE items == [c \in Bins |-> bin[c].loads]
             n == [c \in Bins |-> Len(items[c])]
  <1>0. /\ Typed /\ Loading /\ NBins \in Nat /\ AllLoads = Joined(items)
        /\ Len(loads) = Len(AllLoads) /\ \A k \in 1..Len(loads) : loads[k] = LoadOf(k)
    <2>1. Typed /\ Loading /\ NBins \in Nat
      BY NBinsAssumption DEF LayoutInv
    <2>2. AllLoads = Joined(items)
      BY DEF AllLoads
    <2>3. pc > 9 /\ pc > 0
      OBVIOUS
    <2>4. Len(loads) = Len(AllLoads) /\ \A k \in 1..Len(loads) : loads[k] = LoadOf(k)
      BY <2>1, <2>3, Zenon DEF Loading, LoadOf
    <2> QED BY <2>1, <2>2, <2>4
  <1>1. items \in [Bins -> Seq(Extent)] /\ n \in [1..NBins -> Int] /\ items[b] = bin[b].loads
    <2>1. \A c \in Bins : bin[c].loads \in Seq(Extent)
      BY <1>0, BinTyped DEF Typed
    <2>2. \A c \in Bins : Len(bin[c].loads) \in Int
      BY <2>1, LenProperties
    <2> QED BY <2>1, <2>2 DEF Bins
  <1>2. PICK i \in 1..Len(items[b]) : items[b][i] = l
    <2>1. items[b] \in Seq(Extent) /\ l \in Range(items[b])
      BY <1>1
    <2> HIDE DEF items
    <2> QED BY <2>1, LenProperties DEF Range
  <1> HIDE DEF items, n
  <1>3. PICK s : RunningSum(NBins, s, n)
    BY <1>0, <1>1, RunningSumExists
  <1>4. JoinedAt(items, s)
    <2>1. RunningSum(NBins, s, [c \in Bins |-> Len(items[c])])
      BY <1>3 DEF n
    <2> QED BY <1>1, <2>1, JoinedPlaces
  <1> DEFINE m == s[b - 1] + i
  <1>5. m \in 1..Len(loads) /\ AllLoads[m] = <<b, l>>
    BY <1>0, <1>2, <1>4 DEF JoinedAt
  <1> HIDE DEF m
  <1>6. loads[m] = LoadOf(m) /\ AllLoads[m][1] = b /\ AllLoads[m][2] = l
    BY <1>0, <1>5
  <1>7. loads[m].bin = b /\ loads[m].vaddr = l.vaddr + offsets[b] /\ loads[m].memsz = l.memsz
    BY <1>6 DEF LoadOf
  <1> QED BY <1>5, <1>7

\* The k-th relocation of all is one of its binary.
LEMMA RelocOf ==
    ASSUME LayoutInv, NEW k \in 1..Len(Sites)
    PROVE  /\ Sites[k][1] \in Bins /\ Sites[k][2] \in Nat
           /\ Sites[k][2] \in Range(Ats(Sites[k][1]))
  <1> DEFINE items == [b \in Bins |-> Ats(b)]
  <1>1. items \in [Bins -> Seq(Nat)] /\ Sites = Joined(items) /\ \A b \in Bins : items[b] = Ats(b)
    BY BinTyped DEF LayoutInv, Typed, Sites
  <1> HIDE DEF items
  <1>2. \E b \in Bins : \E i \in 1..Len(items[b]) : Sites[k] = <<b, items[b][i]>>
    BY <1>1, JoinedFrom
  <1>3. PICK b \in Bins : \E i \in 1..Len(items[b]) : Sites[k] = <<b, items[b][i]>>
    BY <1>2
  <1>4. PICK i \in 1..Len(items[b]) : Sites[k] = <<b, items[b][i]>>
    BY <1>3
  <1>5. items[b] \in Seq(Nat) /\ items[b] = Ats(b)
    BY <1>1
  <1>6. items[b][i] \in Nat /\ items[b][i] \in Range(items[b])
    BY <1>5, LenProperties, ElementOfSeq DEF Range
  <1> QED BY <1>4, <1>5, <1>6

Lands(r) ==
    \/ InitArrayOffset <= r.at /\ r.at < GnuHashOffset
    \/ tls_offset <= r.at /\ r.at < tls_offset + filesz
    \/ \E l \in Range(loads) : l.bin = r.what[2] /\ l.vaddr <= r.at /\ r.at < l.vaddr + l.memsz

LEMMA RelocationLands ==
    ASSUME LayoutInv, Placing, Reserved, Slotting, Relocating, RelocsInside, pc = 14, NEW r \in Range(rels)
    PROVE  Lands(r)
  <1>0. /\ Typed /\ rels \in Seq(Relocation) /\ Len(rels) \in Nat /\ Len(rels) >= 1
        /\ InitArrayOffset \in Nat /\ FiniArrayOffset \in Nat /\ GnuHashOffset \in Nat
        /\ FiniArrayOffset = InitArrayOffset + 8 * Len(init_array)
        /\ GnuHashOffset = FiniArrayOffset + 8 * Len(fini_array)
        /\ Len(init_array) \in Nat /\ Len(fini_array) \in Nat /\ Len(init_array) > 0
    <2>1. Typed /\ rels \in Seq(Relocation) /\ Len(rels) \in Nat
      BY LenProperties DEF LayoutInv, Typed, Tables
    <2>2. Len(rels) >= 1
      BY DEF Relocating
    <2>3. Len(init_array) > 0
      BY DEF Slotting
    <2> QED BY <2>1, <2>2, <2>3, ArraysInHead
  <1>1. PICK j \in 1..Len(rels) : r = rels[j]
    BY <1>0, LenProperties DEF Range
  <1>2. CASE j = Len(rels)
    <2>1. r.at = InitArrayOffset
      BY <1>1, <1>2 DEF Relocating
    <2>2. r.at < GnuHashOffset
      BY <1>0, <2>1
    <2> QED BY <1>0, <2>1, <2>2 DEF Lands
  <1>3. CASE j # Len(rels)
    <2>0. j \in 1..(Len(rels) - 1)
      BY <1>0, <1>3
    <2>1. PICK from : From(rels, Len(rels) - 1, Len(Sites), MovedTo, CopiedTo, WhatOf, from)
      BY DEF Relocating, RelocatedTo
    <2> DEFINE k == from[j]
    <2>2. /\ k \in 1..Len(Sites) /\ r.what = WhatOf[k]
          /\ r.at = MovedTo[k] \/ CopiedTo[k] = <<r.at>>
      BY <1>1, <2>0, <2>1 DEF From
    <2> HIDE DEF k
    <2> DEFINE b  == Sites[k][1]
               at == Sites[k][2]
    <2>3. b \in Bins /\ at \in Nat /\ at \in Range(Ats(b)) /\ Relocatable(b, at)
      BY <2>2, RelocOf DEF Relocating
    <2>4. r.what = What(b, at) /\ (r.at = Moved(b, at) \/ Copied(b, at) = <<r.at>>)
      BY <2>2 DEF MovedTo, CopiedTo, WhatOf
    <2> HIDE DEF b, at
    <2>5. CASE Copied(b, at) = <<r.at>>
      <3>1. r.at \in Nat /\ (FromInit(b, at, r.at) \/ FromFini(b, at, r.at))
        BY <2>3, <2>5, CopiedFrom
      <3>2. InitArrayOffset <= r.at /\ r.at < GnuHashOffset
        BY <1>0, <3>1 DEF FromInit, FromFini
      <3> QED BY <3>2 DEF Lands
    <2>6. CASE r.at = Moved(b, at) /\ InTLSData(b, at)
      BY <2>3, <2>6, MovedLands DEF Lands
    <2>7. CASE r.at = Moved(b, at) /\ ~InTLSData(b, at)
      <3>1. r.at = at + offsets[b]
        BY <2>3, <2>7, MovedLands
      <3>2. PICK l \in Range(bin[b].loads) : l.vaddr <= at /\ at < l.vaddr + l.memsz
        BY <2>3 DEF RelocsInside
      <3>3. PICK m \in 1..Len(loads) :
              loads[m].bin = b /\ loads[m].vaddr = l.vaddr + offsets[b] /\ loads[m].memsz = l.memsz
        BY <2>3, LoadWritten
      <3>4. l.vaddr \in Nat /\ l.memsz \in Nat /\ offsets[b] \in Nat
        <4>1. l \in Extent
          <5>1. bin[b].loads \in Seq(Extent)
            BY <1>0, <2>3, BinTyped DEF Typed
          <5> QED BY <3>2, <5>1, LenProperties, ElementOfSeq DEF Range
        <4>2. offsets[b] \in Nat
          BY <2>3, OffsetsAscend
        <4> QED BY <4>1, <4>2 DEF Extent
      <3>5. loads[m].vaddr <= r.at /\ r.at < loads[m].vaddr + loads[m].memsz
        BY <2>3, <3>1, <3>2, <3>3, <3>4
      <3>6. loads[m] \in Range(loads)
        BY <1>0, LenProperties DEF Range, Typed, Tables
      <3>7. r.what[2] = b
        BY <2>4 DEF What
      <3> QED BY <3>3, <3>5, <3>6, <3>7 DEF Lands
    <2> QED BY <2>4, <2>5, <2>6, <2>7
  <1> QED BY <1>2, <1>3

\* Whatever the inputs: when the relocations of each of them are for places in
\* its segments, each relocation of the output is for a place in the arrays, in
\* the template or in a segment of the binary it came from (RelocateSymbols,
\* RelocateSymbol_x86_64).
THEOREM RelocationsLandHolds == Spec => [](RelocsInside => RelocationsLand)
  <1>1. LayoutInv /\ Placing /\ Reserved /\ Slotting /\ Relocating => (RelocsInside => RelocationsLand)
    <2> SUFFICES ASSUME LayoutInv, Placing, Reserved, Slotting, Relocating, RelocsInside, Done
                 PROVE  RelocationsLand
      BY DEF RelocationsLand
    <2>1. pc = 14
      BY CallNumbers DEF LayoutInv, Typed, Counters
    <2>2. \A r \in Range(rels) : Lands(r)
      BY <2>1, RelocationLands
    <2> QED BY <2>2 DEF RelocationsLand, Lands
  <1> QED BY <1>1, LayoutInvariant, PlacingInvariant, ReservedInvariant, SlottingInvariant,
             RelocatingInvariant, PTL

-----------------------------------------------------------------------------
(***************************************************************************)
(* The relocation of a slot.                                               *)
(***************************************************************************)
\* One relocation of binary b is for `at'.
OneRelocation(b, at) == \E i \in DOMAIN Ats(b) : {k \in DOMAIN Ats(b) : Ats(b)[k] = at} = {i}

\* Each slot of the arrays of an input has one relocation, and the arrays are
\* apart.
SlotsFilled ==
    \A b \in Bins :
        /\ \A k \in 1..bin[b].init.n : OneRelocation(b, bin[b].init.addr + 8 * (k - 1))
        /\ \A k \in 1..bin[b].fini.n : /\ OneRelocation(b, bin[b].fini.addr + 8 * (k - 1))
                                       /\ ~InArray(bin[b].init, bin[b].fini.addr + 8 * (k - 1))

\* Then one of all relocations is for it.
LEMMA OneOfAll ==
    ASSUME LayoutInv, NEW b \in Bins, NEW at \in Nat, OneRelocation(b, at)
    PROVE  \E k \in 1..Len(Sites) : /\ Sites[k] = <<b, at>>
                                      /\ \A m \in 1..Len(Sites) : Sites[m] = <<b, at>> => m = k
  <1> DEFINE items == [c \in Bins |-> Ats(c)]
             n == [c \in Bins |-> Len(items[c])]
  <1>0. Typed /\ NBins \in Nat /\ Sites = Joined(items)
    BY NBinsAssumption DEF LayoutInv, Sites
  <1>1. items \in [Bins -> Seq(Nat)] /\ n \in [1..NBins -> Int] /\ items[b] = Ats(b)
    <2>1. \A c \in Bins : Ats(c) \in Seq(Nat)
      BY <1>0, BinTyped DEF Typed
    <2>2. \A c \in Bins : Len(Ats(c)) \in Int
      BY <2>1, LenProperties
    <2> QED BY <2>1, <2>2 DEF Bins
  <1>2. PICK i \in DOMAIN items[b] : {k \in DOMAIN items[b] : items[b][k] = at} = {i}
    BY <1>1 DEF OneRelocation
  <1>3. DOMAIN items[b] = 1..Len(items[b])
    <2>1. items[b] \in Seq(Nat)
      BY <1>1
    <2> HIDE DEF items
    <2> QED BY <2>1, LenProperties
  <1> HIDE DEF items, n
  <1>4. items[b][i] = at /\ \A k \in 1..Len(items[b]) : items[b][k] = at => k = i
    BY <1>2, <1>3
  <1>5. PICK s : RunningSum(NBins, s, n)
    BY <1>0, <1>1, RunningSumExists
  <1>6. JoinedAt(items, s)
    <2>1. RunningSum(NBins, s, [c \in Bins |-> Len(items[c])])
      BY <1>5 DEF n
    <2> QED BY <1>1, <2>1, JoinedPlaces
  <1>7. i \in 1..Len(items[b])
    BY <1>2, <1>3
  <1>8. s[b - 1] + i \in 1..Len(Sites) /\ Sites[s[b - 1] + i] = <<b, at>>
    BY <1>0, <1>4, <1>6, <1>7 DEF JoinedAt
  <1>9. ASSUME NEW m \in 1..Len(Sites), Sites[m] = <<b, at>>
        PROVE  m = s[b - 1] + i
    <2>1. PICK c \in Bins : \E k \in 1..Len(items[c]) : m = s[c - 1] + k
      BY <1>0, <1>6 DEF JoinedAt
    <2>2. PICK k \in 1..Len(items[c]) : m = s[c - 1] + k
      BY <2>1
    <2>3. Sites[m] = <<c, items[c][k]>>
      BY <1>0, <1>6, <2>2 DEF JoinedAt
    <2>4. c = b /\ items[c][k] = at
      BY <1>9, <2>3
    <2>5. k = i
      BY <1>4, <2>4
    <2> QED BY <2>2, <2>4, <2>5
  <1> QED BY <1>8, <1>9

\* A place of the output that only the k-th relocation is copied to has one
\* relocation, for what the k-th is for.
LEMMA OneForSlot ==
    ASSUME LayoutInv, Placing, Reserved, Relocating, pc = 14, NEW x \in Nat, x < GnuHashOffset, x # InitArrayOffset,
           NEW k \in 1..Len(Sites), CopiedTo[k] = <<x>>,
           \A m \in 1..Len(Sites) : CopiedTo[m] = <<x>> => m = k
    PROVE  \E j \in DOMAIN rels : {i \in DOMAIN rels : rels[i].at = x} = {j} /\ rels[j].what = WhatOf[k]
  <1>0. rels \in Seq(Relocation) /\ Len(rels) \in Nat /\ Len(rels) >= 1 /\ DOMAIN rels = 1..Len(rels)
        /\ rels[Len(rels)].at = InitArrayOffset /\ GnuHashOffset \in Nat
    <2>1. Typed /\ rels \in Seq(Relocation) /\ Len(rels) \in Nat /\ DOMAIN rels = 1..Len(rels)
      BY LenProperties DEF LayoutInv, Typed, Tables
    <2>2. Len(rels) >= 1 /\ rels[Len(rels)].at = InitArrayOffset
      BY DEF Relocating
    <2> QED BY <2>1, <2>2, ArraysInHead
  <1>1. PICK from : From(rels, Len(rels) - 1, Len(Sites), MovedTo, CopiedTo, WhatOf, from)
    BY DEF Relocating, RelocatedTo
  <1> DEFINE n == Len(rels) - 1
  <1>2. n \in Nat /\ \A i \in DOMAIN rels : i = Len(rels) \/ i \in 1..n
    BY <1>0
  <1>3. \A i \in 1..n : i \in DOMAIN rels
    BY <1>0
  <1> HIDE DEF n
  <1>4. \A m \in 1..Len(Sites) : MovedTo[m] # x
    <2> TAKE m \in 1..Len(Sites)
    <2>1. Sites[m][1] \in Bins /\ Sites[m][2] \in Nat
      BY RelocOf
    <2>2. MovedTo[m] \in Nat /\ GnuHashOffset < MovedTo[m]
      BY <2>1, MovedLands DEF MovedTo
    <2> QED BY <1>0, <2>2
  <1>5. /\ from \in [1..n -> 1..Len(Sites)]
        /\ \A j \in 1..n : /\ rels[j].what = WhatOf[from[j]]
                           /\ rels[j].at = MovedTo[from[j]] \/ CopiedTo[from[j]] = <<rels[j].at>>
        /\ \A i, j \in 1..n : i < j /\ from[i] = from[j] => rels[i].at = MovedTo[from[i]]
        /\ \A m \in 1..Len(Sites) : CopiedTo[m] # <<>> =>
             \E j \in 1..n : from[j] = m /\ CopiedTo[m] = <<rels[j].at>>
    BY <1>1 DEF From, n
  <1>6. PICK j \in 1..n : from[j] = k /\ CopiedTo[k] = <<rels[j].at>>
    <2>1. CopiedTo[k] # <<>>
      OBVIOUS
    <2>2. \A m \in 1..Len(Sites) : CopiedTo[m] # <<>> =>
             \E i \in 1..n : from[i] = m /\ CopiedTo[m] = <<rels[i].at>>
      BY <1>5
    <2> QED BY <2>1, <2>2
  <1>7. j \in DOMAIN rels /\ rels[j].at = x /\ rels[j].what = WhatOf[k]
    BY <1>3, <1>5, <1>6
  <1>8. ASSUME NEW i \in DOMAIN rels, rels[i].at = x PROVE i = j
    <2>1. i \in 1..n
      BY <1>0, <1>2, <1>8
    <2>2. from[i] \in 1..Len(Sites) /\ CopiedTo[from[i]] = <<x>>
      BY <1>4, <1>5, <1>8, <2>1
    <2>3. from[i] = k
      BY <2>2
    <2>4. ~(i < j) /\ ~(j < i)
      BY <1>4, <1>5, <1>6, <1>7, <1>8, <2>1, <2>3
    <2> QED BY <1>2, <2>1, <2>4
  <1> QED BY <1>7, <1>8

\* The slot of an initialiser.
LEMMA InitRelocated ==
    ASSUME LayoutInv, Placing, Reserved, Slotting, Relocating, SlotsFilled, pc = 14,
           NEW q \in 1..Len(init_array), q # 1
    PROVE  \E j \in DOMAIN rels :
             /\ RelsOf(InitArrayOffset, q) = {j}
             /\ rels[j].what = <<"init", init_array[q][1], init_array[q][2]>>
  <1>0. /\ Typed /\ InitArrayOffset \in Nat /\ FiniArrayOffset \in Nat /\ GnuHashOffset \in Nat
        /\ FiniArrayOffset = InitArrayOffset + 8 * Len(init_array)
        /\ GnuHashOffset = FiniArrayOffset + 8 * Len(fini_array)
        /\ Len(init_array) \in Nat /\ Len(fini_array) \in Nat
        /\ \A c \in Bins : bin[c].init \in RunOf /\ InitCount[c] = bin[c].init.n
    BY ArraysInHead, BinTyped DEF LayoutInv, Typed, InitCount
  <1> DEFINE x == InitArrayOffset + 8 * (q - 1)
  <1>1. x \in Nat /\ x < FiniArrayOffset /\ x < GnuHashOffset /\ x # InitArrayOffset /\ q \in Nat
    BY <1>0
  <1>2. x = InitArrayOffset + 8 * (q - 1)
    OBVIOUS
  <1> HIDE DEF x
  <1>3. PICK b \in DOMAIN bin_to_init : \E k \in 1..InitCount[b] : IsSlotOf(init_array, bin_to_init, InitArrayOffset, q, b, k)
    <2>1. init_array[q] # <<0, 0>>
      BY DEF Slotting
    <2> QED BY <2>1 DEF Slotting, Held
  <1>4. b \in Bins
    BY DEF LayoutInv, Gathering
  <1>5. PICK k \in 1..bin[b].init.n : IsSlotOf(init_array, bin_to_init, InitArrayOffset, q, b, k)
    BY <1>0, <1>3, <1>4
  <1> DEFINE at == bin[b].init.addr + 8 * (k - 1)
  <1>6. /\ at \in Nat /\ InArray(bin[b].init, at) /\ at - bin[b].init.addr + bin_to_init[b] = x
        /\ (at - bin[b].init.addr) \div 8 + 1 = k
    <2>1. bin[b].init \in RunOf /\ q \in Nat /\ InitArrayOffset \in Nat
      BY <1>0, <1>1, <1>4
    <2>2. SlotPlace(bin_to_init, InitArrayOffset, q, b, bin[b].init, k, at)
      BY <1>5, <2>1, PlaceOfSlot
    <2> HIDE DEF at
    <2> QED BY <1>2, <2>2 DEF SlotPlace
  <1>7. OneRelocation(b, at)
    BY <1>4 DEF SlotsFilled
  <1> HIDE DEF at
  <1>10. Copied(b, at) = <<x>> /\ What(b, at) = <<"init", b, k>>
    <2>1. Copied(b, at) = <<x>>
      BY <1>6 DEF Copied
    <2>2. What(b, at) = <<"init", b, k>>
      BY <1>6 DEF What
    <2> QED BY <2>1, <2>2
  <1>11. PICK m \in 1..Len(Sites) : /\ Sites[m] = <<b, at>>
                                      /\ \A o \in 1..Len(Sites) : Sites[o] = <<b, at>> => o = m
    BY <1>4, <1>6, <1>7, OneOfAll
  <1>12. CopiedTo[m] = <<x>> /\ WhatOf[m] = <<"init", b, k>>
    BY <1>10, <1>11 DEF CopiedTo, WhatOf
  <1>13. ASSUME NEW o \in 1..Len(Sites), CopiedTo[o] = <<x>> PROVE o = m
    <2> DEFINE c == Sites[o][1]
               a == Sites[o][2]
    <2>1. c \in Bins /\ a \in Nat /\ Relocatable(c, a) /\ Copied(c, a) = <<x>> /\ Sites[o] = <<c, a>>
      <3>1. Sites[o] \in Bins \X Nat
        BY <1>0, AllTyped, ElementOfSeq DEF Typed
      <3>2. Relocatable(c, a) /\ Copied(c, a) = <<x>>
        BY <1>13 DEF Relocating, CopiedTo
      <3> QED BY <3>1, <3>2
    <2> HIDE DEF c, a
    <2>2. FromInit(c, a, x) \/ FromFini(c, a, x)
      BY <2>1, CopiedFrom
    <2>3. FromInit(c, a, x)
      BY <1>0, <1>1, <2>2 DEF FromFini
    <2>4. PICK i \in 1..bin[c].init.n : init_array[q] = <<c, i>> /\ a = bin[c].init.addr + 8 * (i - 1)
      BY <1>1, <1>2, <2>3 DEF FromInit
    <2>5. c = b /\ i = k
      BY <1>5, <2>4 DEF IsSlotOf
    <2>6. a = at
      BY <2>4, <2>5 DEF at
    <2> QED BY <1>11, <2>1, <2>5, <2>6
  <1>14. PICK j \in DOMAIN rels : {i \in DOMAIN rels : rels[i].at = x} = {j} /\ rels[j].what = WhatOf[m]
    BY <1>1, <1>12, <1>13, OneForSlot
  <1>15. RelsOf(InitArrayOffset, q) = {j}
    BY <1>2, <1>14 DEF RelsOf
  <1>16. init_array[q][1] = b /\ init_array[q][2] = k
    BY <1>5 DEF IsSlotOf
  <1> QED BY <1>12, <1>14, <1>15, <1>16

\* The slot of a finaliser.
LEMMA FiniRelocated ==
    ASSUME LayoutInv, Placing, Reserved, Slotting, Relocating, SlotsFilled, pc = 14,
           NEW q \in 1..Len(fini_array)
    PROVE  \E j \in DOMAIN rels :
             /\ RelsOf(FiniArrayOffset, q) = {j}
             /\ rels[j].what = <<"fini", fini_array[q][1], fini_array[q][2]>>
  <1>0. /\ Typed /\ InitArrayOffset \in Nat /\ FiniArrayOffset \in Nat /\ GnuHashOffset \in Nat
        /\ FiniArrayOffset = InitArrayOffset + 8 * Len(init_array)
        /\ GnuHashOffset = FiniArrayOffset + 8 * Len(fini_array)
        /\ Len(init_array) \in Nat /\ Len(fini_array) \in Nat /\ Len(init_array) > 0
        /\ \A c \in Bins : bin[c].fini \in RunOf /\ FiniCount[c] = bin[c].fini.n
    BY ArraysInHead, BinTyped DEF LayoutInv, Typed, FiniCount, Slotting
  <1> DEFINE x == FiniArrayOffset + 8 * (q - 1)
  <1>1. x \in Nat /\ FiniArrayOffset <= x /\ x < GnuHashOffset /\ x # InitArrayOffset /\ q \in Nat
    BY <1>0
  <1>2. x = FiniArrayOffset + 8 * (q - 1)
    OBVIOUS
  <1> HIDE DEF x
  <1>3. PICK b \in DOMAIN bin_to_fini : \E k \in 1..FiniCount[b] : IsSlotOf(fini_array, bin_to_fini, FiniArrayOffset, q, b, k)
    <2>1. fini_array[q] # <<0, 0>>
      BY DEF Slotting
    <2> QED BY <2>1 DEF Slotting, Held
  <1>4. b \in Bins
    BY DEF LayoutInv, Gathering
  <1>5. PICK k \in 1..bin[b].fini.n : IsSlotOf(fini_array, bin_to_fini, FiniArrayOffset, q, b, k)
    BY <1>0, <1>3, <1>4
  <1> DEFINE at == bin[b].fini.addr + 8 * (k - 1)
  <1>6. /\ at \in Nat /\ InArray(bin[b].fini, at) /\ at - bin[b].fini.addr + bin_to_fini[b] = x
        /\ (at - bin[b].fini.addr) \div 8 + 1 = k
    <2>1. bin[b].fini \in RunOf /\ q \in Nat /\ FiniArrayOffset \in Nat
      BY <1>0, <1>1, <1>4
    <2>2. SlotPlace(bin_to_fini, FiniArrayOffset, q, b, bin[b].fini, k, at)
      BY <1>5, <2>1, PlaceOfSlot
    <2> HIDE DEF at
    <2> QED BY <1>2, <2>2 DEF SlotPlace
  <1>7. OneRelocation(b, at) /\ ~InArray(bin[b].init, at)
    BY <1>4 DEF SlotsFilled
  <1> HIDE DEF at
  <1>10. Copied(b, at) = <<x>> /\ What(b, at) = <<"fini", b, k>>
    BY <1>6, <1>7 DEF Copied, What
  <1>11. PICK m \in 1..Len(Sites) : /\ Sites[m] = <<b, at>>
                                      /\ \A o \in 1..Len(Sites) : Sites[o] = <<b, at>> => o = m
    BY <1>4, <1>6, <1>7, OneOfAll
  <1>12. CopiedTo[m] = <<x>> /\ WhatOf[m] = <<"fini", b, k>>
    BY <1>10, <1>11 DEF CopiedTo, WhatOf
  <1>13. ASSUME NEW o \in 1..Len(Sites), CopiedTo[o] = <<x>> PROVE o = m
    <2> DEFINE c == Sites[o][1]
               a == Sites[o][2]
    <2>1. c \in Bins /\ a \in Nat /\ Relocatable(c, a) /\ Copied(c, a) = <<x>> /\ Sites[o] = <<c, a>>
      <3>1. Sites[o] \in Bins \X Nat
        BY <1>0, AllTyped, ElementOfSeq DEF Typed
      <3>2. Relocatable(c, a) /\ Copied(c, a) = <<x>>
        BY <1>13 DEF Relocating, CopiedTo
      <3> QED BY <3>1, <3>2
    <2> HIDE DEF c, a
    <2>2. FromInit(c, a, x) \/ FromFini(c, a, x)
      BY <2>1, CopiedFrom
    <2>3. FromFini(c, a, x)
      BY <1>0, <1>1, <2>2 DEF FromInit
    <2>4. PICK i \in 1..bin[c].fini.n : fini_array[q] = <<c, i>> /\ a = bin[c].fini.addr + 8 * (i - 1)
      BY <1>1, <1>2, <2>3 DEF FromFini
    <2>5. c = b /\ i = k
      BY <1>5, <2>4 DEF IsSlotOf
    <2>6. a = at
      BY <2>4, <2>5 DEF at
    <2> QED BY <1>11, <2>1, <2>5, <2>6
  <1>14. PICK j \in DOMAIN rels : {i \in DOMAIN rels : rels[i].at = x} = {j} /\ rels[j].what = WhatOf[m]
    BY <1>1, <1>12, <1>13, OneForSlot
  <1>15. RelsOf(FiniArrayOffset, q) = {j}
    BY <1>2, <1>14 DEF RelsOf
  <1>16. fini_array[q][1] = b /\ fini_array[q][2] = k
    BY <1>5 DEF IsSlotOf
  <1> QED BY <1>12, <1>14, <1>15, <1>16

\* The slot of mprotect.
LEMMA MprotectRelocated ==
    ASSUME LayoutInv, Placing, Reserved, Slotting, Relocating, pc = 14
    PROVE  \E j \in DOMAIN rels :
             /\ RelsOf(InitArrayOffset, 1) = {j}
             /\ rels[j].what = <<"init", init_array[1][1], init_array[1][2]>>
  <1>0. /\ Typed /\ InitArrayOffset \in Nat /\ FiniArrayOffset \in Nat /\ GnuHashOffset \in Nat
        /\ FiniArrayOffset = InitArrayOffset + 8 * Len(init_array)
        /\ GnuHashOffset = FiniArrayOffset + 8 * Len(fini_array)
        /\ Len(init_array) \in Nat /\ Len(fini_array) \in Nat /\ Len(init_array) > 0
        /\ init_array[1] = <<0, 0>>
    BY ArraysInHead DEF LayoutInv, Slotting
  <1>1. /\ Len(rels) \in Nat /\ Len(rels) >= 1 /\ DOMAIN rels = 1..Len(rels)
        /\ rels[Len(rels)].at = InitArrayOffset /\ rels[Len(rels)].what = <<"init", 0, 0>>
    <2>1. Len(rels) \in Nat /\ DOMAIN rels = 1..Len(rels)
      BY LenProperties DEF LayoutInv, Typed, Tables
    <2> QED BY <2>1 DEF Relocating
  <1>2. ASSUME NEW j \in DOMAIN rels, rels[j].at = InitArrayOffset PROVE j = Len(rels)
    <2>1. SUFFICES ASSUME j # Len(rels) PROVE FALSE
      OBVIOUS
    <2>2. j \in 1..(Len(rels) - 1)
      BY <1>1, <2>1
    <2>3. PICK from : From(rels, Len(rels) - 1, Len(Sites), MovedTo, CopiedTo, WhatOf, from)
      BY DEF Relocating, RelocatedTo
    <2> DEFINE k == from[j]
    <2>4. /\ k \in 1..Len(Sites)
          /\ InitArrayOffset = MovedTo[k] \/ CopiedTo[k] = <<InitArrayOffset>>
      BY <1>2, <2>2, <2>3 DEF From
    <2> HIDE DEF k
    <2> DEFINE b  == Sites[k][1]
               at == Sites[k][2]
    <2>5. b \in Bins /\ at \in Nat /\ Relocatable(b, at)
      BY <2>4, RelocOf DEF Relocating
    <2>6. InitArrayOffset = Moved(b, at) \/ Copied(b, at) = <<InitArrayOffset>>
      BY <2>4 DEF MovedTo, CopiedTo
    <2> HIDE DEF b, at
    <2>7. CASE InitArrayOffset = Moved(b, at)
      <3>1. GnuHashOffset < Moved(b, at)
        BY <2>5, MovedLands
      <3> QED BY <1>0, <2>7, <3>1
    <2>8. CASE Copied(b, at) = <<InitArrayOffset>>
      <3>1. FromInit(b, at, InitArrayOffset) \/ FromFini(b, at, InitArrayOffset)
        BY <2>5, <2>8, CopiedFrom
      <3>2. FromInit(b, at, InitArrayOffset)
        BY <1>0, <3>1 DEF FromFini
      <3>3. InitArrayOffset = InitArrayOffset + 8 * (1 - 1) /\ 1 \in Nat
        BY <1>0
      <3>4. \E i \in 1..bin[b].init.n : init_array[1] = <<b, i>>
        BY <3>2, <3>3 DEF FromInit
      <3>5. b # 0
        BY <2>5 DEF Bins
      <3> QED BY <1>0, <3>4, <3>5
    <2> QED BY <2>6, <2>7, <2>8
  <1>3. InitArrayOffset + 8 * (1 - 1) = InitArrayOffset
    BY <1>0
  <1>4. RelsOf(InitArrayOffset, 1) = {Len(rels)}
    BY <1>1, <1>2, <1>3 DEF RelsOf
  <1>5. Len(rels) \in DOMAIN rels
    BY <1>1
  <1>6. <<"init", init_array[1][1], init_array[1][2]>> = <<"init", 0, 0>>
    BY <1>0
  <1> QED BY <1>1, <1>4, <1>5, <1>6

\* Whatever the inputs: when each slot of the arrays of each of them has its
\* relocation, each slot of the arrays of the output has exactly one, for the
\* function of the same slot of the same input, and the slot of mprotect has its
\* own (CollectArrays, RelocateSymbol_x86_64, BuildArrays).
THEOREM SlotsRelocatedHolds == Spec => [](SlotsFilled => SlotsRelocated)
  <1>1. LayoutInv /\ Placing /\ Reserved /\ Slotting /\ Relocating => (SlotsFilled => SlotsRelocated)
    <2> SUFFICES ASSUME LayoutInv, Placing, Reserved, Slotting, Relocating, SlotsFilled, Done
                 PROVE  SlotsRelocated
      BY DEF SlotsRelocated
    <2>1. pc = 14
      BY CallNumbers DEF LayoutInv, Typed, Counters
    <2>2. DOMAIN init_array = 1..Len(init_array) /\ DOMAIN fini_array = 1..Len(fini_array)
      BY LenProperties DEF LayoutInv, Typed, Tables
    <2>3. \A k \in DOMAIN init_array : \E j \in DOMAIN rels :
             /\ RelsOf(InitArrayOffset, k) = {j}
             /\ rels[j].what = <<"init", init_array[k][1], init_array[k][2]>>
      BY <2>1, <2>2, InitRelocated, MprotectRelocated
    <2>4. \A k \in DOMAIN fini_array : \E j \in DOMAIN rels :
             /\ RelsOf(FiniArrayOffset, k) = {j}
             /\ rels[j].what = <<"fini", fini_array[k][1], fini_array[k][2]>>
      BY <2>1, <2>2, FiniRelocated
    <2> QED BY <2>3, <2>4 DEF SlotsRelocated
  <1> QED BY <1>1, LayoutInvariant, PlacingInvariant, ReservedInvariant, SlottingInvariant,
             RelocatingInvariant, PTL
=============================================================================
