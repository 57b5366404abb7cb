-------------------------- MODULE OutputUse_proofs --------------------------
(***************************************************************************)
(* What the arrays of an output run, what a second link of it shows, and   *)
(* what the renamer leaves of an object.                                   *)
(*                                                                         *)
(* Part 1, InitOrder: Plan(p) is what the p-th function to run has to be;  *)
(* the arrays are ordered by binary (InitArrayOK, FiniArrayOK) and what    *)
(* ran is a prefix of the plan (Running).                                  *)
(*                                                                         *)
(* Part 2, CheckOutput: CheckInv follows two links.  The libraries of each *)
(* are where a search path found them (Found, OnPath), and loaded with what *)
(* they need.  The first link starts with no inherited size and computes   *)
(* the three.  The second one starts from the output (Second); when it     *)
(* finds what the first one found (Same), it loads only what the first one *)
(* left out or what such a file needs (Relinked), so the sizes it inherits *)
(* differ from its own only when a linked file came back.                  *)
(*                                                                         *)
(* Part 3, Renamer: the string table only grows, and a string stays where  *)
(* it was put (Keeps); so what one pass has written (AllPlaced) the later  *)
(* passes leave right.  RenInv says how far each pass has come and what it *)
(* has written, and that a request that is to succeed has not failed.      *)
(***************************************************************************)
EXTENDS Mprotect_proofs

-----------------------------------------------------------------------------
(***************************************************************************)
(* What runs when the output is loaded (InitOrder).                        *)
(***************************************************************************)
\* One function stands before another in link order, or in its binary's array.
Earlier(f, g) == f.bin < g.bin \/ (f.bin = g.bin /\ f.k < g.k)
\* and, among the initialisers, the last binary's first.
EarlierInit(f, g) == f.bin > g.bin \/ (f.bin = g.bin /\ f.k < g.k)

\* The binaries of which the loop over the finalisers has not collected what it
\* collects, and of those over the initialisers.
InitsOf(b) == b \in Start!Bins /\ (phase = "init" => b > cur)
FinisOf(b) == b \in Start!Bins \ excluded /\ phase # "init" /\ (phase = "fini" => b < cur)

\* The slot of mprotect, then the initialisers collected, the last binary's first.
InitArrayOK ==
    /\ init_array \in Seq(Start!Functions) /\ Len(init_array) >= 1
    /\ init_array[1] = Start!Function(0, "mprotect", 0)
    /\ \A p \in 2..Len(init_array) :
          /\ init_array[p].kind = "init" /\ InitsOf(init_array[p].bin)
          /\ init_array[p].k \in 1..bin[init_array[p].bin].init
    /\ \A p, q \in 2..Len(init_array) : p < q =>
          \/ init_array[p].bin > init_array[q].bin
          \/ init_array[p].bin = init_array[q].bin /\ init_array[p].k < init_array[q].k
    /\ \A b \in Start!Bins : InitsOf(b) => \A k \in 1..bin[b].init :
          \E p \in 2..Len(init_array) : init_array[p] = Start!Function(b, "init", k)

\* The finalisers collected, the first binary's first.
FiniArrayOK ==
    /\ fini_array \in Seq(Start!Functions)
    /\ \A p \in 1..Len(fini_array) :
          /\ fini_array[p].kind = "fini" /\ FinisOf(fini_array[p].bin)
          /\ fini_array[p].k \in 1..bin[fini_array[p].bin].fini
    /\ \A p, q \in 1..Len(fini_array) : p < q => Earlier(fini_array[p], fini_array[q])
    /\ \A b \in Start!Bins : FinisOf(b) => \A k \in 1..bin[b].fini :
          \E p \in 1..Len(fini_array) : fini_array[p] = Start!Function(b, "fini", k)

LoadInput ==
    /\ bin \in [Start!Bins -> Binaries]
    /\ needs \in [Start!Bins -> SUBSET Start!Bins]
    /\ \A b \in Start!Bins : \A c \in needs[b] : b < c
    /\ excluded \subseteq Start!Bins

Loading == {"load", "run", "exit", "done"}

\* DT_INIT is there, or is not; DT_FINI is, or is not.
Dts  == IF "dt_init" \in bin[1].dt THEN 1 ELSE 0
Ends == IF "dt_fini" \in bin[1].dt THEN 1 ELSE 0

\* What the loader is to run: DT_INIT, the array of initialisers, that of
\* finalisers from its end, DT_FINI.
Plan(p) ==
    IF p <= Dts THEN Start!Function(1, "dt_init", 0)
    ELSE IF p <= Dts + Len(init_array) THEN init_array[p - Dts]
    ELSE IF p <= Dts + Len(init_array) + Len(fini_array)
         THEN fini_array[Dts + Len(init_array) + Len(fini_array) + 1 - p]
    ELSE Start!Function(1, "dt_fini", 0)

\* How far it has come.
Progress ==
    CASE phase = "run"  -> Dts + cur - 1
      [] phase = "exit" -> Dts + Len(init_array) + Len(fini_array) - cur
      [] phase = "done" -> Dts + Len(init_array) + Len(fini_array) + Ends
      [] OTHER          -> 0

Running ==
    /\ ran \in Seq(Start!Functions) /\ Len(ran) = Progress
    /\ \A p \in 1..Len(ran) : ran[p] = Plan(p)

Stages ==
    /\ phase \in {"init", "fini", "dynamic", "load", "run", "exit", "done", "aborted"}
    /\ phase \in {"init", "fini"} => cur \in Start!Bins
    /\ phase \in {"dynamic", "load", "aborted"} => cur = 1
    /\ phase = "run" => cur \in 1..(Len(init_array) + 1)
    /\ phase \in {"exit", "done"} => cur \in 0..Len(fini_array)
    /\ phase \in Loading => dynamic = Start!Kept
    /\ phase \notin Loading => dynamic = {}
    /\ phase \in Loading \cup {"dynamic"} => \A b \in excluded : bin[b].fini = 0

LoadInv == LoadInput /\ InitArrayOK /\ FiniArrayOK /\ Stages /\ Running

-----------------------------------------------------------------------------
\* What the constants say of one binary.
LEMMA BinTyped ==
    ASSUME LoadInput, NEW b \in Start!Bins
    PROVE  bin[b].init \in Nat /\ bin[b].fini \in Nat /\ bin[b].dt \subseteq Start!Entries
  BY OutputUseAssumption DEF LoadInput, Start!BinariesAssumption

\* The binaries are numbered in link order, the main one first.
LEMMA BinsTyped == Start!Bins = 1..NBins /\ NBins \in Nat \ {0} /\ 1 \in Start!Bins /\ Start!Main = 1
  BY OutputUseAssumption DEF Start!BinariesAssumption, Start!Bins, Start!Main

\* The slots of an array of n functions.
LEMMA SlotsTyped ==
    ASSUME NEW b \in Start!Bins, NEW kind \in {"init", "fini"}, NEW n \in Nat
    PROVE  /\ Start!Slots(b, kind, n) \in Seq(Start!Functions)
           /\ Len(Start!Slots(b, kind, n)) = n
           /\ \A k \in 1..n : Start!Slots(b, kind, n)[k] = Start!Function(b, kind, k)
  <1>1. b \in 0..NBins
    BY BinsTyped
  <1>2. \A k \in 1..n : Start!Function(b, kind, k) \in Start!Functions
    BY <1>1 DEF Start!Functions, Start!Function
  <1> QED BY <1>2 DEF Start!Slots

\* What a sequence appended to another gives.
LEMMA Appended ==
    ASSUME NEW S, NEW s \in Seq(S), NEW t \in Seq(S)
    PROVE  /\ s \o t \in Seq(S) /\ Len(s \o t) = Len(s) + Len(t)
           /\ \A p \in 1..Len(s) : (s \o t)[p] = s[p]
           /\ \A p \in (Len(s) + 1)..(Len(s) + Len(t)) : (s \o t)[p] = t[p - Len(s)]
  OBVIOUS

\* Nothing has been collected and nothing has run.
LEMMA LoadInit == Start!Init => LoadInv
  <1> SUFFICES ASSUME Start!Init PROVE LoadInv
    OBVIOUS
  <1> USE BinsTyped
  <1>1. LoadInput
    <2>1. ExcludeChoices \subseteq SUBSET Start!Bins
      BY OutputUseAssumption DEF Start!BinariesAssumption
    <2> QED BY <2>1 DEF LoadInput, Start!Init
  <1>2. InitArrayOK
    <2>1. Start!Function(0, "mprotect", 0) \in Start!Functions
      BY DEF Start!Functions, Start!Function
    <2>2. init_array = <<Start!Function(0, "mprotect", 0)>> /\ phase = "init" /\ cur = NBins
      BY DEF Start!Init
    <2>3. \A b \in Start!Bins : ~InitsOf(b)
      BY <2>2 DEF InitsOf
    <2> QED BY <2>1, <2>2, <2>3 DEF InitArrayOK
  <1>3. FiniArrayOK
    BY DEF FiniArrayOK, Start!Init, FinisOf
  <1>4. Stages
    BY DEF Stages, Start!Init, Loading
  <1>5. Running
    BY DEF Running, Start!Init, Progress
  <1> QED BY <1>1, <1>2, <1>3, <1>4, <1>5 DEF LoadInv

\* The loop over the initialisers, backwards over the binaries.
LEMMA StepCollectInit == LoadInv /\ Start!CollectInit => LoadInv'
  <1> SUFFICES ASSUME LoadInv, Start!CollectInit PROVE LoadInv'
    OBVIOUS
  <1> USE BinsTyped
  <1> DEFINE n == bin[cur].init
             new == Start!Slots(cur, "init", n)
             old == Len(init_array)
  <1>1. /\ phase = "init" /\ cur \in Start!Bins
        /\ UNCHANGED <<bin, needs, excluded, fini_array, dynamic, ran>>
        /\ init_array' = init_array \o new
        /\ cur > 1 => cur' = cur - 1 /\ phase' = "init"
        /\ cur = 1 => cur' = 1 /\ phase' = "fini"
    BY DEF LoadInv, Stages, Start!CollectInit, Start!WithInits, Start!input
  <1>2. n \in Nat /\ old \in Nat \ {0} /\ init_array \in Seq(Start!Functions)
    BY <1>1, BinTyped DEF LoadInv, InitArrayOK
  <1>3. /\ new \in Seq(Start!Functions) /\ Len(new) = n
        /\ \A k \in 1..n : new[k] = Start!Function(cur, "init", k)
    <2> HIDE DEF n
    <2>1. cur \in Start!Bins /\ n \in Nat
      BY <1>1, <1>2
    <2> QED BY <2>1, SlotsTyped
  <1> HIDE DEF n, new
  <1>10. init_array' = init_array \o new
    BY <1>1
  <1>4. /\ init_array' \in Seq(Start!Functions) /\ Len(init_array') = old + n
        /\ \A p \in 1..old : init_array'[p] = init_array[p]
        /\ \A p \in (old + 1)..(old + n) : init_array'[p] = Start!Function(cur, "init", p - old)
    <2>1. \A p \in (old + 1)..(old + n) : p - old \in 1..n
      BY <1>2
    <2>2. /\ init_array' \in Seq(Start!Functions) /\ Len(init_array') = old + n
          /\ \A p \in 1..old : init_array'[p] = init_array[p]
          /\ \A p \in (old + 1)..(old + n) : init_array'[p] = new[p - old]
      BY <1>2, <1>3, <1>10, Appended
    <2> QED BY <1>3, <2>1, <2>2
  <1>11. /\ \A p, q \in 2..old : p < q =>
              \/ init_array[p].bin > init_array[q].bin
              \/ init_array[p].bin = init_array[q].bin /\ init_array[p].k < init_array[q].k
         /\ \A p \in 2..old : /\ init_array[p].kind = "init" /\ InitsOf(init_array[p].bin)
                              /\ init_array[p].k \in 1..bin[init_array[p].bin].init
         /\ \A b \in Start!Bins : InitsOf(b) => \A k \in 1..bin[b].init :
              \E p \in 2..old : init_array[p] = Start!Function(b, "init", k)
    BY DEF LoadInv, InitArrayOK
  <1> HIDE DEF old
  <1>5. \A b \in Start!Bins : InitsOf(b)' <=> InitsOf(b) \/ b = cur
    BY <1>1 DEF InitsOf
  <1>6. InitArrayOK'
    <2>1. init_array'[1] = Start!Function(0, "mprotect", 0)
      BY <1>2, <1>4 DEF LoadInv, InitArrayOK, old
    <2>2. ASSUME NEW p \in 2..(old + n)
          PROVE  /\ init_array'[p].kind = "init" /\ InitsOf(init_array[p].bin)'
                 /\ init_array'[p].k \in 1..bin[init_array'[p].bin].init
      <3>1. CASE p <= old
        <4>1. /\ init_array[p].kind = "init" /\ InitsOf(init_array[p].bin)
              /\ init_array[p].k \in 1..bin[init_array[p].bin].init
          BY <1>2, <3>1 DEF LoadInv, InitArrayOK, old
        <4>2. init_array'[p] = init_array[p]
          BY <1>2, <1>4, <3>1
        <4> QED BY <1>5, <4>1, <4>2 DEF InitsOf
      <3>2. CASE p > old
        <4>1. init_array'[p] = Start!Function(cur, "init", p - old) /\ p - old \in 1..n
          BY <1>2, <1>4, <3>2
        <4> QED BY <1>1, <1>5, <4>1 DEF Start!Function, n
      <3> QED BY <1>2, <3>1, <3>2
    <2>3. ASSUME NEW p \in 2..(old + n), NEW q \in 2..(old + n), p < q
          PROVE  \/ init_array'[p].bin > init_array'[q].bin
                 \/ init_array'[p].bin = init_array'[q].bin /\ init_array'[p].k < init_array'[q].k
      <3>1. CASE q <= old
        <4>1. p \in 2..old /\ q \in 2..old
          BY <1>2, <2>3, <3>1
        <4>2. init_array'[p] = init_array[p] /\ init_array'[q] = init_array[q]
          BY <1>2, <1>4, <4>1
        <4> QED BY <1>11, <2>3, <4>1, <4>2
      <3>2. CASE p <= old /\ q > old
        <4>0. p \in 2..old /\ q \in (old + 1)..(old + n)
          BY <1>2, <3>2
        <4>1. InitsOf(init_array[p].bin)
          BY <1>11, <4>0
        <4>3. init_array'[q] = Start!Function(cur, "init", q - old)
          BY <1>4, <4>0
        <4>4. init_array'[q].bin = cur
          BY <4>3 DEF Start!Function
        <4>5. p \in 1..old
          BY <1>2, <4>0
        <4>2. init_array'[q].bin = cur /\ init_array'[p] = init_array[p]
          BY <1>4, <4>4, <4>5
        <4> QED BY <1>1, <4>1, <4>2 DEF InitsOf
      <3>3. CASE p > old
        <4>1. init_array'[p] = Start!Function(cur, "init", p - old) /\ init_array'[q] = Start!Function(cur, "init", q - old)
          BY <1>2, <1>4, <2>3, <3>3
        <4> QED BY <1>2, <2>3, <4>1 DEF Start!Function
      <3> QED BY <1>2, <3>1, <3>2, <3>3
    <2>4. ASSUME NEW b \in Start!Bins, InitsOf(b)', NEW k \in 1..bin[b].init
          PROVE  \E p \in 2..(old + n) : init_array'[p] = Start!Function(b, "init", k)
      <3>1. CASE InitsOf(b)
        <4>1. PICK p \in 2..old : init_array[p] = Start!Function(b, "init", k)
          BY <1>11, <3>1
        <4>2. p \in 1..old /\ p \in 2..(old + n)
          BY <1>2
        <4> QED BY <1>4, <4>1, <4>2
      <3>2. CASE b = cur
        <4>1. k \in 1..n
          BY <3>2 DEF n
        <4>2. old + k \in 2..(old + n) /\ old + k \in (old + 1)..(old + n) /\ (old + k) - old = k
          BY <1>2, <4>1
        <4> QED BY <1>4, <3>2, <4>2
      <3> QED BY <1>5, <2>4, <3>1, <3>2
    <2>5. Len(init_array') >= 1 /\ bin' = bin
      BY <1>1, <1>2, <1>4
    <2> QED BY <1>4, <2>1, <2>2, <2>3, <2>4, <2>5 DEF InitArrayOK
  <1>7. LoadInput' /\ FiniArrayOK'
    <2>1. fini_array = <<>> /\ \A b \in Start!Bins : FinisOf(b)' => FALSE
      <3>1. Len(fini_array) = 0
        <4> SUFFICES ASSUME Len(fini_array) # 0 PROVE FALSE
          OBVIOUS
        <4>1. Len(fini_array) \in Nat /\ 1 \in 1..Len(fini_array)
          BY DEF LoadInv, FiniArrayOK
        <4> QED BY <1>1, <4>1 DEF LoadInv, FiniArrayOK, FinisOf
      <3>2. cur' = 1 \/ phase' = "init"
        BY <1>1
      <3>3. fini_array = <<>>
        <4>1. fini_array \in Seq(Start!Functions)
          BY DEF LoadInv, FiniArrayOK
        <4> QED BY <3>1, <4>1
      <3>4. \A b \in Start!Bins : ~(phase' # "init" /\ (phase' = "fini" => b < cur'))
        BY <1>1, <3>2
      <3> QED BY <3>3, <3>4 DEF FinisOf
    <2> QED BY <1>1, <2>1 DEF LoadInv, LoadInput, FiniArrayOK
  <1>8. Stages'
    BY <1>1 DEF LoadInv, Stages, Loading
  <1>9. Running'
    BY <1>1 DEF LoadInv, Running, Progress
  <1> QED BY <1>6, <1>7, <1>8, <1>9 DEF LoadInv

\* The loop over the finalisers takes the next binary.
LEMMA StepCollectFini == LoadInv /\ Start!CollectFini => LoadInv'
  <1> SUFFICES ASSUME LoadInv, Start!CollectFini PROVE LoadInv'
    OBVIOUS
  <1> USE BinsTyped
  <1> DEFINE n == IF Start!Collected(cur) THEN bin[cur].fini ELSE 0
             new == Start!Slots(cur, "fini", n)
             old == Len(fini_array)
  <1>1. /\ phase = "fini" /\ cur \in Start!Bins
        /\ UNCHANGED <<bin, needs, excluded, init_array, dynamic, ran>>
        /\ cur < NBins => cur' = cur + 1 /\ phase' = "fini"
        /\ cur = NBins => /\ cur' = 1
                          /\ phase' = IF \E b \in excluded : bin[b].fini > 0 THEN "aborted" ELSE "dynamic"
    BY DEF LoadInv, Stages, Start!CollectFini, Start!input
  <1>2. n \in Nat /\ old \in Nat /\ fini_array \in Seq(Start!Functions)
    BY <1>1, BinTyped DEF LoadInv, FiniArrayOK
  <1>3. /\ new \in Seq(Start!Functions) /\ Len(new) = n
        /\ \A k \in 1..n : new[k] = Start!Function(cur, "fini", k)
    BY <1>1, <1>2, SlotsTyped
  <1>10. fini_array' = fini_array \o new
    <2>1. CASE Start!Collected(cur)
      BY <2>1 DEF Start!CollectFini
    <2>2. CASE ~Start!Collected(cur)
      BY <1>2, <2>2 DEF Start!CollectFini, Start!Slots
    <2> QED BY <2>1, <2>2
  <1>11. n > 0 => cur \notin excluded /\ n = bin[cur].fini
    BY DEF Start!Collected
  <1>12. cur \notin excluded => n = bin[cur].fini
    BY DEF Start!Collected
  <1> HIDE DEF n, new
  <1>4. /\ fini_array' \in Seq(Start!Functions) /\ Len(fini_array') = old + n
        /\ \A p \in 1..old : fini_array'[p] = fini_array[p]
        /\ \A p \in (old + 1)..(old + n) : fini_array'[p] = Start!Function(cur, "fini", p - old)
    BY <1>10, <1>2, <1>3
  <1> HIDE DEF old
  <1>13. /\ \A p, q \in 1..old : p < q => Earlier(fini_array[p], fini_array[q])
         /\ \A p \in 1..old : /\ fini_array[p].kind = "fini" /\ FinisOf(fini_array[p].bin)
                              /\ fini_array[p].k \in 1..bin[fini_array[p].bin].fini
         /\ \A b \in Start!Bins : FinisOf(b) => \A k \in 1..bin[b].fini :
              \E p \in 1..old : fini_array[p] = Start!Function(b, "fini", k)
    BY DEF LoadInv, FiniArrayOK, old
  <1>5. \A b \in Start!Bins : FinisOf(b)' <=> FinisOf(b) \/ (b = cur /\ cur \notin excluded)
    BY <1>1 DEF FinisOf
  <1>6. FiniArrayOK'
    <2>2. ASSUME NEW p \in 1..(old + n)
          PROVE  /\ fini_array'[p].kind = "fini" /\ FinisOf(fini_array[p].bin)'
                 /\ fini_array'[p].k \in 1..bin[fini_array'[p].bin].fini
      <3>1. CASE p <= old
        <4>1. /\ fini_array[p].kind = "fini" /\ FinisOf(fini_array[p].bin)
              /\ fini_array[p].k \in 1..bin[fini_array[p].bin].fini
          BY <1>2, <3>1 DEF LoadInv, FiniArrayOK, old
        <4>2. fini_array'[p] = fini_array[p]
          BY <1>2, <1>4, <3>1
        <4> QED BY <1>5, <4>1, <4>2 DEF FinisOf
      <3>2. CASE p > old
        <4>1. fini_array'[p] = Start!Function(cur, "fini", p - old) /\ p - old \in 1..n
          BY <1>2, <1>4, <3>2
        <4>2. cur \notin excluded /\ n = bin[cur].fini
          BY <1>2, <1>11, <4>1
        <4> QED BY <1>1, <1>5, <4>1, <4>2 DEF Start!Function
      <3> QED BY <1>2, <3>1, <3>2
    <2>3. ASSUME NEW p \in 1..(old + n), NEW q \in 1..(old + n), p < q
          PROVE  Earlier(fini_array'[p], fini_array'[q])
      <3>1. CASE q <= old
        <4>1. p \in 1..old /\ q \in 1..old
          BY <1>2, <2>3, <3>1
        <4>2. fini_array'[p] = fini_array[p] /\ fini_array'[q] = fini_array[q]
          BY <1>4, <4>1
        <4> QED BY <1>13, <2>3, <4>1, <4>2
      <3>2. CASE p <= old /\ q > old
        <4>0. p \in 1..old /\ q \in (old + 1)..(old + n)
          BY <1>2, <3>2
        <4>1. FinisOf(fini_array[p].bin)
          BY <1>13, <4>0
        <4>3. fini_array'[q] = Start!Function(cur, "fini", q - old)
          BY <1>4, <4>0
        <4>4. fini_array'[q].bin = cur
          BY <4>3 DEF Start!Function
        <4>5. p \in 1..old
          BY <1>2, <4>0
        <4>2. fini_array'[q].bin = cur /\ fini_array'[p] = fini_array[p]
          BY <1>4, <4>4, <4>5
        <4> QED BY <1>1, <4>1, <4>2 DEF FinisOf, Earlier
      <3>3. CASE p > old
        <4>0. p \in (old + 1)..(old + n) /\ q \in (old + 1)..(old + n)
          BY <1>2, <2>3, <3>3
        <4>1. fini_array'[p] = Start!Function(cur, "fini", p - old) /\ fini_array'[q] = Start!Function(cur, "fini", q - old)
          BY <1>4, <4>0
        <4>2. /\ fini_array'[p].bin = cur /\ fini_array'[p].k = p - old
              /\ fini_array'[q].bin = cur /\ fini_array'[q].k = q - old
          BY <4>1 DEF Start!Function
        <4> QED BY <1>2, <2>3, <4>2 DEF Earlier
      <3> QED BY <1>2, <3>1, <3>2, <3>3
    <2>4. ASSUME NEW b \in Start!Bins, FinisOf(b)', NEW k \in 1..bin[b].fini
          PROVE  \E p \in 1..(old + n) : fini_array'[p] = Start!Function(b, "fini", k)
      <3>1. CASE FinisOf(b)
        <4>1. PICK p \in 1..old : fini_array[p] = Start!Function(b, "fini", k)
          BY <1>13, <3>1
        <4>2. p \in 1..old /\ p \in 1..(old + n)
          BY <1>2
        <4> QED BY <1>4, <4>1, <4>2
      <3>2. CASE b = cur /\ cur \notin excluded
        <4>1. k \in 1..n
          BY <1>12, <3>2
        <4>2. old + k \in 1..(old + n) /\ old + k \in (old + 1)..(old + n) /\ (old + k) - old = k
          BY <1>2, <4>1
        <4> QED BY <1>4, <3>2, <4>2
      <3> QED BY <1>5, <2>4, <3>1, <3>2
    <2> QED BY <1>1, <1>2, <1>4, <2>2, <2>3, <2>4 DEF FiniArrayOK
  <1>7. LoadInput' /\ InitArrayOK'
    <2>1. \A b : InitsOf(b)' <=> InitsOf(b)
      BY <1>1 DEF InitsOf
    <2> QED BY <1>1, <2>1 DEF LoadInv, LoadInput, InitArrayOK
  <1>8. Stages'
    <2>1. \A b \in excluded : bin[b].fini \in Nat
      BY BinTyped DEF LoadInv, LoadInput
    <2>2. phase' = "dynamic" => \A b \in excluded : bin[b].fini = 0
      BY <1>1, <2>1
    <2>3. phase' \in {"fini", "aborted", "dynamic"} /\ cur' \in Start!Bins /\ (phase' # "fini" => cur' = 1)
      BY <1>1
    <2> QED BY <1>1, <2>2, <2>3 DEF LoadInv, Stages, Loading
  <1>9. Running'
    BY <1>1 DEF LoadInv, Running, Progress
  <1> QED BY <1>6, <1>7, <1>8, <1>9 DEF LoadInv

\* What the loader's steps leave alone.
LEMMA ArraysKept ==
    ASSUME LoadInv, phase \notin {"init", "fini"}, phase' \notin {"init", "fini"},
           UNCHANGED <<bin, needs, excluded, init_array, fini_array>>
    PROVE  LoadInput' /\ InitArrayOK' /\ FiniArrayOK'
  <1>1. \A b : (InitsOf(b)' <=> InitsOf(b)) /\ (FinisOf(b)' <=> FinisOf(b))
    BY DEF InitsOf, FinisOf
  <1> QED BY <1>1 DEF LoadInv, LoadInput, InitArrayOK, FiniArrayOK

\* Running the function that the plan has next.
LEMMA RanOne ==
    ASSUME LoadInv, NEW f \in Start!Functions, ran' = Append(ran, f), f = Plan(Progress + 1),
           UNCHANGED <<bin, init_array, fini_array>>, Progress' = Progress + 1
    PROVE  Running'
  <1>1. ran \in Seq(Start!Functions) /\ Len(ran) = Progress /\ \A p \in 1..Len(ran) : ran[p] = Plan(p)
    BY DEF LoadInv, Running
  <1>2. \A p : Plan(p)' = Plan(p)
    BY DEF Plan, Dts
  <1>3. /\ ran' \in Seq(Start!Functions) /\ Len(ran') = Progress + 1
        /\ \A p \in 1..Len(ran) : ran'[p] = ran[p]
        /\ ran'[Progress + 1] = f
    BY <1>1
  <1>4. \A p \in 1..(Progress + 1) : ran'[p] = Plan(p)
    <2> TAKE p \in 1..(Progress + 1)
    <2>1. CASE p = Progress + 1
      BY <1>3, <2>1
    <2>2. CASE p \in 1..Len(ran)
      BY <1>1, <1>3, <2>2
    <2>3. Len(ran) \in Nat
      BY <1>1
    <2> QED BY <1>1, <2>1, <2>2, <2>3
  <1> QED BY <1>2, <1>3, <1>4 DEF Running

\* The lengths the plan is made of.
LEMMA LengthsTyped ==
    LoadInv => /\ Len(init_array) \in Nat /\ Len(init_array) >= 1 /\ Len(fini_array) \in Nat
               /\ Dts \in {0, 1} /\ ("dt_init" \in bin[1].dt <=> Dts = 1)
               /\ Ends \in {0, 1} /\ ("dt_fini" \in bin[1].dt <=> Ends = 1)
  BY BinsTyped, BinTyped DEF LoadInv, InitArrayOK, FiniArrayOK, Dts, Ends

\* What DT_INIT and DT_FINI hold.
LEMMA EntryIs ==
    ASSUME dynamic = Start!Kept, NEW kind
    PROVE  Start!RunEntry(kind) =
              IF kind \in bin[1].dt THEN Append(ran, Start!Function(1, kind, 0)) ELSE ran
  <1>0. dynamic = {Start!Function(1, d, 0) : d \in bin[1].dt}
    BY BinsTyped DEF Start!Kept
  <1>1. CASE kind \in bin[1].dt
    <2>2. \A f \in dynamic : f.kind = kind <=> f = Start!Function(1, kind, 0)
      BY <1>0 DEF Start!Function
    <2>3. Start!Function(1, kind, 0) \in dynamic
      BY <1>0, <1>1
    <2>4. (CHOOSE f \in dynamic : f.kind = kind) = Start!Function(1, kind, 0)
      BY <2>2, <2>3
    <2> QED BY <1>1, <2>2, <2>3, <2>4 DEF Start!RunEntry
  <1>2. CASE kind \notin bin[1].dt
    <2>1. \A f \in dynamic : f.kind # kind
      BY <1>0, <1>2 DEF Start!Function
    <2> QED BY <1>2, <2>1 DEF Start!RunEntry
  <1> QED BY <1>1, <1>2

\* The two entries of the main binary are kept.
LEMMA StepBuildDynamic == LoadInv /\ Start!BuildDynamic => LoadInv'
  <1> SUFFICES ASSUME LoadInv, Start!BuildDynamic PROVE LoadInv'
    OBVIOUS
  <1>1. /\ phase = "dynamic" /\ phase' = "load" /\ dynamic' = Start!Kept /\ cur' = cur
        /\ UNCHANGED <<bin, needs, excluded, init_array, fini_array, ran>>
    BY DEF Start!BuildDynamic, Start!input
  <1>2. LoadInput' /\ InitArrayOK' /\ FiniArrayOK'
    BY <1>1, ArraysKept
  <1>3. Stages'
    BY <1>1 DEF LoadInv, Stages, Loading, Start!Kept
  <1>4. Running'
    BY <1>1 DEF LoadInv, Running, Progress
  <1> QED BY <1>2, <1>3, <1>4 DEF LoadInv

\* DT_INIT runs before the array.
LEMMA StepRunDtInit == LoadInv /\ Start!RunDtInit => LoadInv'
  <1> SUFFICES ASSUME LoadInv, Start!RunDtInit PROVE LoadInv'
    OBVIOUS
  <1>1. /\ phase = "load" /\ phase' = "run" /\ cur' = 1 /\ ran' = Start!RunEntry("dt_init")
        /\ UNCHANGED <<bin, needs, excluded, init_array, fini_array, dynamic>>
    BY DEF Start!RunDtInit, Start!input
  <1>2. LoadInput' /\ InitArrayOK' /\ FiniArrayOK'
    BY <1>1, ArraysKept
  <1>3. Stages'
    BY <1>1, LengthsTyped DEF LoadInv, Stages, Loading, Start!Kept
  <1>4. Running'
    <2>1. dynamic = Start!Kept
      BY <1>1 DEF LoadInv, Stages, Loading
    <2>2. Progress = 0 /\ Progress' = Dts
      <3>1. Dts' = Dts
        BY <1>1 DEF Dts
      <3> QED BY <1>1, <3>1, LengthsTyped DEF Progress
    <2>3. CASE "dt_init" \in bin[1].dt
      <3>1. Start!Function(1, "dt_init", 0) \in Start!Functions
        BY BinsTyped DEF Start!Functions, Start!Function
      <3>2. Dts = 1
        BY <2>3, LengthsTyped
      <3>3. Plan(1) = Start!Function(1, "dt_init", 0)
        BY <3>2 DEF Plan
      <3>4. ran' = Append(ran, Start!Function(1, "dt_init", 0))
        BY <1>1, <2>1, <2>3, EntryIs
      <3> QED BY <1>1, <2>2, <3>1, <3>2, <3>3, <3>4, RanOne
    <2>4. CASE "dt_init" \notin bin[1].dt
      <3>1. ran' = ran
        BY <1>1, <2>1, <2>4, EntryIs
      <3>2. Dts = 0
        BY <2>4, LengthsTyped
      <3>3. Len(ran) = 0 /\ ran \in Seq(Start!Functions)
        BY <2>2 DEF LoadInv, Running
      <3> QED BY <2>2, <3>1, <3>2, <3>3 DEF Running
    <2> QED BY <2>3, <2>4
  <1> QED BY <1>2, <1>3, <1>4 DEF LoadInv

\* The loader goes forwards over the initialisers,
LEMMA StepRunInitArray == LoadInv /\ Start!RunInitArray => LoadInv'
  <1> SUFFICES ASSUME LoadInv, Start!RunInitArray PROVE LoadInv'
    OBVIOUS
  <1>1. /\ phase = "run" /\ phase' = "run" /\ cur <= Len(init_array) /\ cur' = cur + 1
        /\ ran' = Append(ran, init_array[cur])
        /\ UNCHANGED <<bin, needs, excluded, init_array, fini_array, dynamic>>
    BY DEF Start!RunInitArray, Start!input
  <1>2. LoadInput' /\ InitArrayOK' /\ FiniArrayOK'
    BY <1>1, ArraysKept
  <1>3. cur \in 1..Len(init_array)
    BY <1>1, LengthsTyped DEF LoadInv, Stages
  <1>4. Stages'
    BY <1>1, <1>3, LengthsTyped DEF LoadInv, Stages, Loading, Start!Kept
  <1>5. Running'
    <2>1. init_array[cur] \in Start!Functions
      BY <1>3 DEF LoadInv, InitArrayOK
    <2>2. Dts' = Dts /\ Dts \in Nat
      BY <1>1, LengthsTyped DEF Dts
    <2>3. Progress = Dts + cur - 1 /\ Progress' = Progress + 1
      BY <1>1, <1>3, <2>2, LengthsTyped DEF Progress
    <2>4. Plan(Progress + 1) = init_array[cur]
      <3>1. Progress + 1 = Dts + cur /\ (Progress + 1) - Dts = cur
        BY <1>3, <2>2, <2>3, LengthsTyped
      <3> QED BY <1>3, <2>2, <3>1, LengthsTyped DEF Plan
    <2> QED BY <1>1, <2>1, <2>3, <2>4, RanOne
  <1> QED BY <1>2, <1>4, <1>5 DEF LoadInv

\* and at exit,
LEMMA StepExit == LoadInv /\ Start!Exit => LoadInv'
  <1> SUFFICES ASSUME LoadInv, Start!Exit PROVE LoadInv'
    OBVIOUS
  <1>1. /\ phase = "run" /\ phase' = "exit" /\ cur > Len(init_array) /\ cur' = Len(fini_array)
        /\ UNCHANGED <<bin, needs, excluded, init_array, fini_array, dynamic, ran>>
    BY DEF Start!Exit, Start!input
  <1>2. LoadInput' /\ InitArrayOK' /\ FiniArrayOK'
    BY <1>1, ArraysKept
  <1>3. Stages'
    BY <1>1, LengthsTyped DEF LoadInv, Stages, Loading, Start!Kept
  <1>4. Running'
    <2>1. Dts' = Dts /\ Dts \in Nat /\ \A p : Plan(p)' = Plan(p)
      BY <1>1, LengthsTyped DEF Dts, Plan
    <2>2. cur = Len(init_array) + 1
      BY <1>1, LengthsTyped DEF LoadInv, Stages
    <2>3. Progress' = Progress
      BY <1>1, <2>1, <2>2, LengthsTyped DEF Progress
    <2> QED BY <1>1, <2>1, <2>3 DEF LoadInv, Running
  <1> QED BY <1>2, <1>3, <1>4 DEF LoadInv

\* backwards over the finalisers;
LEMMA StepRunFiniArray == LoadInv /\ Start!RunFiniArray => LoadInv'
  <1> SUFFICES ASSUME LoadInv, Start!RunFiniArray PROVE LoadInv'
    OBVIOUS
  <1>1. /\ phase = "exit" /\ phase' = "exit" /\ cur > 0 /\ cur' = cur - 1
        /\ ran' = Append(ran, fini_array[cur])
        /\ UNCHANGED <<bin, needs, excluded, init_array, fini_array, dynamic>>
    BY DEF Start!RunFiniArray, Start!input
  <1>2. LoadInput' /\ InitArrayOK' /\ FiniArrayOK'
    BY <1>1, ArraysKept
  <1>3. cur \in 1..Len(fini_array)
    BY <1>1, LengthsTyped DEF LoadInv, Stages
  <1>4. Stages'
    BY <1>1, <1>3, LengthsTyped DEF LoadInv, Stages, Loading, Start!Kept
  <1>5. Running'
    <2>1. fini_array[cur] \in Start!Functions
      BY <1>3 DEF LoadInv, FiniArrayOK
    <2>2. Dts' = Dts /\ Dts \in Nat
      BY <1>1, LengthsTyped DEF Dts
    <2>3. Progress = Dts + Len(init_array) + Len(fini_array) - cur /\ Progress' = Progress + 1
      BY <1>1, <1>3, <2>2, LengthsTyped DEF Progress
    <2>4. Plan(Progress + 1) = fini_array[cur]
      <3>1. /\ Dts + Len(init_array) + Len(fini_array) + 1 - (Progress + 1) = cur
            /\ Progress + 1 > Dts + Len(init_array) /\ Progress + 1 > Dts
            /\ Progress + 1 <= Dts + Len(init_array) + Len(fini_array)
        BY <1>3, <2>2, <2>3, LengthsTyped
      <3> QED BY <2>2, <2>3, <3>1, LengthsTyped DEF Plan
    <2> QED BY <1>1, <2>1, <2>3, <2>4, RanOne
  <1> QED BY <1>2, <1>4, <1>5 DEF LoadInv

\* DT_FINI runs last.
LEMMA StepRunDtFini == LoadInv /\ Start!RunDtFini => LoadInv'
  <1> SUFFICES ASSUME LoadInv, Start!RunDtFini PROVE LoadInv'
    OBVIOUS
  <1>1. /\ phase = "exit" /\ phase' = "done" /\ cur = 0 /\ cur' = 0 /\ ran' = Start!RunEntry("dt_fini")
        /\ UNCHANGED <<bin, needs, excluded, init_array, fini_array, dynamic>>
    BY DEF Start!RunDtFini, Start!input
  <1>2. LoadInput' /\ InitArrayOK' /\ FiniArrayOK'
    BY <1>1, ArraysKept
  <1>3. Stages'
    BY <1>1, LengthsTyped DEF LoadInv, Stages, Loading, Start!Kept
  <1>4. Running'
    <2>1. dynamic = Start!Kept
      BY <1>1 DEF LoadInv, Stages, Loading
    <2>2. Dts' = Dts /\ Dts \in Nat /\ Ends' = Ends /\ Ends \in Nat /\ \A p : Plan(p)' = Plan(p)
      BY <1>1, LengthsTyped DEF Dts, Ends, Plan
    <2>3. Progress = Dts + Len(init_array) + Len(fini_array) /\ Progress' = Progress + Ends
      BY <1>1, <2>2, LengthsTyped DEF Progress
    <2>4. CASE "dt_fini" \in bin[1].dt
      <3>1. Start!Function(1, "dt_fini", 0) \in Start!Functions
        BY BinsTyped DEF Start!Functions, Start!Function
      <3>2. Ends = 1
        BY <2>4, LengthsTyped
      <3>3. Plan(Progress + 1) = Start!Function(1, "dt_fini", 0)
        BY <2>3, <3>2, LengthsTyped DEF Plan
      <3>4. ran' = Append(ran, Start!Function(1, "dt_fini", 0))
        BY <1>1, <2>1, <2>4, EntryIs
      <3> QED BY <1>1, <2>3, <3>1, <3>2, <3>3, <3>4, RanOne
    <2>5. CASE "dt_fini" \notin bin[1].dt
      <3>1. ran' = ran /\ Ends = 0
        BY <1>1, <2>1, <2>5, EntryIs, LengthsTyped
      <3>2. Progress' = Progress
        BY <2>3, <3>1, LengthsTyped
      <3> QED BY <2>2, <3>1, <3>2 DEF LoadInv, Running
    <2> QED BY <2>4, <2>5
  <1> QED BY <1>2, <1>3, <1>4 DEF LoadInv

\* Every action keeps the invariant.
LEMMA LoadStep == LoadInv /\ Start!Next => LoadInv'
  BY StepCollectInit, StepCollectFini, StepBuildDynamic, StepRunDtInit, StepRunInitArray,
     StepExit, StepRunFiniArray, StepRunDtFini DEF Start!Next

\* So does a step of another part.
LEMMA LoadStutter == LoadInv /\ UNCHANGED start_vars => LoadInv'
  <1> SUFFICES ASSUME LoadInv, UNCHANGED start_vars PROVE LoadInv'
    OBVIOUS
  <1>1. UNCHANGED <<bin, needs, excluded, phase, cur, init_array, fini_array, dynamic, ran>>
    BY DEF start_vars
  <1>2. \A p : Plan(p)' = Plan(p) /\ Dts' = Dts /\ Progress' = Progress
    BY <1>1 DEF Plan, Dts, Ends, Progress
  <1>3. \A b : (InitsOf(b)' <=> InitsOf(b)) /\ (FinisOf(b)' <=> FinisOf(b))
    BY <1>1 DEF InitsOf, FinisOf
  <1>4. Running'
    BY <1>1, <1>2 DEF LoadInv, Running
  <1>5. InitArrayOK' /\ FiniArrayOK' /\ LoadInput'
    BY <1>1, <1>3 DEF LoadInv, InitArrayOK, FiniArrayOK, LoadInput
  <1>6. Stages'
    BY <1>1 DEF LoadInv, Stages, Start!Kept
  <1> QED BY <1>4, <1>5, <1>6 DEF LoadInv

-----------------------------------------------------------------------------
\* How far the loader comes.
LEMMA ProgressTyped ==
    LoadInv => Progress \in 0..(Dts + Len(init_array) + Len(fini_array) + Ends)
  <1> SUFFICES ASSUME LoadInv PROVE Progress \in 0..(Dts + Len(init_array) + Len(fini_array) + Ends)
    OBVIOUS
  <1> QED BY LengthsTyped DEF LoadInv, Stages, Progress

\* The kind of a function tells its place in the plan.
LEMMA PlanKinds ==
    ASSUME LoadInv, NEW p \in 1..(Dts + Len(init_array) + Len(fini_array) + Ends)
    PROVE  \/ p = 1 /\ Dts = 1 /\ Plan(p) = Start!Function(1, "dt_init", 0)
           \/ p = Dts + 1 /\ Plan(p) = Start!Function(0, "mprotect", 0)
           \/ p - Dts \in 2..Len(init_array) /\ Plan(p) = init_array[p - Dts]
           \/ /\ Dts + Len(init_array) + Len(fini_array) + 1 - p \in 1..Len(fini_array)
              /\ Plan(p) = fini_array[Dts + Len(init_array) + Len(fini_array) + 1 - p]
              /\ p > Dts + Len(init_array)
           \/ /\ p = Dts + Len(init_array) + Len(fini_array) + 1 /\ Ends = 1
              /\ Plan(p) = Start!Function(1, "dt_fini", 0)
  <1> USE LengthsTyped
  <1>1. CASE p <= Dts
    BY <1>1 DEF Plan
  <1>2. CASE p = Dts + 1
    <2>1. Plan(p) = init_array[1]
      BY <1>2 DEF Plan
    <2> QED BY <1>2, <2>1 DEF LoadInv, InitArrayOK
  <1>3. CASE p > Dts + 1 /\ p <= Dts + Len(init_array)
    BY <1>3 DEF Plan
  <1>4. CASE p > Dts + Len(init_array) /\ p <= Dts + Len(init_array) + Len(fini_array)
    BY <1>4 DEF Plan
  <1>5. CASE p > Dts + Len(init_array) + Len(fini_array)
    <2>1. p = Dts + Len(init_array) + Len(fini_array) + 1 /\ Ends = 1
      BY <1>5
    <2>2. ~(p <= Dts) /\ ~(p <= Dts + Len(init_array)) /\ ~(p <= Dts + Len(init_array) + Len(fini_array))
      BY <1>5
    <2>3. Plan(p) = Start!Function(1, "dt_fini", 0)
      BY <2>2, Zenon DEF Plan
    <2> QED BY <2>1, <2>3
  <1> QED BY <1>1, <1>2, <1>3, <1>4, <1>5

\* What has run, by its kind.
LEMMA RanKinds ==
    ASSUME LoadInv, NEW p \in DOMAIN ran
    PROVE  /\ p \in 1..(Dts + Len(init_array) + Len(fini_array) + Ends)
           /\ ran[p].kind = "dt_init" => p = 1 /\ Dts = 1 /\ ran[p] = Start!Function(1, "dt_init", 0)
           /\ ran[p].kind = "mprotect" <=> p = Dts + 1
           /\ ran[p].kind = "init" => p - Dts \in 2..Len(init_array) /\ ran[p] = init_array[p - Dts]
           /\ ran[p].kind = "fini" =>
                 /\ Dts + Len(init_array) + Len(fini_array) + 1 - p \in 1..Len(fini_array)
                 /\ ran[p] = fini_array[Dts + Len(init_array) + Len(fini_array) + 1 - p]
           /\ ran[p].kind = "dt_fini" => p = Dts + Len(init_array) + Len(fini_array) + 1 /\ Ends = 1
           /\ ran[p].kind \in {"init", "fini"} => p > Dts + 1
  <1> USE LengthsTyped
  <1>1. p \in 1..(Dts + Len(init_array) + Len(fini_array) + Ends) /\ ran[p] = Plan(p)
    <2>1. DOMAIN ran = 1..Len(ran) /\ Len(ran) = Progress /\ \A q \in 1..Len(ran) : ran[q] = Plan(q)
      BY DEF LoadInv, Running
    <2> QED BY <2>1, ProgressTyped
  <1>2. \A q \in 2..Len(init_array) : init_array[q].kind = "init"
    BY DEF LoadInv, InitArrayOK
  <1>3. \A q \in 1..Len(fini_array) : fini_array[q].kind = "fini"
    BY DEF LoadInv, FiniArrayOK
  <1>4. CASE p = 1 /\ Dts = 1 /\ Plan(p) = Start!Function(1, "dt_init", 0)
    BY <1>1, <1>4 DEF Start!Function
  <1>5. CASE p = Dts + 1 /\ Plan(p) = Start!Function(0, "mprotect", 0)
    BY <1>1, <1>5 DEF Start!Function
  <1>6. CASE p - Dts \in 2..Len(init_array) /\ Plan(p) = init_array[p - Dts]
    BY <1>1, <1>2, <1>6
  <1>7. CASE /\ Dts + Len(init_array) + Len(fini_array) + 1 - p \in 1..Len(fini_array)
             /\ Plan(p) = fini_array[Dts + Len(init_array) + Len(fini_array) + 1 - p]
             /\ p > Dts + Len(init_array)
    BY <1>1, <1>3, <1>7
  <1>8. CASE /\ p = Dts + Len(init_array) + Len(fini_array) + 1 /\ Ends = 1
             /\ Plan(p) = Start!Function(1, "dt_fini", 0)
    BY <1>1, <1>8 DEF Start!Function
  <1> QED BY <1>1, <1>4, <1>5, <1>6, <1>7, <1>8, PlanKinds

\* The types follow from it.
LEMMA LoadTyped == LoadInv => Start!TypeOK
  <1> SUFFICES ASSUME LoadInv PROVE Start!TypeOK
    OBVIOUS
  <1> USE BinsTyped, LengthsTyped
  <1>1. cur \in 0..(Len(init_array) + Len(fini_array) + NBins)
    BY DEF LoadInv, Stages
  <1>2. dynamic \subseteq {Start!Function(Start!Main, kind, 0) : kind \in Start!Entries}
    <2>1. bin[1].dt \subseteq Start!Entries
      BY BinTyped DEF LoadInv
    <2>2. dynamic \in {{}, Start!Kept}
      BY DEF LoadInv, Stages
    <2> QED BY <2>1, <2>2 DEF Start!Kept
  <1> QED BY <1>1, <1>2 DEF LoadInv, LoadInput, InitArrayOK, FiniArrayOK, Stages, Running, Start!TypeOK

\* Libraries are initialised first.
LEMMA InitialisersOrdered == LoadInv => Start!InitialisersInOrder
  <1> SUFFICES ASSUME LoadInv, NEW j \in DOMAIN ran, NEW k \in DOMAIN ran, j < k,
                      Start!Initialises(ran[j]), Start!Initialises(ran[k])
               PROVE  /\ ran[k].bin = ran[j].bin => ran[j].k < ran[k].k
                      /\ ran[k].bin \in needs[ran[j].bin] => ran[j] = Start!Function(1, "dt_init", 0)
    BY BinsTyped DEF Start!InitialisersInOrder
  <1> USE LengthsTyped
  <1>1. k > 1 /\ k - Dts \in 2..Len(init_array) /\ ran[k] = init_array[k - Dts]
    <2>1. j \in Int /\ j >= 1 /\ k \in Int
      BY RanKinds
    <2>2. k > 1 /\ k # 1
      BY <2>1
    <2>3. ran[k].kind = "init"
      BY <2>2, RanKinds, Zenon DEF Start!Initialises
    <2>4. k - Dts \in 2..Len(init_array) /\ ran[k] = init_array[k - Dts]
      BY <2>3, RanKinds, Zenon
    <2> QED BY <2>2, <2>4
  <1>2. init_array[k - Dts].bin \in Start!Bins /\ init_array[k - Dts].k \in Nat \ {0}
    <2>1. InitsOf(init_array[k - Dts].bin) /\ init_array[k - Dts].k \in 1..bin[init_array[k - Dts].bin].init
      BY <1>1 DEF LoadInv, InitArrayOK
    <2> QED BY <2>1 DEF InitsOf
  <1>3. CASE ran[j].kind = "dt_init"
    <2>1. ran[j] = Start!Function(1, "dt_init", 0)
      BY <1>3, RanKinds
    <2> QED BY <1>1, <1>2, <2>1 DEF Start!Function
  <1>4. CASE ran[j].kind = "init"
    <2>1. j - Dts \in 2..Len(init_array) /\ ran[j] = init_array[j - Dts] /\ j \in Nat /\ k \in Nat
      BY <1>4, RanKinds
    <2>2. j - Dts < k - Dts
      BY <2>1
    <2>3. \/ init_array[j - Dts].bin > init_array[k - Dts].bin
          \/ /\ init_array[j - Dts].bin = init_array[k - Dts].bin
             /\ init_array[j - Dts].k < init_array[k - Dts].k
      BY <1>1, <2>1, <2>2 DEF LoadInv, InitArrayOK
    <2>4. InitsOf(init_array[j - Dts].bin)
      BY <2>1 DEF LoadInv, InitArrayOK
    <2>5. init_array[j - Dts].bin \in Start!Bins
      BY <2>4 DEF InitsOf
    <2>6. \A c \in needs[init_array[j - Dts].bin] : init_array[j - Dts].bin < c
      BY <2>5 DEF LoadInv, LoadInput
    <2> QED BY <1>1, <1>2, <2>1, <2>3, <2>5, <2>6, BinsTyped
  <1> QED BY <1>3, <1>4 DEF Start!Initialises

\* At exit the order is the same: libraries first.
LEMMA LibrariesLast == LoadInv => Start!LibrariesFinalisedFirst
  <1> SUFFICES ASSUME LoadInv, NEW j \in DOMAIN ran, NEW k \in DOMAIN ran, j < k,
                      ran[j].kind = "fini", ran[k].kind = "fini"
               PROVE  ran[k].bin \notin needs[ran[j].bin]
    BY DEF Start!LibrariesFinalisedFirst
  <1> USE LengthsTyped
  <1> DEFINE at(p) == Dts + Len(init_array) + Len(fini_array) + 1 - p
  <1>1. /\ at(j) \in 1..Len(fini_array) /\ ran[j] = fini_array[at(j)]
        /\ at(k) \in 1..Len(fini_array) /\ ran[k] = fini_array[at(k)]
        /\ j \in Nat /\ k \in Nat
    BY RanKinds
  <1>2. at(k) < at(j)
    BY <1>1
  <1> HIDE DEF at
  <1>3. Earlier(fini_array[at(k)], fini_array[at(j)])
    BY <1>1, <1>2 DEF LoadInv, FiniArrayOK
  <1>4. FinisOf(fini_array[at(j)].bin) /\ FinisOf(fini_array[at(k)].bin)
    BY <1>1 DEF LoadInv, FiniArrayOK
  <1>5. fini_array[at(j)].bin \in Start!Bins /\ fini_array[at(k)].bin \in Start!Bins
    BY <1>4 DEF FinisOf
  <1>6. \A c \in needs[fini_array[at(j)].bin] : fini_array[at(j)].bin < c
    BY <1>5 DEF LoadInv, LoadInput
  <1> QED BY <1>1, <1>3, <1>5, <1>6, BinsTyped DEF Earlier

\* The instance counts as FiniteSets does.
LEMMA SameCardinality == \A S : Start!Cardinality(S) = Cardinality(S)
  BY Zenon DEF Start!Cardinality, Cardinality

\* The RELRO code is the first function of the array.
LEMMA CodeRanFirst == LoadInv => Start!ProtectedFirst
  <1> SUFFICES ASSUME LoadInv
               PROVE  \A k \in DOMAIN ran : ran[k].kind \in {"init", "fini"} =>
                         Cardinality({j \in 1..(k - 1) : ran[j].kind = "mprotect"}) = 1
    BY Zenon, SameCardinality DEF Start!ProtectedFirst
  <1> TAKE k \in DOMAIN ran
  <1> HAVE ran[k].kind \in {"init", "fini"}
  <1> USE LengthsTyped
  <1>1. k \in Nat /\ k > Dts + 1 /\ DOMAIN ran = 1..Len(ran) /\ Len(ran) \in Nat
    BY RanKinds DEF LoadInv, Running
  <1>2. \A j \in 1..(k - 1) : j \in DOMAIN ran
    BY <1>1
  <1>3. {j \in 1..(k - 1) : ran[j].kind = "mprotect"} = {Dts + 1}
    BY <1>1, <1>2, RanKinds
  <1> QED BY <1>3, FS_Singleton

\* A function that is kept runs once, one that is not never.
LEMMA AllRunOnce == LoadInv => Start!EachRunsOnce
  <1> SUFFICES ASSUME LoadInv, phase = "done", NEW b \in Start!Bins
               PROVE  /\ \A k \in 1..bin[b].init : Start!Times(Start!Function(b, "init", k)) = 1
                      /\ \A k \in 1..bin[b].fini : Start!Times(Start!Function(b, "fini", k)) = 1
                      /\ \A kind \in Start!Entries :
                            Start!Times(Start!Function(b, kind, 0)) =
                                IF b = Start!Main /\ kind \in bin[b].dt THEN 1 ELSE 0
    BY DEF Start!EachRunsOnce
  <1> USE LengthsTyped
  <1>1. /\ DOMAIN ran = 1..(Dts + Len(init_array) + Len(fini_array) + Ends)
        /\ \A p \in DOMAIN ran : ran[p] = Plan(p)
    BY DEF LoadInv, Running, Progress
  <1>2. ASSUME NEW f, NEW p \in DOMAIN ran, ran[p] = f,
               \A q \in DOMAIN ran : ran[q] = f => q = p
        PROVE  Start!Times(f) = 1
    <2>1. {q \in DOMAIN ran : ran[q] = f} = {p}
      BY <1>2
    <2>2. Start!Times(f) = Cardinality({q \in DOMAIN ran : ran[q] = f})
      BY Zenon, SameCardinality DEF Start!Times
    <2> QED BY <2>1, <2>2, FS_Singleton
  <1>3. ASSUME NEW k \in 1..bin[b].init PROVE Start!Times(Start!Function(b, "init", k)) = 1
    <2> DEFINE f == Start!Function(b, "init", k)
    <2>1. InitsOf(b)
      BY DEF InitsOf
    <2>2. PICK p \in 2..Len(init_array) : init_array[p] = f
      BY <2>1 DEF LoadInv, InitArrayOK
    <2>3. Dts + p \in DOMAIN ran /\ ran[Dts + p] = f
      <3>1. Dts + p \in DOMAIN ran /\ (Dts + p) - Dts = p
        BY <1>1
      <3>2. Plan(Dts + p) = init_array[p]
        BY <3>1 DEF Plan
      <3> QED BY <1>1, <2>2, <3>1, <3>2
    <2>4. ASSUME NEW q \in DOMAIN ran, ran[q] = f PROVE q = Dts + p
      <3>0. f.kind = "init" /\ f.bin = b /\ f.k = k
        BY DEF Start!Function
      <3>1. q - Dts \in 2..Len(init_array) /\ init_array[q - Dts] = f /\ q \in Nat
        BY <2>4, <3>0, RanKinds
      <3>2. ~(q - Dts < p) /\ ~(p < q - Dts)
        <4>1. b \in Int /\ k \in Int
          BY BinsTyped
        <4>2. \A x, y \in 2..Len(init_array) : x < y =>
                 EarlierInit(init_array[x], init_array[y])
          BY DEF LoadInv, InitArrayOK, EarlierInit
        <4>3. ~EarlierInit(f, f)
          BY <3>0, <4>1 DEF EarlierInit
        <4> HIDE DEF f
        <4> QED BY <2>2, <3>1, <4>2, <4>3
      <3> QED BY <3>1, <3>2
    <2> QED BY <1>2, <2>3, <2>4
  <1>4. ASSUME NEW k \in 1..bin[b].fini PROVE Start!Times(Start!Function(b, "fini", k)) = 1
    <2> DEFINE f == Start!Function(b, "fini", k)
               all == Dts + Len(init_array) + Len(fini_array) + 1
    <2>1. FinisOf(b)
      <3>1. b \notin excluded
        <4>1. bin[b].fini # 0
          BY <1>4
        <4> QED BY <4>1 DEF LoadInv, Stages, Loading
      <3> QED BY <3>1 DEF FinisOf
    <2>2. PICK p \in 1..Len(fini_array) : fini_array[p] = f
      BY <2>1 DEF LoadInv, FiniArrayOK
    <2>3. all - p \in DOMAIN ran /\ ran[all - p] = f
      <3>1. /\ all - p \in DOMAIN ran /\ all - (all - p) = p
            /\ all - p > Dts + Len(init_array) /\ all - p > Dts
            /\ all - p <= Dts + Len(init_array) + Len(fini_array)
        BY <1>1
      <3>2. Plan(all - p) = fini_array[p]
        BY <3>1 DEF Plan
      <3> QED BY <1>1, <2>2, <3>1, <3>2
    <2>4. ASSUME NEW q \in DOMAIN ran, ran[q] = f PROVE q = all - p
      <3>0. f.kind = "fini" /\ f.bin = b /\ f.k = k
        BY DEF Start!Function
      <3>1. all - q \in 1..Len(fini_array) /\ fini_array[all - q] = f /\ q \in Nat
        <4>1. ran[q].kind = "fini"
          BY <2>4, <3>0
        <4>2. /\ Dts + Len(init_array) + Len(fini_array) + 1 - q \in 1..Len(fini_array)
              /\ ran[q] = fini_array[Dts + Len(init_array) + Len(fini_array) + 1 - q]
              /\ q \in 1..(Dts + Len(init_array) + Len(fini_array) + Ends)
          BY <4>1, RanKinds
        <4> QED BY <2>4, <4>2
      <3>2. ~(all - q < p) /\ ~(p < all - q)
        <4>1. b \in Int /\ k \in Int
          BY BinsTyped
        <4>2. \A x, y \in 1..Len(fini_array) : x < y =>
                 Earlier(fini_array[x], fini_array[y])
          BY DEF LoadInv, FiniArrayOK
        <4> HIDE DEF all
        <4> QED BY <2>2, <3>0, <3>1, <4>1, <4>2 DEF Earlier
      <3> QED BY <3>1, <3>2
    <2> QED BY <1>2, <2>3, <2>4
  <1>5. ASSUME NEW kind \in Start!Entries
        PROVE  Start!Times(Start!Function(b, kind, 0)) =
                  IF b = Start!Main /\ kind \in bin[b].dt THEN 1 ELSE 0
    <2> DEFINE f == Start!Function(b, kind, 0)
    <2>0. f.kind = kind /\ f.bin = b /\ kind \in {"dt_init", "dt_fini"}
      BY DEF Start!Function, Start!Entries
    <2>1. CASE b = 1 /\ kind \in bin[b].dt
      <3> DEFINE p == IF kind = "dt_init" THEN 1 ELSE Dts + Len(init_array) + Len(fini_array) + 1
      <3>1. (kind = "dt_init" => Dts = 1) /\ (kind = "dt_fini" => Ends = 1)
        BY <2>1
      <3>2. p \in DOMAIN ran /\ Plan(p) = f
        <4>1. CASE kind = "dt_init"
          BY <1>1, <2>1, <3>1, <4>1 DEF Plan
        <4>2. CASE kind = "dt_fini"
          BY <1>1, <2>1, <3>1, <4>2 DEF Plan
        <4> QED BY <2>0, <4>1, <4>2
      <3>3. \A q \in DOMAIN ran : ran[q] = f => q = p
        BY <2>0, RanKinds
      <3>4. ran[p] = f
        BY <1>1, <3>2
      <3> HIDE DEF p, f
      <3>5. Start!Times(f) = 1
        BY <1>2, <3>2, <3>3, <3>4
      <3> QED BY <2>1, <3>5, BinsTyped DEF f
    <2>2. CASE ~(b = 1 /\ kind \in bin[b].dt)
      <3>1. \A q \in DOMAIN ran : ran[q] # f
        <4> SUFFICES ASSUME NEW q \in DOMAIN ran, ran[q] = f PROVE FALSE
          OBVIOUS
        <4>1. ran[q].kind = kind /\ ran[q].bin = b
          BY <2>0
        <4>2. /\ kind \in bin[1].dt
              /\ Plan(q) \in {Start!Function(1, "dt_init", 0), Start!Function(1, "dt_fini", 0)}
          <5>1. CASE kind = "dt_init"
            BY <1>1, <4>1, <5>1, RanKinds
          <5>2. CASE kind = "dt_fini"
            <6>1. q = Dts + Len(init_array) + Len(fini_array) + 1 /\ Ends = 1
              BY <4>1, <5>2, RanKinds
            <6> QED BY <5>2, <6>1 DEF Plan
          <5> QED BY <2>0, <5>1, <5>2
        <4>3. b = 1
          BY <1>1, <4>1, <4>2 DEF Start!Function
        <4> QED BY <2>2, <4>2, <4>3
      <3>2. {q \in DOMAIN ran : ran[q] = f} = {}
        BY <3>1
      <3>3. Start!Times(f) = Cardinality({q \in DOMAIN ran : ran[q] = f})
        BY Zenon, SameCardinality DEF Start!Times
      <3> HIDE DEF f
      <3>4. Start!Times(f) = 0
        BY <3>2, <3>3, FS_EmptySet
      <3> QED BY <2>2, <3>4, BinsTyped DEF f
    <2> QED BY <2>1, <2>2
  <1> QED BY <1>3, <1>4, <1>5

\* Functions run as ArraysRun says, in every behaviour.
THEOREM ArraysRunHolds == Spec => []ArraysRun
  <1> DEFINE I == part = "load" => LoadInv
  <1>1. Init => I
    BY LoadInit DEF Init
  <1>2. I /\ [Next]_vars => I'
    <2> SUFFICES ASSUME I, [Next]_vars, part' = "load" PROVE LoadInv'
      OBVIOUS
    <2>1. part = "load" /\ (Start!Next \/ UNCHANGED start_vars)
      BY DEF Next, vars, Protect, Load, Rename, Relink
    <2> QED BY <2>1, LoadStep, LoadStutter
  <1>3. I => ArraysRun
    BY InitialisersOrdered, AllRunOnce, CodeRanFirst, LibrariesLast DEF ArraysRun
  <1> QED BY <1>1, <1>2, <1>3, PTL DEF Spec

(***************************************************************************)
(* Sums over a finite set.                                                 *)
(***************************************************************************)
\* The member that a fold takes first.
Picked(s) == CHOOSE x \in s : TRUE

\* What a fold makes of a set, from what it makes of the smaller ones.
Added(g, size, s) == IF s = {} THEN 0 ELSE size[Picked(s)] + g[s \ {Picked(s)}]

IsAdding(g, size, L) == g = [s \in SUBSET L |-> Added(g, size, s)]

Total(size, L) == (CHOOSE g : IsAdding(g, size, L))[L]

\* What is left of a finite set when the fold has taken a member.
LEMMA PartsSmaller ==
    ASSUME NEW L, IsFiniteSet(L), NEW s \in SUBSET L
    PROVE  /\ IsFiniteSet(s) /\ Cardinality(s) \in 0..Cardinality(L) /\ Cardinality(L) \in Nat
           /\ Cardinality(s) = 0 <=> s = {}
           /\ s # {} => /\ Picked(s) \in s /\ s \ {Picked(s)} \in SUBSET L
                        /\ Cardinality(s \ {Picked(s)}) = Cardinality(s) - 1
  <1>1. IsFiniteSet(s) /\ Cardinality(s) <= Cardinality(L)
    BY FS_Subset
  <1>2. Cardinality(s) \in Nat /\ Cardinality(L) \in Nat
    BY <1>1, FS_CardinalityType
  <1>3. Cardinality(s) = 0 <=> s = {}
    BY <1>1, FS_EmptySet
  <1>4. ASSUME s # {} PROVE Picked(s) \in s /\ Cardinality(s \ {Picked(s)}) = Cardinality(s) - 1
    <2>1. Picked(s) \in s
      BY <1>4 DEF Picked
    <2> QED BY <1>1, <2>1, FS_RemoveElement
  <1> QED BY <1>1, <1>2, <1>3, <1>4

\* The fold is defined on every part of a finite set.
LEMMA AddingExists ==
    ASSUME NEW L, IsFiniteSet(L), NEW size \in [L -> Nat]
    PROVE  \E g \in [SUBSET L -> Nat] : IsAdding(g, size, L)
  <1> DEFINE N == Cardinality(L)
             Upto(n) == \E g \in [SUBSET L -> Nat] :
                           \A s \in SUBSET L : Cardinality(s) <= n => g[s] = Added(g, size, s)
             T == {n \in 0..N : Upto(n)}
  <1>0. N \in Nat
    BY FS_CardinalityType
  <1>7. \A s \in SUBSET L : Cardinality(s) \in 0..N /\ (Cardinality(s) = 0 <=> s = {})
    BY PartsSmaller
  <1> HIDE DEF N
  <1>1. 0 \in T
    <2> DEFINE g == [s \in SUBSET L |-> 0]
    <2>1. g \in [SUBSET L -> Nat]
      OBVIOUS
    <2>2. ASSUME NEW s \in SUBSET L, Cardinality(s) <= 0 PROVE g[s] = Added(g, size, s)
      <3>1. s = {}
        BY <1>0, <1>7, <2>2
      <3> QED BY <3>1 DEF Added
    <2>3. Upto(0)
      <3> HIDE DEF g
      <3> QED BY <2>1, <2>2
    <2> HIDE DEF Upto
    <2> QED BY <1>0, <2>3
  <1>2. \A m \in 0..N : m \in T /\ m < N => m + 1 \in T
    <2>1. SUFFICES ASSUME NEW m \in 0..N, Upto(m), m < N PROVE Upto(m + 1)
      <3> HIDE DEF Upto
      <3> QED BY <1>0
    <2>2. PICK g \in [SUBSET L -> Nat] :
             \A s \in SUBSET L : Cardinality(s) <= m => g[s] = Added(g, size, s)
      BY <2>1
    <2> DEFINE h == [s \in SUBSET L |-> IF Cardinality(s) <= m THEN g[s] ELSE Added(g, size, s)]
    <2>3. ASSUME NEW s \in SUBSET L PROVE Added(g, size, s) \in Nat
      <3>1. CASE s = {}
        BY <3>1 DEF Added
      <3>2. CASE s # {}
        <4>1. Picked(s) \in L /\ s \ {Picked(s)} \in SUBSET L
          BY <3>2, PartsSmaller
        <4>2. size[Picked(s)] \in Nat /\ g[s \ {Picked(s)}] \in Nat
          BY <4>1
        <4> QED BY <3>2, <4>2 DEF Added
      <3> QED BY <3>1, <3>2
    <2>4. h \in [SUBSET L -> Nat]
      BY <2>3
    <2>5. ASSUME NEW s \in SUBSET L, Cardinality(s) <= m + 1 PROVE h[s] = Added(h, size, s)
      <3>1. h[s] = Added(g, size, s)
        BY <2>2
      <3>2. CASE s = {}
        BY <3>1, <3>2 DEF Added
      <3>3. CASE s # {}
        <4>1. s \ {Picked(s)} \in SUBSET L /\ Cardinality(s \ {Picked(s)}) <= m
          BY <2>5, <3>3, PartsSmaller
        <4>2. h[s \ {Picked(s)}] = g[s \ {Picked(s)}]
          BY <4>1
        <4> QED BY <3>1, <3>3, <4>2 DEF Added
      <3> QED BY <3>2, <3>3
    <2> HIDE DEF h
    <2> QED BY <2>4, <2>5
  <1> HIDE DEF T
  <1>3. N \in T
    BY <1>0, <1>1, <1>2, IntervalInduction
  <1>4. PICK g \in [SUBSET L -> Nat] :
           \A s \in SUBSET L : Cardinality(s) <= N => g[s] = Added(g, size, s)
    BY <1>3 DEF T
  <1>5. \A s \in SUBSET L : g[s] = Added(g, size, s)
    BY <1>0, <1>4, <1>7
  <1>6. g = [s \in SUBSET L |-> Added(g, size, s)]
    <2>1. g = [s \in SUBSET L |-> g[s]]
      OBVIOUS
    <2> QED BY <1>5, <2>1
  <1> QED BY <1>6 DEF IsAdding

\* A sum is 0 exactly if every summand is, and no less than one of them; it is
\* that one exactly if the others are 0.
SumOf(v, size, s) ==
    /\ v \in Nat /\ (v = 0 <=> \A x \in s : size[x] = 0)
    /\ \A x \in s : v >= size[x] /\ (v = size[x] <=> \A y \in s \ {x} : size[y] = 0)

LEMMA AddingGives ==
    ASSUME NEW L, IsFiniteSet(L), NEW size \in [L -> Nat], NEW g, IsAdding(g, size, L)
    PROVE  SumOf(g[L], size, L)
  <1> DEFINE N == Cardinality(L)
             Good(s) == SumOf(g[s], size, s)
             T == {n \in 0..N : \A s \in SUBSET L : Cardinality(s) = n => Good(s)}
  <1>0. N \in Nat
    BY FS_CardinalityType
  <1>1. \A s \in SUBSET L : g[s] = Added(g, size, s)
    BY DEF IsAdding
  <1>2. 0 \in T
    <2>1. ASSUME NEW s \in SUBSET L, Cardinality(s) = 0 PROVE Good(s)
      <3>1. s = {}
        BY <2>1, PartsSmaller
      <3>2. g[s] = 0
        BY <1>1, <3>1 DEF Added
      <3> QED BY <3>1, <3>2 DEF SumOf
    <2> HIDE DEF Good
    <2> QED BY <1>0, <2>1
  <1>3. \A m \in 0..N : m \in T /\ m < N => m + 1 \in T
    <2>1. SUFFICES ASSUME NEW m \in 0..N, m \in T, m < N, NEW s \in SUBSET L, Cardinality(s) = m + 1
                   PROVE  Good(s)
      <3> HIDE DEF Good
      <3> QED BY <1>0
    <2> DEFINE x == Picked(s)
               r == s \ {x}
    <2>2. s # {} /\ x \in s /\ r \in SUBSET L /\ Cardinality(r) = m
      <3>1. m \in Int /\ m + 1 # 0
        BY <1>0, <2>1
      <3>2. /\ Cardinality(s) = 0 <=> s = {}
            /\ s # {} => /\ Picked(s) \in s /\ s \ {Picked(s)} \in SUBSET L
                         /\ Cardinality(s \ {Picked(s)}) = Cardinality(s) - 1
        BY <2>1, PartsSmaller
      <3> QED BY <2>1, <3>1, <3>2
    <2>3. /\ g[r] \in Nat /\ (g[r] = 0 <=> \A y \in r : size[y] = 0)
          /\ \A z \in r : g[r] >= size[z] /\ (g[r] = size[z] <=> \A y \in r \ {z} : size[y] = 0)
      BY <2>1, <2>2 DEF SumOf
    <2>4. g[s] = size[x] + g[r]
      BY <1>1, <2>2 DEF Added
    <2>5. size[x] \in Nat /\ (\A y \in s : size[y] \in Nat) /\ (\A y \in s : y = x \/ y \in r) /\ x \notin r /\ r \subseteq s
      BY <2>2
    <2> HIDE DEF x, r
    <2>6. (\A y \in s : size[y] = 0) <=> size[x] = 0 /\ \A y \in r : size[y] = 0
      BY <2>2, <2>5
    <2>7. ASSUME NEW z \in s PROVE g[s] >= size[z] /\ (g[s] = size[z] <=> \A y \in s \ {z} : size[y] = 0)
      <3>1. CASE z = x
        <4>1. \A y : y \in s \ {x} <=> y \in r
          BY <2>5
        <4> QED BY <2>3, <2>4, <2>5, <3>1, <4>1
      <3>2. CASE z \in r
        <4>1. \A y : y \in s \ {z} <=> y = x \/ y \in r \ {z}
          BY <2>2, <2>5, <3>2
        <4>2. g[r] >= size[z] /\ (g[r] = size[z] <=> \A y \in r \ {z} : size[y] = 0) /\ size[z] \in Nat
          BY <2>3, <2>5, <3>2
        <4>3. g[s] = size[z] <=> size[x] = 0 /\ g[r] = size[z]
          BY <2>3, <2>4, <2>5, <4>2
        <4>4. g[s] >= size[z]
          BY <2>3, <2>4, <2>5, <4>2
        <4> QED BY <4>1, <4>2, <4>3, <4>4
      <3> QED BY <2>5, <3>1, <3>2
    <2>8. g[s] \in Nat /\ (g[s] = 0 <=> \A y \in s : size[y] = 0)
      BY <2>3, <2>4, <2>5, <2>6
    <2> QED BY <2>7, <2>8 DEF SumOf
  <1> HIDE DEF T
  <1>4. 0..N \subseteq T
    BY <1>0, <1>2, <1>3, IntervalInduction
  <1> QED BY <1>0, <1>4 DEF T

\* The sum of natural numbers.
LEMMA TotalGives ==
    ASSUME NEW L, IsFiniteSet(L), NEW size \in [L -> Nat]
    PROVE  SumOf(Total(size, L), size, L)
  <1> DEFINE g == CHOOSE f : IsAdding(f, size, L)
  <1>1. IsAdding(g, size, L)
    <2>1. \E f : IsAdding(f, size, L)
      BY AddingExists
    <2> QED BY <2>1
  <1>2. Total(size, L) = g[L]
    BY DEF Total
  <1> HIDE DEF g
  <1> QED BY <1>1, <1>2, AddingGives

\* The members of a sequence.
LEMMA MembersAre == \A s : Check!ToSet(s) = {s[k] : k \in DOMAIN s}
  BY Zenon DEF Check!ToSet

\* A set of positions has a last one.
LEMMA LastOf ==
    ASSUME NEW n \in Nat, NEW S, S \subseteq 1..n, S # {}
    PROVE  Check!Max(S) \in S
  <1> DEFINE T == {n - k : k \in S}
  <1>1. T \subseteq Nat /\ T # {}
    OBVIOUS
  <1>2. PICK d \in T : \A e \in T : d <= e
    BY <1>1, LeastNatural
  <1>3. PICK k \in S : d = n - k
    BY <1>2
  <1>4. \A l \in S : k >= l
    <2>1. TAKE l \in S
    <2>2. n - l \in T
      OBVIOUS
    <2> QED BY <1>2, <1>3, <2>2
  <1>5. \E x \in S : \A y \in S : x >= y
    BY <1>4
  <1> QED BY <1>5 DEF Check!Max

\* What is not loaded yet, in the order of DT_NEEDED.
LEMMA NotLoadedGives ==
    ASSUME NEW X, NEW neededs \in Seq(X)
    PROVE  /\ Check!NotLoaded(neededs) \in Seq(X)
           /\ Check!ToSet(Check!NotLoaded(neededs)) = Check!ToSet(neededs) \ Check!Names
  <1> DEFINE N == Len(neededs)
             S == Seq(X)
             a == <<>>
             Step == [n \in 1..N |-> [v \in S |-> IF neededs[n] \in Check!Names \cup Check!ToSet(v) THEN v
                                                  ELSE Append(v, neededs[n])]]
  <1>0. N \in Nat /\ \A n \in 1..N : neededs[n] \in X
    OBVIOUS
  <1>1. a \in S /\ \A n \in 1..N, v \in S : Step[n][v] \in S
    OBVIOUS
  <1>2. Step \in [1..N -> [S -> S]]
    OBVIOUS
  <1>3. \A n \in 1..N, v \in S : Step[n][v] = IF neededs[n] \in Check!Names \cup Check!ToSet(v) THEN v
                                               ELSE Append(v, neededs[n])
    OBVIOUS
  <1> HIDE DEF N, S, a, Step
  <1>4. PICK g \in [0..N -> S] : \A n \in 0..N : g[n] = Recurs(g, a, Step, n)
    <2>1. N \in Nat /\ a \in S /\ Step \in [1..N -> [S -> S]]
      BY <1>0, <1>1, <1>2
    <2>2. \E g \in [0..N -> S] : \A n \in 0..N : g[n] = Recurs(g, a, Step, n)
      BY <2>1, RecursionExists, SMTT(60)
    <2> QED BY <2>2
  <1> DEFINE Is(f) == f = [k \in 0..N |->
                IF k = 0 THEN <<>>
                ELSE IF neededs[k] \in Check!Names \cup Check!ToSet(f[k - 1]) THEN f[k - 1]
                ELSE Append(f[k - 1], neededs[k])]
             new == CHOOSE f : Is(f)
  <1>5. Check!NotLoaded(neededs) = new[N]
    BY Zenon DEF Check!NotLoaded, N
  <1>6. \A k \in 0..N : g[k] = IF k = 0 THEN <<>>
                ELSE IF neededs[k] \in Check!Names \cup Check!ToSet(g[k - 1]) THEN g[k - 1]
                ELSE Append(g[k - 1], neededs[k])
    <2> TAKE k \in 0..N
    <2>1. CASE k = 0
      BY <1>4, <2>1 DEF Recurs, a
    <2>2. CASE k # 0
      <3>1. k \in 1..N /\ k - 1 \in 0..N /\ g[k - 1] \in S
        BY <1>0, <2>2
      <3>2. g[k] = Step[k][g[k - 1]]
        BY <1>4, <2>2 DEF Recurs
      <3> QED BY <1>3, <2>2, <3>1, <3>2
    <2> QED BY <2>1, <2>2
  <1>7. Is(g)
    <2>1. g = [k \in 0..N |-> g[k]]
      OBVIOUS
    <2> QED BY <1>6, <2>1
  <1>8. Is(new)
    <2> HIDE DEF Is
    <2> QED BY <1>7
  <1> HIDE DEF new
  <1> DEFINE Good(k) == new[k] \in Seq(X) /\ Check!ToSet(new[k]) = {neededs[l] : l \in 1..k} \ Check!Names
             T == {k \in 0..N : Good(k)}
  <1>9. 0 \in T
    <2>1. new[0] = <<>>
      BY <1>0, <1>8
    <2>2. Check!ToSet(<<>>) = {}
      BY MembersAre
    <2>3. {neededs[l] : l \in 1..0} = {}
      OBVIOUS
    <2>4. Good(0)
      BY <2>1, <2>2, <2>3
    <2> HIDE DEF Good
    <2> QED BY <1>0, <2>4
  <1>10. \A m \in 0..N : m \in T /\ m < N => m + 1 \in T
    <2>1. SUFFICES ASSUME NEW m \in 0..N, Good(m), m < N PROVE Good(m + 1)
      <3> HIDE DEF Good
      <3> QED BY <1>0
    <2>2. m + 1 \in 0..N /\ (m + 1) - 1 = m /\ m + 1 # 0 /\ m + 1 \in 1..N /\ neededs[m + 1] \in X
      BY <1>0, <2>1
    <2>3. new[m + 1] = IF neededs[m + 1] \in Check!Names \cup Check!ToSet(new[m]) THEN new[m]
                       ELSE Append(new[m], neededs[m + 1])
      BY <1>8, <2>2
    <2>4. {neededs[l] : l \in 1..(m + 1)} = {neededs[l] : l \in 1..m} \cup {neededs[m + 1]}
      <3>1. 1..(m + 1) = 1..m \cup {m + 1}
        BY <1>0
      <3> QED BY <3>1
    <2>5. CASE neededs[m + 1] \in Check!Names \cup Check!ToSet(new[m])
      BY <2>1, <2>3, <2>4, <2>5
    <2>6. CASE neededs[m + 1] \notin Check!Names \cup Check!ToSet(new[m])
      <3>1. Check!ToSet(Append(new[m], neededs[m + 1])) = Check!ToSet(new[m]) \cup {neededs[m + 1]}
        <4> DEFINE s == new[m]
                   x == neededs[m + 1]
        <4>1. s \in Seq(X) /\ x \in X
          BY <1>0, <2>1, <2>2 DEF S
        <4> HIDE DEF s, x
        <4>2. /\ Append(s, x) \in Seq(X) /\ Len(Append(s, x)) = Len(s) + 1
              /\ \A k \in 1..Len(s) : Append(s, x)[k] = s[k]
              /\ Append(s, x)[Len(s) + 1] = x
          BY <4>1, AppendProperties
        <4>3. /\ DOMAIN s = 1..Len(s) /\ Len(s) \in Nat
              /\ DOMAIN Append(s, x) = 1..Len(s) \cup {Len(s) + 1}
          BY <4>1, <4>2
        <4>4. Check!ToSet(Append(s, x)) = Check!ToSet(s) \cup {x}
          <5> DEFINE t == Append(s, x)
          <5>1. /\ \A k \in 1..Len(s) : t[k] = s[k]
                /\ t[Len(s) + 1] = x /\ DOMAIN t = 1..Len(s) \cup {Len(s) + 1} /\ DOMAIN s = 1..Len(s)
            BY <4>2, <4>3
          <5>2. Check!ToSet(t) = {t[k] : k \in DOMAIN t} /\ Check!ToSet(s) = {s[k] : k \in DOMAIN s}
            BY MembersAre
          <5> HIDE DEF t
          <5>3. Check!ToSet(t) = Check!ToSet(s) \cup {x}
            BY <5>1, <5>2
          <5> QED BY <5>3 DEF t
        <4> QED BY <4>4 DEF s, x
      <3> QED BY <2>1, <2>2, <2>3, <2>4, <2>6, <3>1
    <2> QED BY <2>5, <2>6
  <1> HIDE DEF T
  <1>11. 0..N \subseteq T
    BY <1>0, <1>9, <1>10, IntervalInduction
  <1>12. Good(N)
    BY <1>0, <1>11 DEF T
  <1>13. Check!ToSet(neededs) = {neededs[l] : l \in 1..N}
    BY MembersAre DEF N
  <1> QED BY <1>5, <1>12, <1>13

\* The sequence made of a finite set has its members.
LEMMA ListedGives ==
    ASSUME NEW S, IsFiniteSet(S)
    PROVE  Check!SetToSeq(S) \in Seq(S) /\ Check!ToSet(Check!SetToSeq(S)) = S
  <1> DEFINE n == Cardinality(S)
  <1>1. n \in Nat /\ ExistsBijection(1..n, S)
    BY FS_CardinalityType
  <1>2. PICK b \in [1..n -> S] : \A x, y \in 1..n : b[x] = b[y] => x = y
    BY <1>1 DEF ExistsBijection, Bijection, Injection, IsInjective
  <1>3. Check!Cardinality(S) = n
    BY Zenon DEF Check!Cardinality, Cardinality
  <1> DEFINE one(f) == f \in [1..n -> S] /\ Check!IsInjective(f)
  <1>4. one(b)
    BY <1>2 DEF Check!IsInjective
  <1>5. Check!SetToSeq(S) = CHOOSE f \in [1..n -> S] : Check!IsInjective(f)
    BY Zenon, <1>3 DEF Check!SetToSeq
  <1>6. one(Check!SetToSeq(S))
    <2> HIDE DEF n
    <2> QED BY <1>4, <1>5
  <1> DEFINE q == Check!SetToSeq(S)
  <1> HIDE DEF q
  <1>7. q \in Injection(1..n, S)
    BY <1>6 DEF Injection, IsInjective, Check!IsInjective, q
  <1>8. q \in Surjection(1..n, S)
    <2>1. Cardinality(1..n) = n
      BY <1>1, FS_Interval
    <2> HIDE DEF n
    <2> QED BY <1>7, <2>1, FS_Injection DEF n
  <1>9. q \in Seq(S) /\ DOMAIN q = 1..n
    BY <1>1, <1>7 DEF Injection
  <1>10. {q[k] : k \in 1..n} = S
    BY <1>7, <1>8 DEF Injection, Surjection
  <1> QED BY <1>9, <1>10, MembersAre DEF q

\* A sequence is one of its own members.
LEMMA OwnMembers == ASSUME NEW X, NEW s \in Seq(X) PROVE s \in Seq(Check!ToSet(s))
  <1>1. s \in [1..Len(s) -> X] /\ Len(s) \in Nat /\ DOMAIN s = 1..Len(s)
    OBVIOUS
  <1>2. \A k \in 1..Len(s) : s[k] \in Check!ToSet(s)
    BY <1>1, MembersAre
  <1> QED BY <1>1, <1>2, SeqDef

\* The front of a queue, and its members.
LEMMA FrontOf ==
    ASSUME NEW X, NEW q \in Seq(X), q # <<>>
    PROVE  /\ Head(q) \in X /\ Tail(q) \in Seq(X)
           /\ Check!ToSet(q) = {Head(q)} \cup Check!ToSet(Tail(q))
  <1>1. /\ Head(q) = q[1] /\ Tail(q) \in Seq(X) /\ Len(q) \in Nat \ {0} /\ DOMAIN q = 1..Len(q)
        /\ DOMAIN Tail(q) = 1..(Len(q) - 1) /\ \A k \in 1..(Len(q) - 1) : Tail(q)[k] = q[k + 1]
    OBVIOUS
  <1>2. Check!ToSet(q) \subseteq {Head(q)} \cup Check!ToSet(Tail(q))
    <2>1. SUFFICES ASSUME NEW k \in 1..Len(q) PROVE q[k] \in {Head(q)} \cup Check!ToSet(Tail(q))
      BY <1>1, MembersAre
    <2>2. CASE k = 1
      BY <1>1, <2>2
    <2>3. CASE k # 1
      <3>1. k - 1 \in 1..(Len(q) - 1) /\ (k - 1) + 1 = k
        BY <1>1, <2>3
      <3>2. Tail(q)[k - 1] = q[k]
        BY <1>1, <3>1
      <3> QED BY <1>1, <3>1, <3>2, MembersAre
    <2> QED BY <2>2, <2>3
  <1>3. {Head(q)} \cup Check!ToSet(Tail(q)) \subseteq Check!ToSet(q)
    <2>1. 1 \in 1..Len(q) /\ \A k \in 1..(Len(q) - 1) : k + 1 \in 1..Len(q)
      BY <1>1
    <2>2. \A x \in Check!ToSet(Tail(q)) : \E k \in 1..(Len(q) - 1) : x = q[k + 1]
      BY <1>1, MembersAre
    <2> QED BY <1>1, <2>1, <2>2, MembersAre
  <1>4. Head(q) \in X
    BY <1>1
  <1> QED BY <1>1, <1>2, <1>3, <1>4

\* The members of two lists.
LEMMA JoinedMembers ==
    ASSUME NEW X, NEW s \in Seq(X), NEW t \in Seq(X)
    PROVE  Check!ToSet(s \o t) = Check!ToSet(s) \cup Check!ToSet(t)
  <1>1. /\ DOMAIN s = 1..Len(s) /\ DOMAIN t = 1..Len(t) /\ Len(s) \in Nat /\ Len(t) \in Nat
        /\ DOMAIN (s \o t) = 1..(Len(s) + Len(t))
        /\ \A k \in 1..(Len(s) + Len(t)) : (s \o t)[k] = IF k <= Len(s) THEN s[k] ELSE t[k - Len(s)]
    OBVIOUS
  <1>2. Check!ToSet(s \o t) \subseteq Check!ToSet(s) \cup Check!ToSet(t)
    <2>1. SUFFICES ASSUME NEW k \in 1..(Len(s) + Len(t)) PROVE (s \o t)[k] \in Check!ToSet(s) \cup Check!ToSet(t)
      BY <1>1, MembersAre
    <2>2. CASE k <= Len(s)
      <3>1. k \in 1..Len(s)
        BY <1>1, <2>2
      <3> QED BY <1>1, <2>2, <3>1, MembersAre
    <2>3. CASE ~(k <= Len(s))
      <3>1. k - Len(s) \in 1..Len(t)
        BY <1>1, <2>3
      <3> QED BY <1>1, <2>3, <3>1, MembersAre
    <2> QED BY <2>2, <2>3
  <1>3. Check!ToSet(s) \subseteq Check!ToSet(s \o t)
    <2>1. \A k \in 1..Len(s) : k \in 1..(Len(s) + Len(t)) /\ (s \o t)[k] = s[k]
      BY <1>1
    <2> QED BY <1>1, <2>1, MembersAre
  <1>4. Check!ToSet(t) \subseteq Check!ToSet(s \o t)
    <2>1. \A k \in 1..Len(t) : Len(s) + k \in 1..(Len(s) + Len(t)) /\ (s \o t)[Len(s) + k] = t[k]
      BY <1>1
    <2> QED BY <1>1, <2>1, MembersAre
  <1> QED BY <1>2, <1>3, <1>4

\* A list has finitely many members.
LEMMA ListedFinite ==
    ASSUME NEW X, NEW s \in Seq(X) PROVE IsFiniteSet(Check!ToSet(s))
  <1>1. s \in [1..Len(s) -> Check!ToSet(s)] /\ Len(s) \in Nat
    <2>1. s \in Seq(Check!ToSet(s))
      BY OwnMembers
    <2> QED BY <2>1
  <1>2. \A x \in Check!ToSet(s) : \E k \in 1..Len(s) : s[k] = x
    BY MembersAre
  <1>3. s \in Surjection(1..Len(s), Check!ToSet(s))
    BY <1>1, <1>2 DEF Surjection
  <1>4. IsFiniteSet(1..Len(s))
    BY <1>1, FS_Interval
  <1> QED BY <1>3, <1>4, FS_Surjection

\* The outputs of two links.
LEMMA PairOf == ASSUME NEW x, NEW y PROVE Append(<<x>>, y) = <<x, y>>
  <1> DEFINE s == <<x>>
             t == Append(s, y)
  <1>1. s \in Seq({x, y}) /\ Len(s) = 1 /\ s[1] = x
    OBVIOUS
  <1> HIDE DEF s
  <1>2. t \in Seq({x, y}) /\ Len(t) = 2 /\ t[1] = x /\ t[2] = y
    <2> DEFINE X == {x, y}
    <2>1. s \in Seq(X) /\ y \in X
      BY <1>1
    <2> HIDE DEF X
    <2>2. /\ Append(s, y) \in Seq(X) /\ Len(Append(s, y)) = Len(s) + 1
          /\ \A i \in 1..Len(s) : Append(s, y)[i] = s[i]
          /\ Append(s, y)[Len(s) + 1] = y
      BY <2>1, AppendProperties
    <2>3. 1 \in 1..1 /\ 1 + 1 = 2
      OBVIOUS
    <2> QED BY <1>1, <2>2, <2>3 DEF X
  <1> HIDE DEF t
  <1>3. t = <<x, y>>
    <2>1. t \in [1..2 -> {x, y}]
      BY <1>2
    <2>2. <<x, y>> \in [1..2 -> {x, y}]
      OBVIOUS
    <2>3. \A k \in 1..2 : t[k] = <<x, y>>[k]
      BY <1>2
    <2> QED BY <2>1, <2>2, <2>3
  <1> QED BY <1>3 DEF s, t

\* The sonames of the binaries that names lists.
Sonames(names, soname) == {soname[n] : n \in {m \in Check!ToSet(names) : soname[m] # Check!NoSoname}}

\* file_of is map with the names under their sonames.
WithFiles(with, map, names, soname) ==
    /\ DOMAIN with = DOMAIN map \cup Sonames(names, soname)
    /\ \A s \in DOMAIN map \ Sonames(names, soname) : with[s] = map[s]
    /\ \A s \in Sonames(names, soname) : with[s] \in Check!ToSet(names) /\ soname[with[s]] = s

\* Registering a list of names leaves the old map on other sonames.
LEMMA RegisterGives ==
    ASSUME NEW map, NEW X, NEW names \in Seq(X), NEW soname
    PROVE  WithFiles(Check!Register(map, names, soname), map, names, soname)
  <1>0. DOMAIN names = 1..Len(names) /\ Len(names) \in Nat
    OBVIOUS
  <1> DEFINE sonames == Sonames(names, soname)
             at(s) == {k \in DOMAIN names : soname[names[k]] = s}
             with == [s \in DOMAIN map \cup sonames |->
                         IF s \in sonames THEN names[Check!Max(at(s))] ELSE map[s]]
  <1>1. Check!Register(map, names, soname) = with
    BY Zenon DEF Check!Register, Sonames
  <1>2. ASSUME NEW s \in sonames
        PROVE  names[Check!Max(at(s))] \in Check!ToSet(names) /\ soname[names[Check!Max(at(s))]] = s
    <2>2. at(s) \subseteq 1..Len(names)
      BY <1>0
    <2>3. at(s) # {}
      BY MembersAre DEF Sonames
    <2>4. Check!Max(at(s)) \in at(s)
      <3> HIDE DEF at
      <3> QED BY <1>0, <2>2, <2>3, LastOf
    <2> HIDE DEF sonames
    <2>5. \A k \in at(s) : names[k] \in Check!ToSet(names) /\ soname[names[k]] = s
      BY MembersAre
    <2> QED BY <2>4, <2>5
  <1> HIDE DEF at, sonames
  <1>3. /\ DOMAIN with = DOMAIN map \cup sonames
        /\ \A s \in DOMAIN map \ sonames : with[s] = map[s]
        /\ \A s \in sonames : with[s] = names[Check!Max(at(s))]
    OBVIOUS
  <1> HIDE DEF with
  <1>4. sonames = Sonames(names, soname)
    BY DEF sonames
  <1> QED BY <1>1, <1>2, <1>3, <1>4 DEF WithFiles

-----------------------------------------------------------------------------
(***************************************************************************)
(* The check of an output by a second link (CheckOutput).                  *)
(***************************************************************************)
TLSMemTotal  == Total([n \in Check!link_binaries |-> Check!Bin(n).tls.memsz], Check!link_binaries)
TLSFileTotal == Total([n \in Check!link_binaries |-> Check!Bin(n).tls.filesz], Check!link_binaries)
FdesTotal    == Total([n \in Check!link_binaries |-> Check!Bin(n).fdes], Check!link_binaries)

\* What the first link loaded, and which copy of it.
FirstNames == DOMAIN libraries[1]
Copy(n) == IF n = cmd.main THEN cmd.disk[cmd.from][n] ELSE cmd.disk[libraries[1][n]][n]

\* What is in its output, and the versions of that: from an earlier link, and
\* their own.
Inside == {cmd.main} \cup {n \in FirstNames : Check!ShouldLink(Copy(n).soname)}
OldVersions == UNION {Copy(n).reexports : n \in Inside}
OwnVersions == UNION {{<<n, v>> : v \in Copy(n).exports} : n \in Inside}

\* The first output says what was linked into it, and needs the rest.
FirstOutput ==
    /\ \A n \in FirstNames \cup {cmd.main} :
          Check!ToSet(Copy(n).needs) \subseteq FirstNames /\ Copy(n).expands
    /\ Copy(cmd.main).exports # {} => Copy(cmd.main).soname # Check!NoSoname
    /\ output[1].soname = Copy(cmd.main).soname
    /\ output[1].paths = Copy(cmd.main).paths /\ output[1].expands
    /\ output[1].needs \in Seq(FirstNames) /\ Check!ToSet(output[1].needs) = FirstNames \ Inside
    /\ output[1].tls \in [filesz : Nat, memsz : Nat]
    /\ output[1].tls.memsz = 0 => output[1].tls.filesz = 0 /\ \A n \in Inside : Copy(n).tls.memsz = 0
    /\ output[1].tls.filesz = 0 => \A n \in Inside : Copy(n).tls.filesz = 0
    /\ output[1].fdes \in Nat /\ output[1].exports = {}
    /\ output[1].imports = {v \in UNION {Copy(n).imports : n \in Inside} : v[1] \notin Inside}
    /\ output[1].reexports = OldVersions \cup OwnVersions

\* The second link found what the first one did.
Same == \A n \in DOMAIN libraries[2] : n \in FirstNames /\ libraries[2][n] = libraries[1][n]

\* The names of a link.
Known == {Check!Main} \cup Check!Names

CheckStage ==
    /\ cmd \in CommandLines /\ run \in {1, 2} /\ label \in Check!Labels
    /\ run = 1 => output = <<>> /\ label # "done"
    /\ run = 2 => output = IF label = "done" THEN <<output[1], output[2]>> ELSE <<output[1]>>

\* Libraries are in the directories where they were found, and have sonames.
Found ==
    /\ libraries = [r \in 1..2 |-> libraries[r]] /\ (run = 1 => libraries[2] = <<>>)
    /\ \A r \in 1..2 :
          /\ IsFiniteSet(DOMAIN libraries[r]) /\ cmd.main \notin DOMAIN libraries[r] /\ cmd.out \notin DOMAIN libraries[r]
          /\ \A n \in DOMAIN libraries[r] :
                /\ libraries[r][n] \in DOMAIN cmd.disk /\ n \in DOMAIN cmd.disk[libraries[r][n]]
                /\ cmd.disk[libraries[r][n]][n].soname # Check!NoSoname

\* A binary was asked for all that it needs.
Visited(n) == Check!ToSet(Check!Bin(n).needs) \subseteq Check!Names /\ Check!Bin(n).expands

\* Every library that was loaded has been asked what it needs, or will be.
Loaded ==
    /\ queue \in Seq(Known)
    /\ label \notin {"resolve", "aborted"} => queue = <<>>
    /\ label = "construct" => Check!Names = {} /\ libraries[run] = <<>>
    /\ label # "construct" => \A n \in Known : n \in Check!ToSet(queue) \/ Visited(n)

\* The binaries are registered under their sonames.
Filed ==
    label # "construct" =>
        /\ \A n \in Known : Check!Bin(n).soname # Check!NoSoname =>
              Check!Bin(n).soname \in DOMAIN file_of /\ file_of[Check!Bin(n).soname] = n
        /\ \A s \in DOMAIN file_of :
              file_of[s] \in Known /\ Check!Bin(file_of[s]).soname = s /\ s # Check!NoSoname

\* The second link starts from the output of the first.
Second == run = 2 => FirstOutput

\* When all binaries search along P, a library is where P first has it.
Common(P) == \A d \in DOMAIN cmd.disk : \A n \in DOMAIN cmd.disk[d], x \in DOMAIN cmd.disk : cmd.disk[d][n].paths[x] = P

OnPath == \A P : Common(P) =>
    /\ \A r \in 1..2 : \A n \in DOMAIN libraries[r] : libraries[r][n] = Check!FirstOf(P, n)
    /\ run = 2 => Same

\* What is linked again was brought back by a library that is not.
Relinked ==
    run = 2 /\ label # "construct" /\ Same =>
        \/ Check!link_binaries = {Check!Main}
        \/ \E n \in Check!Names \ Check!link_binaries :
              Check!ToSet(Check!Bin(n).needs) \cap Check!link_binaries # {}

\* The sizes that are inherited; once they are called for they are never 0 in vain.
TLSMemBefore  == IF run = 1 THEN 0 ELSE output[1].tls.memsz
TLSFileBefore == IF run = 1 THEN 0 ELSE output[1].tls.filesz
EHFrameBefore == IF run = 1 THEN 0 ELSE 12 + 8 * output[1].fdes

Keep(before, total) == IF before # 0 THEN before ELSE total

Sized ==
    /\ TLSMemSize_s \in Nat /\ TLSFileSize_s \in Nat
    /\ EHFrameSize_s = 0 \/ \E k \in Nat : EHFrameSize_s = 12 + 8 * k
    /\ label \in {"construct", "resolve"} => TLSMemSize_s = TLSMemBefore /\ EHFrameSize_s = EHFrameBefore
    /\ label \notin {"construct", "resolve", "aborted"} =>
          TLSMemSize_s = Keep(TLSMemBefore, TLSMemTotal) /\ EHFrameSize_s = Keep(EHFrameBefore, 12 + 8 * FdesTotal)
    /\ label \notin {"ehframe", "emit", "done", "aborted"} => TLSFileSize_s = TLSFileBefore
    /\ label \in {"ehframe", "emit", "done"} => TLSFileSize_s = Keep(TLSFileBefore, TLSFileTotal)
    /\ label \in {"symbols", "versions", "loads", "ehframe", "emit", "done"} => TLSMemSize_s = TLSMemTotal
    /\ label \in {"emit", "done"} => EHFrameSize_s = 12 + 8 * FdesTotal

Versioned ==
    /\ label \in {"versions", "loads", "ehframe", "emit"} =>
          {v[1] : v \in Check!Imported \cup Check!Reexported} \subseteq Check!Registered
    /\ label \in {"loads", "ehframe", "emit"} =>
          /\ Check!Exporters \subseteq Check!Registered
          /\ exposed = {v \in Check!Imported : v[1] \notin Check!link_binaries}
          /\ public = Check!Reexported
                \cup UNION {{<<n, v>> : v \in Check!Bin(n).exports} : n \in Check!link_binaries}

Verdict ==
    Check!FirstLinkSucceeds /\ Check!PassMeansSame /\ Check!FailsOnlyForThreeReasons

CheckInv ==
    CheckStage /\ Found /\ Loaded /\ Filed /\ Second /\ OnPath /\ Relinked /\ Sized /\ Versioned /\ Verdict

-----------------------------------------------------------------------------
\* The folds of the model are sums.
Totals ==
    /\ Check!TLSMemBuilt = TLSMemTotal /\ Check!TLSFileBuilt = TLSFileTotal
    /\ Check!EHFrameBuilt = 12 + 8 * FdesTotal
    /\ Check!TLSMemSize = Keep(TLSMemSize_s, TLSMemTotal)
    /\ Check!TLSFileSize = Keep(TLSFileSize_s, TLSFileTotal)
    /\ Check!EHFrameSize = Keep(EHFrameSize_s, 12 + 8 * FdesTotal)

LEMMA TotalsHold == Totals
  <1>1. /\ Check!TLSMemBuilt = TLSMemTotal /\ Check!TLSFileBuilt = TLSFileTotal
        /\ Check!Sum([n \in Check!link_binaries |-> Check!Bin(n).fdes]) = FdesTotal
    BY Zenon DEF Check!Sum, Check!MapThenSumSet, Check!MapThenFoldSet, IsAdding, Added, Picked,
                 Total, TLSMemTotal, TLSFileTotal, FdesTotal, Check!TLSMemBuilt, Check!TLSFileBuilt
  <1>2. Check!EHFrameBuilt = 12 + 8 * FdesTotal
    BY <1>1, Zenon DEF Check!EHFrameBuilt, Check!HeaderSize
  <1> QED BY <1>1, <1>2, Zenon DEF Totals, Check!TLSMemSize, Check!TLSFileSize, Check!EHFrameSize, Check!Cached, Keep

\* The same after a step.
LEMMA TotalsHoldNext == Totals'
  BY TotalsHold, PTL

\* What the second link reads is the output of the first.
LEMMA BinIs ==
    /\ Check!Main = IF run = 1 THEN cmd.main ELSE cmd.out
    /\ Check!Names = DOMAIN libraries[run]
    /\ \A n : Check!Here(n) = IF n # Check!Main THEN libraries[run][n] ELSE IF run = 1 THEN cmd.from ELSE cmd.to
    /\ \A n : Check!Bin(n) = IF run = 2 /\ n = Check!Main THEN output[1] ELSE cmd.disk[Check!Here(n)][n]
  BY DEF Check!Main, Check!Bin, Check!Here, Check!Names

\* What the command lines are known to be.
Binary(b) ==
    /\ b.tls \in [filesz : Nat, memsz : Nat] /\ b.tls.filesz <= b.tls.memsz /\ b.fdes \in Nat
    /\ b.needs \in Seq(Check!ToSet(b.needs))
    /\ cmd.main \notin Check!ToSet(b.needs) /\ cmd.out \notin Check!ToSet(b.needs)
    /\ \A v \in b.imports \cup b.reexports : v = <<v[1], v[2]>> /\ v[1] \in Check!ToSet(b.needs)

LEMMA CommandTyped ==
    ASSUME cmd \in CommandLines
    PROVE  /\ cmd.from \in DOMAIN cmd.disk /\ cmd.to \in DOMAIN cmd.disk /\ Check!Nowhere \notin DOMAIN cmd.disk
           /\ cmd.main \in DOMAIN cmd.disk[cmd.from]
           /\ \A d \in DOMAIN cmd.disk : \A n \in DOMAIN cmd.disk[d] :
                 /\ Binary(cmd.disk[d][n])
                 /\ cmd.disk[d][n].paths \in [DOMAIN cmd.disk -> Seq(DOMAIN cmd.disk)]
                 /\ \A e \in DOMAIN cmd.disk : \A m \in DOMAIN cmd.disk[e] :
                       cmd.disk[d][n].soname = cmd.disk[e][m].soname => m = n \/ cmd.disk[d][n].soname = Check!NoSoname
  <1>0. Check!CommandLinesAssumption
    BY OutputUseAssumption
  <1>1. /\ cmd.from \in DOMAIN cmd.disk /\ cmd.to \in DOMAIN cmd.disk /\ Check!Nowhere \notin DOMAIN cmd.disk
        /\ cmd.main \in DOMAIN cmd.disk[cmd.from]
    BY <1>0 DEF Check!CommandLinesAssumption
  <1>2. ASSUME NEW d \in DOMAIN cmd.disk, NEW n \in DOMAIN cmd.disk[d]
        PROVE  /\ Binary(cmd.disk[d][n])
               /\ cmd.disk[d][n].paths \in [DOMAIN cmd.disk -> Seq(DOMAIN cmd.disk)]
    BY <1>0, <1>2 DEF Check!CommandLinesAssumption, Binary
  <1>3. ASSUME NEW d \in DOMAIN cmd.disk, NEW n \in DOMAIN cmd.disk[d],
               NEW e \in DOMAIN cmd.disk, NEW m \in DOMAIN cmd.disk[e],
               cmd.disk[d][n].soname = cmd.disk[e][m].soname
        PROVE  m = n \/ cmd.disk[d][n].soname = Check!NoSoname
    BY <1>0, <1>3 DEF Check!CommandLinesAssumption
  <1> QED BY <1>1, <1>2, <1>3


\* The copies that the first link found.
LEMMA CopyTyped ==
    ASSUME CheckStage, Found
    PROVE  /\ \A n \in FirstNames \cup {cmd.main} :
                 /\ Binary(Copy(n)) /\ Copy(n).paths \in [DOMAIN cmd.disk -> Seq(DOMAIN cmd.disk)]
                 /\ \A d \in DOMAIN cmd.disk : \A m \in DOMAIN cmd.disk[d] :
                       Copy(n).soname = cmd.disk[d][m].soname => m = n \/ Copy(n).soname = Check!NoSoname
           /\ \A n \in FirstNames : /\ Copy(n).soname # Check!NoSoname /\ Copy(n) = cmd.disk[libraries[1][n]][n]
                                    /\ libraries[1][n] # Check!Nowhere
           /\ cmd.main \notin FirstNames /\ cmd.out \notin FirstNames /\ IsFiniteSet(FirstNames)
           /\ Inside \subseteq FirstNames \cup {cmd.main}
  <1>1. cmd \in CommandLines
    BY DEF CheckStage
  <1>2. cmd.main \notin FirstNames /\ cmd.out \notin FirstNames /\ IsFiniteSet(FirstNames)
    BY DEF Found, FirstNames
  <1>3. \A n \in FirstNames : /\ libraries[1][n] \in DOMAIN cmd.disk /\ n \in DOMAIN cmd.disk[libraries[1][n]]
                              /\ cmd.disk[libraries[1][n]][n].soname # Check!NoSoname
    BY DEF Found, FirstNames
  <1>4. Copy(cmd.main) = cmd.disk[cmd.from][cmd.main] /\ \A n \in FirstNames : Copy(n) = cmd.disk[libraries[1][n]][n]
    BY <1>2 DEF Copy
  <1>5. ASSUME NEW n \in FirstNames \cup {cmd.main}
        PROVE  \E d \in DOMAIN cmd.disk : n \in DOMAIN cmd.disk[d] /\ Copy(n) = cmd.disk[d][n]
    <2>1. CASE n = cmd.main
      BY <1>1, <1>4, <2>1, CommandTyped
    <2>2. CASE n \in FirstNames
      BY <1>3, <1>4, <2>2
    <2> QED BY <2>1, <2>2
  <1>6. ASSUME NEW n \in FirstNames \cup {cmd.main}
        PROVE  /\ Binary(Copy(n)) /\ Copy(n).paths \in [DOMAIN cmd.disk -> Seq(DOMAIN cmd.disk)]
               /\ \A d \in DOMAIN cmd.disk : \A m \in DOMAIN cmd.disk[d] :
                     Copy(n).soname = cmd.disk[d][m].soname => m = n \/ Copy(n).soname = Check!NoSoname
    <2>1. PICK d \in DOMAIN cmd.disk : n \in DOMAIN cmd.disk[d] /\ Copy(n) = cmd.disk[d][n]
      BY <1>5
    <2> QED BY <1>1, <2>1, CommandTyped
  <1>7. Inside \subseteq FirstNames \cup {cmd.main}
    BY DEF Inside
  <1>8. \A n \in FirstNames : libraries[1][n] # Check!Nowhere
    BY <1>1, <1>3, CommandTyped
  <1> QED BY <1>2, <1>3, <1>4, <1>6, <1>7, <1>8

\* What the output says of itself.
KnownBinary(b) ==
    /\ b.tls \in [filesz : Nat, memsz : Nat] /\ (b.tls.memsz = 0 => b.tls.filesz = 0) /\ b.fdes \in Nat
    /\ b.needs \in Seq(Check!ToSet(b.needs))
    /\ cmd.main \notin Check!ToSet(b.needs) /\ cmd.out \notin Check!ToSet(b.needs)
    /\ \A v \in b.imports : v = <<v[1], v[2]>> /\ v[1] \in Check!ToSet(b.needs)
    /\ \A v \in b.reexports : v = <<v[1], v[2]>>

LEMMA OutputTyped == ASSUME CheckStage, Found, FirstOutput PROVE KnownBinary(output[1])
  <1>1. Check!ToSet(output[1].needs) = FirstNames \ Inside /\ output[1].needs \in Seq(FirstNames)
    BY DEF FirstOutput
  <1>2. output[1].needs \in Seq(Check!ToSet(output[1].needs))
    BY <1>1, OwnMembers
  <1>3. cmd.main \notin FirstNames /\ cmd.out \notin FirstNames
    BY CopyTyped
  <1>4. ASSUME NEW v \in output[1].imports
        PROVE  v = <<v[1], v[2]>> /\ v[1] \in Check!ToSet(output[1].needs)
    <2>1. v \in UNION {Copy(m).imports : m \in Inside} /\ v[1] \notin Inside
      BY <1>4 DEF FirstOutput
    <2>2. PICK k \in Inside : v \in Copy(k).imports
      BY <2>1
    <2>3. k \in FirstNames \cup {cmd.main} /\ Binary(Copy(k))
      BY CopyTyped
    <2>4. v = <<v[1], v[2]>> /\ v[1] \in Check!ToSet(Copy(k).needs)
      BY <2>2, <2>3 DEF Binary
    <2>5. v[1] \in FirstNames
      BY <2>3, <2>4 DEF FirstOutput
    <2> QED BY <1>1, <2>1, <2>4, <2>5
  <1>5. ASSUME NEW v \in output[1].reexports PROVE v = <<v[1], v[2]>>
    <2>1. v \in OldVersions \/ v \in OwnVersions
      BY <1>5 DEF FirstOutput
    <2>2. CASE v \in OldVersions
      <3>1. PICK k \in Inside : v \in Copy(k).reexports
        BY <2>2 DEF OldVersions
      <3>2. Binary(Copy(k))
        BY CopyTyped
      <3> QED BY <3>1, <3>2 DEF Binary
    <2>3. CASE v \in OwnVersions
      BY <2>3 DEF OwnVersions
    <2> QED BY <2>1, <2>2, <2>3
  <1>6. /\ output[1].tls \in [filesz : Nat, memsz : Nat] /\ (output[1].tls.memsz = 0 => output[1].tls.filesz = 0)
        /\ output[1].fdes \in Nat
    BY DEF FirstOutput
  <1> QED BY <1>1, <1>2, <1>3, <1>4, <1>5, <1>6 DEF KnownBinary

\* A binary of the disk that a link has found.
LEMMA NamesAre ==
    ASSUME CheckStage, Found
    PROVE  /\ cmd.main \notin Check!Names /\ cmd.out \notin Check!Names /\ IsFiniteSet(Check!Names)
           /\ Check!Main \notin Check!Names
           /\ \A n \in Check!Names :
                 /\ Check!Here(n) = libraries[run][n] /\ Check!Here(n) \in DOMAIN cmd.disk
                 /\ n \in DOMAIN cmd.disk[Check!Here(n)] /\ Check!Bin(n) = cmd.disk[Check!Here(n)][n]
                 /\ Check!Bin(n).soname # Check!NoSoname
  <1>1. run \in 1..2
    BY DEF CheckStage
  <1>2. /\ cmd.main \notin Check!Names /\ cmd.out \notin Check!Names /\ IsFiniteSet(Check!Names)
        /\ Check!Main \notin Check!Names
    BY <1>1, BinIs DEF Found
  <1>3. \A n \in Check!Names : Check!Here(n) = libraries[run][n] /\ Check!Bin(n) = cmd.disk[Check!Here(n)][n]
    BY <1>2, BinIs
  <1>4. \A n \in Check!Names :
           /\ libraries[run][n] \in DOMAIN cmd.disk /\ n \in DOMAIN cmd.disk[libraries[run][n]]
           /\ cmd.disk[libraries[run][n]][n].soname # Check!NoSoname
    BY <1>1, BinIs DEF Found
  <1> QED BY <1>2, <1>3, <1>4

\* What is known of the binaries of a link.
Uniquely(n, m) == Check!Bin(n).soname = Check!Bin(m).soname => m = n \/ Check!Bin(n).soname = Check!NoSoname

KnownGood == CheckStage /\ Found /\ Second =>
    \A n \in Known :
        /\ KnownBinary(Check!Bin(n)) /\ (n # Check!Main => Check!Bin(n).soname # Check!NoSoname)
        /\ \A m \in Known : Uniquely(n, m)

LEMMA KnownTyped == KnownGood
  <1> SUFFICES ASSUME CheckStage, Found, Second, NEW n \in Known
               PROVE  /\ KnownBinary(Check!Bin(n)) /\ (n # Check!Main => Check!Bin(n).soname # Check!NoSoname)
                      /\ \A m \in Known : Uniquely(n, m)
    BY DEF KnownGood
  <1>0. cmd \in CommandLines
    BY DEF CheckStage
  <1>1. \A b : Binary(b) => KnownBinary(b)
    BY DEF Binary, KnownBinary
  <1>2. ASSUME NEW m \in Known
        PROVE  \/ m = Check!Main /\ run = 2 /\ Check!Bin(m) = output[1]
               \/ \E d \in DOMAIN cmd.disk : m \in DOMAIN cmd.disk[d] /\ Check!Bin(m) = cmd.disk[d][m]
    <2>1. CASE m \in Check!Names
      BY <2>1, NamesAre
    <2>2. CASE m = Check!Main
      BY <1>0, <2>2, BinIs, CommandTyped DEF CheckStage
    <2> QED BY <2>1, <2>2 DEF Known
  <1>3. ASSUME NEW m \in Known PROVE KnownBinary(Check!Bin(m))
    <2>1. CASE run = 2 /\ Check!Bin(m) = output[1]
      BY <2>1, OutputTyped DEF Second
    <2>2. CASE \E d \in DOMAIN cmd.disk : m \in DOMAIN cmd.disk[d] /\ Check!Bin(m) = cmd.disk[d][m]
      BY <1>0, <1>1, <2>2, CommandTyped
    <2> QED BY <1>2, <2>1, <2>2
  <1>4. ASSUME NEW m \in Known
        PROVE  \/ m = Check!Main /\ run = 2 /\ Check!Bin(m).soname = Copy(cmd.main).soname
               \/ \E d \in DOMAIN cmd.disk : m \in DOMAIN cmd.disk[d] /\ Check!Bin(m).soname = cmd.disk[d][m].soname
    BY <1>2 DEF Second, FirstOutput
  <1>5. Copy(cmd.main) = cmd.disk[cmd.from][cmd.main] /\ cmd.main \in DOMAIN cmd.disk[cmd.from] /\ cmd.from \in DOMAIN cmd.disk
    BY <1>0, CommandTyped DEF Copy
  <1>6. \A d, e \in DOMAIN cmd.disk : \A k \in DOMAIN cmd.disk[d], m \in DOMAIN cmd.disk[e] :
           cmd.disk[d][k].soname = cmd.disk[e][m].soname => m = k \/ cmd.disk[d][k].soname = Check!NoSoname
    BY <1>0, CommandTyped
  <1>7. ASSUME NEW m \in Known PROVE Uniquely(n, m)
    <2>1. SUFFICES ASSUME Check!Bin(n).soname = Check!Bin(m).soname, m # n
                   PROVE  Check!Bin(n).soname = Check!NoSoname
      BY DEF Uniquely
    <2>2. \A k \in Known : k # Check!Main => k # cmd.main
      BY NamesAre DEF Known
    <2>3. CASE m = Check!Main /\ run = 2 /\ Check!Bin(m).soname = Copy(cmd.main).soname
      <3>1. n # Check!Main /\ n # cmd.main
        BY <2>1, <2>2, <2>3
      <3>2. PICK d \in DOMAIN cmd.disk : n \in DOMAIN cmd.disk[d] /\ Check!Bin(n).soname = cmd.disk[d][n].soname
        BY <1>4, <3>1
      <3> QED BY <1>5, <1>6, <2>1, <2>3, <3>1, <3>2
    <2>4. CASE n = Check!Main /\ run = 2 /\ Check!Bin(n).soname = Copy(cmd.main).soname
      <3>1. m # Check!Main /\ m # cmd.main
        BY <2>1, <2>2, <2>4
      <3>2. PICK d \in DOMAIN cmd.disk : m \in DOMAIN cmd.disk[d] /\ Check!Bin(m).soname = cmd.disk[d][m].soname
        BY <1>4, <3>1
      <3> QED BY <1>5, <1>6, <2>1, <2>4, <3>1, <3>2
    <2>5. CASE /\ \E d \in DOMAIN cmd.disk : m \in DOMAIN cmd.disk[d] /\ Check!Bin(m).soname = cmd.disk[d][m].soname
               /\ \E d \in DOMAIN cmd.disk : n \in DOMAIN cmd.disk[d] /\ Check!Bin(n).soname = cmd.disk[d][n].soname
      BY <1>6, <2>1, <2>5
    <2> QED BY <1>4, <2>3, <2>4, <2>5
  <1>8. n # Check!Main => Check!Bin(n).soname # Check!NoSoname
    BY NamesAre DEF Known
  <1> QED BY <1>3, <1>7, <1>8

\* The same after a step.
LEMMA KnownTypedNext == KnownGood'
  BY KnownTyped, PTL

\* The binaries of a link, and their totals.
LEMMA MetTyped ==
    ASSUME CheckStage, Found, Second
    PROVE  /\ Check!link_binaries \subseteq Known /\ Check!Main \in Check!link_binaries
           /\ IsFiniteSet(Check!link_binaries)
           /\ SumOf(TLSMemTotal, [n \in Check!link_binaries |-> Check!Bin(n).tls.memsz], Check!link_binaries)
           /\ SumOf(TLSFileTotal, [n \in Check!link_binaries |-> Check!Bin(n).tls.filesz], Check!link_binaries)
           /\ SumOf(FdesTotal, [n \in Check!link_binaries |-> Check!Bin(n).fdes], Check!link_binaries)
           /\ TLSMemTotal \in Nat /\ TLSFileTotal \in Nat /\ FdesTotal \in Nat
  <1>1. Check!link_binaries \subseteq Known /\ Check!Main \in Check!link_binaries
    BY DEF Check!link_binaries, Known
  <1>2. IsFiniteSet(Check!link_binaries)
    <2>1. IsFiniteSet(Known)
      BY NamesAre, FS_AddElement DEF Known
    <2> QED BY <1>1, <2>1, FS_Subset
  <1>3. \A n \in Check!link_binaries : KnownBinary(Check!Bin(n))
    BY <1>1, KnownTyped DEF KnownGood
  <1>4. \A n \in Check!link_binaries : /\ Check!Bin(n).tls.memsz \in Nat /\ Check!Bin(n).tls.filesz \in Nat
                                       /\ Check!Bin(n).fdes \in Nat
    BY <1>3 DEF KnownBinary
  <1> DEFINE K == Check!link_binaries
             mem == [n \in K |-> Check!Bin(n).tls.memsz]
             file == [n \in K |-> Check!Bin(n).tls.filesz]
             fdes == [n \in K |-> Check!Bin(n).fdes]
  <1>5. mem \in [K -> Nat] /\ file \in [K -> Nat] /\ fdes \in [K -> Nat]
    BY <1>4
  <1>6. SumOf(Total(mem, K), mem, K) /\ SumOf(Total(file, K), file, K) /\ SumOf(Total(fdes, K), fdes, K)
    <2> HIDE DEF mem, file, fdes, K
    <2> QED BY <1>2, <1>5, TotalGives DEF K
  <1>7. /\ SumOf(TLSMemTotal, mem, K) /\ SumOf(TLSFileTotal, file, K) /\ SumOf(FdesTotal, fdes, K)
    BY <1>6 DEF TLSMemTotal, TLSFileTotal, FdesTotal
  <1>8. TLSMemTotal \in Nat /\ TLSFileTotal \in Nat /\ FdesTotal \in Nat
    BY <1>7 DEF SumOf
  <1> QED BY <1>1, <1>2, <1>7, <1>8

\* What does not change while the binaries do not.
LEMMA StateKept ==
    ASSUME CheckStage, UNCHANGED <<cmd, run, libraries>>, run = 2 => output'[1] = output[1]
    PROVE  /\ Check!Main' = Check!Main /\ Check!Names' = Check!Names /\ Known' = Known
           /\ Check!link_binaries' = Check!link_binaries
           /\ (\A n : Check!Bin(n)' = Check!Bin(n)) /\ (\A n : Check!Here(n)' = Check!Here(n))
           /\ TLSMemTotal' = TLSMemTotal /\ TLSFileTotal' = TLSFileTotal /\ FdesTotal' = FdesTotal
           /\ Check!Imported' = Check!Imported /\ Check!Reexported' = Check!Reexported
           /\ Check!Exporters' = Check!Exporters
           /\ TLSMemBefore' = TLSMemBefore /\ TLSFileBefore' = TLSFileBefore /\ EHFrameBefore' = EHFrameBefore
           /\ \A n : Check!ToSet(Check!Bin(n).needs)' = Check!ToSet(Check!Bin(n).needs)
  <1>1. Check!Main' = Check!Main /\ Check!Names' = Check!Names
    BY DEF Check!Main, Check!Names
  <1>2. \A n : Check!Here(n)' = Check!Here(n)
    BY <1>1 DEF Check!Here
  <1>3. \A n : Check!Bin(n)' = Check!Bin(n)
    BY <1>1, <1>2 DEF Check!Bin
  <1>4. Check!link_binaries' = Check!link_binaries
    BY <1>1, <1>3 DEF Check!link_binaries, Check!ShouldLink
  <1>5. \A n : Check!ToSet(Check!Bin(n).needs)' = Check!ToSet(Check!Bin(n).needs)
    BY <1>3 DEF Check!ToSet
  <1>6. TLSMemBefore' = TLSMemBefore /\ TLSFileBefore' = TLSFileBefore /\ EHFrameBefore' = EHFrameBefore
    BY DEF TLSMemBefore, TLSFileBefore, EHFrameBefore, CheckStage
  <1>7. Known' = Known
    BY <1>1 DEF Known
  <1> QED BY <1>1, <1>2, <1>3, <1>4, <1>5, <1>6, <1>7
          DEF TLSMemTotal, TLSFileTotal, FdesTotal, Check!Imported, Check!Reexported, Check!Exporters

\* The output of the first link stays as it is.
LEMMA FirstOutputKept ==
    ASSUME FirstOutput, cmd' = cmd, libraries'[1] = libraries[1], output'[1] = output[1]
    PROVE  FirstOutput'
  <1>1. FirstNames' = FirstNames /\ \A n : Copy(n)' = Copy(n)
    BY DEF FirstNames, Copy
  <1>2. Inside' = Inside
    BY <1>1 DEF Inside, Check!ShouldLink
  <1>3. OldVersions' = OldVersions /\ OwnVersions' = OwnVersions
    BY <1>1, <1>2 DEF OldVersions, OwnVersions
  <1>4. /\ \A n : Check!ToSet(Copy(n).needs)' = Check!ToSet(Copy(n).needs)
        /\ Check!ToSet(output[1].needs)' = Check!ToSet(output[1].needs)
    BY <1>1 DEF Check!ToSet
  <1> QED BY <1>1, <1>2, <1>3, <1>4 DEF FirstOutput

\* A binary looks where all do.
LEMMA WhereIs ==
    ASSUME CheckStage, Found, Second, NEW P, Common(P), NEW h \in Known, NEW m
    PROVE  Check!Where(h, m) = Check!FirstOf(P, m)
  <1>0. cmd \in CommandLines /\ run \in {1, 2}
    BY DEF CheckStage
  <1>1. cmd.from \in DOMAIN cmd.disk /\ cmd.to \in DOMAIN cmd.disk /\ cmd.main \in DOMAIN cmd.disk[cmd.from]
    BY <1>0, CommandTyped
  <1>2. \A x \in DOMAIN cmd.disk : Copy(cmd.main).paths[x] = P
    BY <1>1 DEF Common, Copy
  <1>3. CASE h \in Check!Names
    BY <1>3, NamesAre DEF Common, Check!Where
  <1>4. CASE h = Check!Main /\ run = 1
    BY <1>1, <1>2, <1>4, BinIs DEF Check!Where, Copy
  <1>5. CASE h = Check!Main /\ run = 2
    <2>1. Check!Bin(h) = output[1] /\ Check!Here(h) = cmd.to
      BY <1>5, BinIs
    <2>2. output[1].paths = Copy(cmd.main).paths
      BY <1>5 DEF Second, FirstOutput
    <2> QED BY <1>1, <1>2, <2>1, <2>2 DEF Check!Where
  <1> QED BY <1>0, <1>3, <1>4, <1>5 DEF Known

\* When the second link has found what the first one did, it needs no more.
LEMMA AllLoadedBefore ==
    ASSUME CheckStage, Found, Second, run = 2, Same, NEW h \in Known
    PROVE  /\ Check!ToSet(Check!Bin(h).needs) \subseteq FirstNames /\ Check!Bin(h).expands
           /\ h # Check!Main => h \in FirstNames /\ Check!Bin(h) = Copy(h)
  <1>1. CASE h = Check!Main
    BY <1>1, BinIs DEF Second, FirstOutput
  <1>2. CASE h \in Check!Names
    <2>1. h \in FirstNames /\ libraries[2][h] = libraries[1][h]
      BY <1>2, BinIs DEF Same
    <2>2. Check!Bin(h) = cmd.disk[libraries[1][h]][h]
      BY <1>2, <2>1, NamesAre
    <2>3. Check!Bin(h) = Copy(h)
      BY <2>1, <2>2, CopyTyped
    <2> QED BY <1>2, <2>1, <2>3, NamesAre DEF Second, FirstOutput
  <1> QED BY <1>1, <1>2 DEF Known


\* Nothing is loaded.
LEMMA CheckInit == Check!Init => CheckInv
  <1> SUFFICES ASSUME Check!Init PROVE CheckInv
    OBVIOUS
  <1>1. /\ cmd \in CommandLines /\ run = 1 /\ label = "construct" /\ queue = <<>>
        /\ libraries = [r \in 1..2 |-> <<>>]
        /\ TLSMemSize_s = 0 /\ TLSFileSize_s = 0 /\ EHFrameSize_s = 0 /\ output = <<>>
    BY DEF Check!Init
  <1>2. CheckStage /\ Second /\ Relinked /\ Filed
    BY <1>1 DEF CheckStage, Second, Relinked, Filed, Check!Labels
  <1>3. DOMAIN <<>> = {} /\ IsFiniteSet({})
    BY FS_EmptySet
  <1>4. libraries[1] = <<>> /\ libraries[2] = <<>> /\ Check!Names = {}
    BY <1>1, <1>3, BinIs
  <1>5. Found
    BY <1>1, <1>3, <1>4 DEF Found
  <1>6. Loaded
    BY <1>1, <1>4 DEF Loaded
  <1>7. OnPath
    BY <1>1, <1>3, <1>4 DEF OnPath
  <1>8. Sized /\ Versioned
    BY <1>1 DEF Sized, Versioned, TLSMemBefore, TLSFileBefore, EHFrameBefore
  <1>9. Verdict
    BY <1>1 DEF Verdict, Check!FirstLinkSucceeds, Check!PassMeansSame, Check!FailsOnlyForThreeReasons
  <1> QED BY <1>2, <1>5, <1>6, <1>7, <1>8, <1>9 DEF CheckInv

\* What is placed, and what is found, stays so.
LEMMA OnPathKept ==
    ASSUME OnPath, UNCHANGED <<cmd, libraries>>, run' = 2 => run = 2 \/ DOMAIN libraries[2] = {}
    PROVE  OnPath'
  <1>1. \A P : Common(P)' <=> Common(P)
    BY DEF Common
  <1>2. \A P, n : Check!FirstOf(P, n)' = Check!FirstOf(P, n)
    BY DEF Check!FirstOf
  <1>3. Same' <=> Same
    BY DEF Same, FirstNames
  <1>4. DOMAIN libraries[2] = {} => Same
    BY DEF Same
  <1> QED BY <1>1, <1>2, <1>3, <1>4 DEF OnPath

LEMMA FoundKept ==
    ASSUME Found, UNCHANGED <<cmd, libraries>>, run' = 1 => run = 1
    PROVE  Found'
  BY DEF Found

\* The constructor loads the main binary.
LEMMA StepConstruct == CheckInv /\ Check!Construct => CheckInv'
  <1> SUFFICES ASSUME CheckInv, Check!Construct PROVE CheckInv'
    OBVIOUS
  <1>0. CheckStage /\ Found /\ Loaded /\ Filed /\ Second /\ OnPath /\ Relinked /\ Sized /\ Versioned /\ Verdict
    BY DEF CheckInv
  <1> DEFINE M == Check!Main
             soname == [n \in {M} |-> Check!Bin(n).soname]
  <1>1. /\ label = "construct" /\ label' = "resolve" /\ queue' = <<M>>
        /\ file_of' = Check!Register(<<>>, <<M>>, soname)
        /\ UNCHANGED <<cmd, run, libraries, TLSMemSize_s, TLSFileSize_s, EHFrameSize_s, output>>
    BY DEF Check!Construct, Check!Goto, Check!statics
  <1>2. CheckStage'
    BY <1>0, <1>1 DEF CheckStage, Check!Labels
  <1>3. /\ Check!Main' = M /\ Check!Names' = Check!Names /\ Known' = Known
        /\ (\A n : Check!Bin(n)' = Check!Bin(n)) /\ Check!link_binaries' = Check!link_binaries
        /\ TLSMemBefore' = TLSMemBefore /\ TLSFileBefore' = TLSFileBefore /\ EHFrameBefore' = EHFrameBefore
    BY <1>0, <1>1, StateKept
  <1>4. Check!Names = {} /\ Known = {M}
    BY <1>0, <1>1 DEF Loaded, Known
  <1>5. Check!ToSet(<<M>>) = {M} /\ <<M>> \in Seq({M})
    BY MembersAre
  <1> HIDE DEF M
  <1>6. Loaded'
    <2>1. Check!ToSet(queue)' = {M}
      BY <1>1, <1>5 DEF Check!ToSet
    <2>2. queue' \in Seq(Known')
      BY <1>1, <1>3, <1>4, <1>5
    <2>3. \A n \in Known' : n \in Check!ToSet(queue)'
      BY <1>3, <1>4, <2>1
    <2> QED BY <1>1, <2>2, <2>3 DEF Loaded
  <1>7. Filed'
    <2> DEFINE named == Sonames(<<M>>, soname)
    <2>1. \A s : s \in named <=> s = Check!Bin(M).soname /\ s # Check!NoSoname
      BY <1>5 DEF Sonames
    <2>2. /\ DOMAIN file_of' = DOMAIN <<>> \cup named
          /\ \A s \in named : file_of'[s] \in Check!ToSet(<<M>>)
      <3> HIDE DEF soname
      <3>1. WithFiles(Check!Register(<<>>, <<M>>, soname), <<>>, <<M>>, soname)
        BY <1>5, RegisterGives
      <3> QED BY <1>1, <3>1 DEF WithFiles
    <2>3. DOMAIN <<>> = {}
      OBVIOUS
    <2> HIDE DEF named
    <2>4. \A s \in DOMAIN file_of' : s = Check!Bin(M).soname /\ s # Check!NoSoname /\ file_of'[s] = M
      BY <1>5, <2>1, <2>2, <2>3
    <2>5. Check!Bin(M).soname # Check!NoSoname => Check!Bin(M).soname \in DOMAIN file_of'
      BY <2>1, <2>2
    <2>6. Check!NoSoname' = Check!NoSoname
      BY DEF Check!NoSoname
    <2> QED BY <1>1, <1>3, <1>4, <2>4, <2>5, <2>6 DEF Filed
  <1>8. Second'
    BY <1>0, <1>1, FirstOutputKept DEF Second
  <1>9. Relinked'
    <2>1. Check!link_binaries' = {Check!Main'}
      BY <1>3, <1>4 DEF Check!link_binaries, M
    <2> QED BY <2>1 DEF Relinked
  <1>10. Sized' /\ Versioned'
    BY <1>0, <1>1, <1>3 DEF Sized, Versioned
  <1>11. Verdict'
    BY <1>1 DEF Verdict, Check!FirstLinkSucceeds, Check!PassMeansSame, Check!FailsOnlyForThreeReasons
  <1>12. Found' /\ OnPath'
    BY <1>0, <1>1, FoundKept, OnPathKept
  <1> QED BY <1>2, <1>6, <1>7, <1>8, <1>9, <1>10, <1>11, <1>12 DEF CheckInv


\* The directory found has the library.
LEMMA FirstOfGives ==
    ASSUME NEW dirs \in Seq(DOMAIN cmd.disk), NEW m, Check!FirstOf(dirs, m) # Check!Nowhere
    PROVE  Check!FirstOf(dirs, m) \in DOMAIN cmd.disk /\ m \in DOMAIN cmd.disk[Check!FirstOf(dirs, m)]
  <1> DEFINE hits == {k \in DOMAIN dirs : m \in DOMAIN cmd.disk[dirs[k]]}
  <1>1. hits # {} /\ Check!FirstOf(dirs, m) = dirs[Check!Min(hits)]
    BY DEF Check!FirstOf
  <1>2. DOMAIN dirs \subseteq Nat /\ \A k \in DOMAIN dirs : dirs[k] \in DOMAIN cmd.disk
    OBVIOUS
  <1>3. hits \subseteq Nat /\ \A k \in hits : dirs[k] \in DOMAIN cmd.disk /\ m \in DOMAIN cmd.disk[dirs[k]]
    BY <1>2
  <1> HIDE DEF hits
  <1>4. \E k \in hits : \A l \in hits : k <= l
    BY <1>1, <1>3, LeastNatural
  <1>5. Check!Min(hits) \in hits
    BY <1>4 DEF Check!Min
  <1> QED BY <1>1, <1>3, <1>5

\* So has the one where a binary finds it.
LEMMA WhereGives ==
    ASSUME CheckStage, Found, Second, NEW h \in Known, NEW m, Check!Where(h, m) # Check!Nowhere
    PROVE  Check!Where(h, m) \in DOMAIN cmd.disk /\ m \in DOMAIN cmd.disk[Check!Where(h, m)]
  <1>0. cmd \in CommandLines /\ run \in {1, 2}
    BY DEF CheckStage
  <1>1. /\ cmd.from \in DOMAIN cmd.disk /\ cmd.to \in DOMAIN cmd.disk /\ cmd.main \in DOMAIN cmd.disk[cmd.from]
        /\ \A d \in DOMAIN cmd.disk : \A n \in DOMAIN cmd.disk[d] :
              cmd.disk[d][n].paths \in [DOMAIN cmd.disk -> Seq(DOMAIN cmd.disk)]
    BY <1>0, CommandTyped
  <1>2. Check!Bin(h).paths[Check!Here(h)] \in Seq(DOMAIN cmd.disk)
    <2>1. CASE h \in Check!Names
      BY <1>1, <2>1, NamesAre
    <2>2. CASE h = Check!Main /\ run = 1
      BY <1>1, <2>2, BinIs
    <2>3. CASE h = Check!Main /\ run = 2
      <3>1. Check!Bin(h).paths = Copy(cmd.main).paths /\ Check!Here(h) = cmd.to
        BY <2>3, BinIs DEF Second, FirstOutput
      <3>2. Copy(cmd.main).paths \in [DOMAIN cmd.disk -> Seq(DOMAIN cmd.disk)]
        BY CopyTyped
      <3> QED BY <1>1, <3>1, <3>2
    <2> QED BY <1>0, <2>1, <2>2, <2>3 DEF Known
  <1> QED BY <1>2, FirstOfGives DEF Check!Where


\* When the second link aborts in the search, something is not where it was.
LEMMA AbortsMisplaced ==
    ASSUME CheckStage, Found, Second, run = 2, queue # <<>>, Head(queue) \in Known,
           \/ ~Check!Bin(Head(queue)).expands
           \/ \E m \in Check!ToSet(Check!Bin(Head(queue)).needs) \ Check!Names :
                 ~Check!Loadable(Check!Where(Head(queue), m), m)
    PROVE  Check!Misplaced
  <1> DEFINE h == Head(queue)
  <1>1. CASE ~Same
    <2>1. PICK n \in DOMAIN libraries[2] : ~(n \in FirstNames /\ libraries[2][n] = libraries[1][n])
      BY <1>1 DEF Same
    <2>2. libraries[2][n] # Check!Nowhere
      BY CommandTyped DEF Found, CheckStage
    <2>3. libraries[2][n] # Check!Before(n)
      BY <2>1, <2>2 DEF Check!Before, FirstNames
    <2> QED BY <2>3 DEF Check!Misplaced
  <1>2. CASE Same
    <2>1. Check!ToSet(Check!Bin(h).needs) \subseteq FirstNames /\ Check!Bin(h).expands
      BY <1>2, AllLoadedBefore
    <2>2. PICK m \in Check!ToSet(Check!Bin(h).needs) \ Check!Names : ~Check!Loadable(Check!Where(h, m), m)
      BY <2>1
    <2>3. m \in FirstNames /\ Check!Before(m) = libraries[1][m]
      BY <2>1, <2>2 DEF Check!Before, FirstNames
    <2>4. Check!Loadable(libraries[1][m], m)
      BY <2>3, CopyTyped DEF Check!Loadable
    <2>5. Check!Where(h, m) # Check!Before(m)
      BY <2>2, <2>3, <2>4
    <2> QED BY <2>2, <2>5 DEF Check!Misplaced
  <1> QED BY <1>1, <1>2


\* Where a library is, and whether it is there, while nothing is loaded.
LEMMA MisplacedKept ==
    ASSUME CheckStage, UNCHANGED <<cmd, run, libraries, queue>>, run = 2 => output'[1] = output[1]
    PROVE  (Check!Misplaced' <=> Check!Misplaced) /\ (Check!Unlinkable' <=> Check!Unlinkable)
  <1>1. /\ Check!Main' = Check!Main /\ Check!Names' = Check!Names
        /\ (\A n : Check!Bin(n)' = Check!Bin(n)) /\ (\A n : Check!Here(n)' = Check!Here(n))
        /\ \A n : Check!ToSet(Check!Bin(n).needs)' = Check!ToSet(Check!Bin(n).needs)
    BY StateKept
  <1>2. \A P, n : Check!FirstOf(P, n)' = Check!FirstOf(P, n)
    BY DEF Check!FirstOf
  <1>3. \A h, n : Check!Where(h, n)' = Check!Where(h, n)
    BY <1>1, <1>2 DEF Check!Where
  <1>4. \A n : Check!Before(n)' = Check!Before(n)
    BY DEF Check!Before
  <1>5. \A d, n : Check!Loadable(d, n)' <=> Check!Loadable(d, n)
    BY DEF Check!Loadable
  <1>6. Check!Misplaced' <=> Check!Misplaced
    <2>1. Check!ToSet(Check!Bin(Head(queue)).needs)' = Check!ToSet(Check!Bin(Head(queue)).needs)
      BY <1>1
    <2> QED BY <1>1, <1>3, <1>4, <2>1 DEF Check!Misplaced
  <1>7. Check!Unlinkable' <=> Check!Unlinkable
    BY <1>1, <1>3, <1>5 DEF Check!Unlinkable
  <1> QED BY <1>6, <1>7

\* The front of the queue, and what is new of what it needs.
FrontIs(h, new) ==
    /\ h \in Known /\ queue \in Seq(Known)
    /\ new \in Seq(Check!ToSet(new)) /\ Check!ToSet(new) = Check!ToSet(Check!Bin(h).needs) \ Check!Names
    /\ cmd.main \notin Check!ToSet(new) /\ cmd.out \notin Check!ToSet(new) /\ Check!Main \notin Check!ToSet(new)
    /\ Tail(queue) \in Seq(Known) /\ Check!ToSet(queue) = {h} \cup Check!ToSet(Tail(queue))
    /\ IsFiniteSet(Check!ToSet(new))

LEMMA FrontGives ==
    ASSUME CheckInv, queue # <<>>
    PROVE  FrontIs(Head(queue), Check!NotLoaded(Check!Bin(Head(queue)).needs))
  <1> DEFINE h == Head(queue)
             neededs == Check!Bin(h).needs
             new == Check!NotLoaded(neededs)
  <1>1. CheckStage /\ Found /\ Loaded /\ Second
    BY DEF CheckInv
  <1>2. queue \in Seq(Known)
    BY <1>1 DEF Loaded
  <1>3. /\ h \in Known /\ Tail(queue) \in Seq(Known)
        /\ Check!ToSet(queue) = {h} \cup Check!ToSet(Tail(queue))
    BY <1>2, FrontOf
  <1>4. KnownBinary(Check!Bin(h))
    BY <1>1, <1>3, KnownTyped DEF KnownGood
  <1>5. /\ neededs \in Seq(Check!ToSet(neededs)) /\ cmd.main \notin Check!ToSet(neededs)
        /\ cmd.out \notin Check!ToSet(neededs)
    BY <1>4 DEF KnownBinary
  <1>6. new \in Seq(Check!ToSet(neededs)) /\ Check!ToSet(new) = Check!ToSet(neededs) \ Check!Names
    <2> HIDE DEF neededs
    <2> QED BY <1>5, NotLoadedGives
  <1> HIDE DEF new
  <1>7. new \in Seq(Check!ToSet(new)) /\ IsFiniteSet(Check!ToSet(new))
    BY <1>6, OwnMembers, ListedFinite
  <1>8. Check!Main \notin Check!ToSet(new)
    BY <1>5, <1>6, BinIs
  <1> HIDE DEF h
  <1>9. FrontIs(h, new)
    BY <1>2, <1>3, <1>5, <1>6, <1>7, <1>8 DEF FrontIs
  <1> QED BY <1>9 DEF h, new

\* The front h was visited: its new libraries are in dir, and lib are the
\* libraries of this link, now.
Visits(h, new, dir, lib, soname) ==
    /\ label = "resolve" /\ label' = "resolve" /\ queue # <<>> /\ h = Head(queue) /\ FrontIs(h, new)
    /\ \A m \in Check!ToSet(new) : dir[m] = Check!Where(h, m) /\ Check!Loadable(dir[m], m)
    /\ Check!Bin(h).expands
    /\ DOMAIN lib = Check!Names \cup Check!ToSet(new)
    /\ \A m \in Check!Names : lib[m] = libraries[run][m]
    /\ \A m \in Check!ToSet(new) : lib[m] = dir[m] /\ soname[m] = cmd.disk[dir[m]][m].soname
    /\ libraries' = [libraries EXCEPT ![run] = lib]
    /\ queue' = Tail(queue) \o new
    /\ file_of' = Check!Register(file_of, new, soname)
    /\ UNCHANGED <<cmd, run, TLSMemSize_s, TLSFileSize_s, EHFrameSize_s, output>>

LEMMA StepVisit ==
    ASSUME CheckInv, NEW h, NEW new, NEW dir, NEW lib, NEW soname, Visits(h, new, dir, lib, soname)
    PROVE  CheckInv'
  <1> DEFINE S == Check!ToSet(new)
             M == Check!Main
             N == Check!Names
  <1> USE DEF Visits
  <1> label = "resolve" /\ label' = "resolve" /\ queue # <<>> /\ h = Head(queue) /\ FrontIs(h, new)
    OBVIOUS
  <1> \A m \in Check!ToSet(new) : dir[m] = Check!Where(h, m) /\ Check!Loadable(dir[m], m)
    OBVIOUS
  <1> Check!Bin(h).expands
    OBVIOUS
  <1> DOMAIN lib = Check!Names \cup Check!ToSet(new) /\ \A m \in Check!Names : lib[m] = libraries[run][m]
    OBVIOUS
  <1> \A m \in Check!ToSet(new) : lib[m] = dir[m] /\ soname[m] = cmd.disk[dir[m]][m].soname
    OBVIOUS
  <1> libraries' = [libraries EXCEPT ![run] = lib]
    OBVIOUS
  <1> queue' = Tail(queue) \o new /\ file_of' = Check!Register(file_of, new, soname)
    OBVIOUS
  <1> UNCHANGED <<cmd, run, TLSMemSize_s, TLSFileSize_s, EHFrameSize_s, output>>
    OBVIOUS
  <1> HIDE DEF Visits
  <1>0. CheckStage /\ Found /\ Loaded /\ Filed /\ Second /\ OnPath /\ Relinked /\ Sized /\ Versioned /\ Verdict
    BY DEF CheckInv
  <1>1. run \in 1..2 /\ libraries = [r \in 1..2 |-> libraries[r]] /\ N = DOMAIN libraries[run] /\ cmd \in CommandLines
    BY <1>0, BinIs DEF CheckStage, Found
  <1>2. S \cap N = {} /\ cmd.main \notin S /\ cmd.out \notin S /\ M \notin S
        /\ S = Check!ToSet(Check!Bin(h).needs) \ N /\ h \in Known /\ IsFiniteSet(S)
    BY DEF FrontIs
  <1>3. ASSUME NEW m \in S
        PROVE  /\ dir[m] = Check!Where(h, m) /\ dir[m] \in DOMAIN cmd.disk /\ m \in DOMAIN cmd.disk[dir[m]]
               /\ cmd.disk[dir[m]][m].soname # Check!NoSoname
    <2>1. dir[m] = Check!Where(h, m) /\ dir[m] # Check!Nowhere /\ cmd.disk[dir[m]][m].soname # Check!NoSoname
      BY DEF Check!Loadable
    <2> QED BY <1>0, <1>2, <2>1, WhereGives
  <1>4. /\ libraries' = [r \in 1..2 |-> libraries'[r]] /\ DOMAIN libraries'[run] = N \cup S
        /\ (\A m \in N : libraries'[run][m] = libraries[run][m]) /\ (\A m \in S : libraries'[run][m] = dir[m])
        /\ \A r \in 1..2 : r # run => libraries'[r] = libraries[r]
    <2> libraries'[run] = lib /\ (\A r \in 1..2 : r # run => libraries'[r] = libraries[r])
        /\ libraries' = [r \in 1..2 |-> libraries'[r]]
      BY <1>1
    <2> QED OBVIOUS
  <1>5. M' = M /\ Check!Names' = N \cup S /\ Known' = Known \cup S
    <2>1. M' = M
      BY DEF Check!Main
    <2>2. Check!Names' = N \cup S
      BY <1>4 DEF Check!Names
    <2> QED BY <2>1, <2>2 DEF Known
  <1>6. \A n \in Known : Check!Bin(n)' = Check!Bin(n) /\ Check!ToSet(Check!Bin(n).needs)' = Check!ToSet(Check!Bin(n).needs)
    <2>1. \A n \in Known : Check!Here(n)' = Check!Here(n)
      BY <1>4, <1>5 DEF Check!Here, Known
    <2>2. \A n \in Known : Check!Bin(n)' = Check!Bin(n)
      BY <1>5, <2>1 DEF Check!Bin
    <2> QED BY <2>2 DEF Check!ToSet
  <1>7. \A n \in S : Check!Bin(n)' = cmd.disk[dir[n]][n]
    <2>1. \A n \in S : Check!Here(n)' = dir[n]
      BY <1>2, <1>4, <1>5 DEF Check!Here
    <2>2. \A n \in S : n # M'
      BY <1>2, <1>5
    <2> QED BY <2>1, <2>2 DEF Check!Bin
  <1> HIDE DEF S, M, N
  <1>8. CheckStage'
    BY <1>0 DEF CheckStage, Check!Labels
  <1>9. Found'
    <2>1. ASSUME NEW r \in 1..2
          PROVE  /\ IsFiniteSet(DOMAIN libraries'[r]) /\ cmd.main \notin DOMAIN libraries'[r]
                 /\ cmd.out \notin DOMAIN libraries'[r]
                 /\ \A n \in DOMAIN libraries'[r] :
                       /\ libraries'[r][n] \in DOMAIN cmd.disk /\ n \in DOMAIN cmd.disk[libraries'[r][n]]
                       /\ cmd.disk[libraries'[r][n]][n].soname # Check!NoSoname
      <3>1. /\ IsFiniteSet(DOMAIN libraries[r]) /\ cmd.main \notin DOMAIN libraries[r]
            /\ cmd.out \notin DOMAIN libraries[r]
            /\ \A n \in DOMAIN libraries[r] :
                  /\ libraries[r][n] \in DOMAIN cmd.disk /\ n \in DOMAIN cmd.disk[libraries[r][n]]
                  /\ cmd.disk[libraries[r][n]][n].soname # Check!NoSoname
        BY <1>0 DEF Found
      <3>2. CASE r # run
        BY <1>4, <3>1, <3>2
      <3>3. CASE r = run
        <4>1. IsFiniteSet(N \cup S)
          BY <1>1, <1>2, <3>1, <3>3, FS_Union
        <4>2. DOMAIN libraries'[r] = N \cup S /\ N = DOMAIN libraries[r]
          BY <1>1, <1>4, <3>3
        <4>3. cmd.main \notin N \cup S /\ cmd.out \notin N \cup S
          BY <1>2, <3>1, <4>2
        <4>4. ASSUME NEW n \in N
              PROVE  /\ libraries'[r][n] \in DOMAIN cmd.disk /\ n \in DOMAIN cmd.disk[libraries'[r][n]]
                     /\ cmd.disk[libraries'[r][n]][n].soname # Check!NoSoname
          <5>1. libraries'[r][n] = libraries[r][n]
            BY <1>4, <3>3
          <5> QED BY <3>1, <4>2, <5>1
        <4>5. ASSUME NEW n \in S
              PROVE  /\ libraries'[r][n] \in DOMAIN cmd.disk /\ n \in DOMAIN cmd.disk[libraries'[r][n]]
                     /\ cmd.disk[libraries'[r][n]][n].soname # Check!NoSoname
          <5>1. libraries'[r][n] = dir[n]
            BY <1>4, <3>3
          <5> QED BY <1>3, <5>1
        <4>6. /\ IsFiniteSet(DOMAIN libraries'[r])
              /\ cmd.main \notin DOMAIN libraries'[r] /\ cmd.out \notin DOMAIN libraries'[r]
          BY <4>1, <4>2, <4>3
        <4>7. ASSUME NEW n \in DOMAIN libraries'[r]
              PROVE  /\ libraries'[r][n] \in DOMAIN cmd.disk /\ n \in DOMAIN cmd.disk[libraries'[r][n]]
                     /\ cmd.disk[libraries'[r][n]][n].soname # Check!NoSoname
          <5>1. n \in N \/ n \in S
            BY <4>2
          <5> QED BY <4>4, <4>5, <5>1
        <4> QED BY <4>6, <4>7
      <3> QED BY <3>2, <3>3
    <2>2. run = 1 => libraries'[2] = <<>>
      BY <1>0, <1>4 DEF Found
    <2>3. Check!NoSoname' = Check!NoSoname /\ cmd' = cmd /\ run' = run
      BY DEF Check!NoSoname
    <2>4. libraries' = [r \in 1..2 |-> libraries'[r]]
      BY <1>4
    <2>5. \A r \in 1..2 :
             /\ IsFiniteSet(DOMAIN libraries'[r]) /\ cmd'.main \notin DOMAIN libraries'[r]
             /\ cmd'.out \notin DOMAIN libraries'[r]
             /\ \A n \in DOMAIN libraries'[r] :
                   /\ libraries'[r][n] \in DOMAIN cmd'.disk /\ n \in DOMAIN cmd'.disk[libraries'[r][n]]
                   /\ cmd'.disk[libraries'[r][n]][n].soname # Check!NoSoname'
      BY <2>1, <2>3
    <2> QED BY <2>2, <2>3, <2>4, <2>5, Zenon DEF Found
  <1>10. queue' \in Seq(Known') /\ Check!ToSet(queue)' = Check!ToSet(Tail(queue)) \cup S
    <2> DEFINE rest == Tail(queue)
               all == Known \cup S
    <2>1. rest \in Seq(Known) /\ new \in Seq(S)
      BY DEF FrontIs, S
    <2> HIDE DEF rest
    <2>2. rest \in Seq(all) /\ new \in Seq(all)
      BY <2>1, SeqMonotonic
    <2> HIDE DEF all
    <2>3. rest \o new \in Seq(all) /\ Check!ToSet(rest \o new) = Check!ToSet(rest) \cup Check!ToSet(new)
      BY <2>2, JoinedMembers
    <2>4. Check!ToSet(queue)' = Check!ToSet(queue')
      BY Zenon DEF Check!ToSet
    <2> QED BY <1>5, <2>3, <2>4 DEF rest, all, S
  <1>11. Loaded'
    <2>1. ASSUME NEW n \in Known' PROVE n \in Check!ToSet(queue)' \/ Visited(n)'
      <3>1. CASE n \in S
        BY <1>10, <3>1
      <3>2. CASE n = h
        <4>1. Check!Bin(n)' = Check!Bin(n) /\ Check!ToSet(Check!Bin(n).needs)' = Check!ToSet(Check!Bin(n).needs)
          BY <1>2, <1>6, <3>2
        <4>2. Check!ToSet(Check!Bin(n).needs) \subseteq N \cup S
          BY <1>2, <3>2
        <4> QED BY <1>5, <3>2, <4>1, <4>2 DEF Visited
      <3>3. CASE n \in Known /\ n # h
        <4>1. n \in Check!ToSet(queue) \/ Visited(n)
          BY <1>0, <3>3 DEF Loaded
        <4>2. Check!ToSet(queue) = {h} \cup Check!ToSet(Tail(queue))
          BY DEF FrontIs
        <4>3. Visited(n) => Visited(n)'
          BY <1>5, <1>6, <3>3 DEF Visited, N
        <4> QED BY <1>10, <3>3, <4>1, <4>2, <4>3
      <3> QED BY <1>5, <3>1, <3>2, <3>3
    <2> QED BY <1>10, <2>1 DEF Loaded
  <1>12. Second'
    BY <1>0, <1>1, <1>4, FirstOutputKept DEF Second
  <1>13. Filed'
    <2> DEFINE named == Sonames(new, soname)
    <2>1. /\ DOMAIN file_of' = DOMAIN file_of \cup named
          /\ \A s \in DOMAIN file_of \ named : file_of'[s] = file_of[s]
          /\ \A s \in named : file_of'[s] \in S /\ soname[file_of'[s]] = s
      <3>1. new \in Seq(S) /\ file_of' = Check!Register(file_of, new, soname)
        BY DEF FrontIs, S
      <3>2. WithFiles(Check!Register(file_of, new, soname), file_of, new, soname)
        BY <3>1, RegisterGives
      <3> QED BY <3>1, <3>2 DEF WithFiles, S
    <2>2. \A n \in S : soname[n] = Check!Bin(n)' .soname /\ soname[n] # Check!NoSoname
      BY <1>3, <1>7 DEF S
    <2>3. \A s : s \in named <=> \E n \in S : s = soname[n]
      BY <2>2 DEF Sonames, S
    <2>4. /\ \A n \in Known : Check!Bin(n).soname # Check!NoSoname =>
                Check!Bin(n).soname \in DOMAIN file_of /\ file_of[Check!Bin(n).soname] = n
          /\ \A s \in DOMAIN file_of :
                file_of[s] \in Known /\ Check!Bin(file_of[s]).soname = s /\ s # Check!NoSoname
      BY <1>0 DEF Filed
    <2>5. (\A n, m \in Known : Uniquely(n, m))'
      BY <1>8, <1>9, <1>12, KnownTypedNext DEF KnownGood
    <2>6. \A n, m \in Known' : Check!Bin(n)' .soname = Check!Bin(m)' .soname => m = n \/ Check!Bin(n)' .soname = Check!NoSoname
      BY <2>5, Zenon DEF Uniquely, Check!NoSoname
    <2> HIDE DEF named
    <2>7. ASSUME NEW n \in Known', Check!Bin(n)' .soname # Check!NoSoname
          PROVE  Check!Bin(n)' .soname \in DOMAIN file_of' /\ file_of'[Check!Bin(n)' .soname] = n
      <3> DEFINE s == Check!Bin(n)' .soname
      <3>1. CASE s \in named
        <4>1. PICK m \in S : file_of'[s] = m /\ soname[m] = s
          BY <2>1, <3>1
        <4>2. m \in Known' /\ Check!Bin(m)' .soname = s
          BY <1>5, <2>2, <4>1
        <4> QED BY <2>1, <2>6, <2>7, <3>1, <4>1, <4>2
      <3>2. CASE s \notin named
        <4>1. n \in Known
          BY <1>5, <2>2, <2>3, <3>2
        <4>2. s = Check!Bin(n).soname
          BY <1>6, <4>1
        <4> QED BY <2>1, <2>4, <2>7, <3>2, <4>1, <4>2
      <3> QED BY <3>1, <3>2
    <2>8. ASSUME NEW s \in DOMAIN file_of'
          PROVE  \E n \in Known' : file_of'[s] = n /\ Check!Bin(n)' .soname = s /\ s # Check!NoSoname
      <3>1. CASE s \in named
        BY <1>5, <2>1, <2>2, <3>1
      <3>2. CASE s \notin named
        <4>1. PICK n \in Known : file_of[s] = n /\ Check!Bin(n).soname = s /\ s # Check!NoSoname
          BY <2>1, <2>4, <3>2
        <4> QED BY <1>5, <1>6, <2>1, <3>2, <4>1
      <3> QED BY <3>1, <3>2
    <2>9. Check!NoSoname' = Check!NoSoname
      BY DEF Check!NoSoname
    <2>10. label' = "resolve"
      OBVIOUS
    <2> QED BY <2>7, <2>8, <2>9, <2>10, Zenon DEF Filed
  <1>14. OnPath'
    <2>1. SUFFICES ASSUME NEW P, Common(P)
                   PROVE  /\ \A r \in 1..2 : \A n \in DOMAIN libraries'[r] : libraries'[r][n] = Check!FirstOf(P, n)
                          /\ run = 2 => Same'
      <3>1. \A P : Common(P)' <=> Common(P)
        BY DEF Common
      <3>2. \A P, n : Check!FirstOf(P, n)' = Check!FirstOf(P, n)
        BY DEF Check!FirstOf
      <3> QED BY <2>1, <3>1, <3>2 DEF OnPath
    <2>2. \A r \in 1..2 : \A n \in DOMAIN libraries[r] : libraries[r][n] = Check!FirstOf(P, n)
      BY <1>0, <2>1 DEF OnPath
    <2>3. \A n \in S : dir[n] = Check!FirstOf(P, n)
      BY <1>0, <1>2, <1>3, <2>1, WhereIs
    <2>4. \A r \in 1..2 : \A n \in DOMAIN libraries'[r] : libraries'[r][n] = Check!FirstOf(P, n)
      <3>1. SUFFICES ASSUME NEW r \in 1..2, NEW n \in DOMAIN libraries'[r]
                     PROVE  libraries'[r][n] = Check!FirstOf(P, n)
        OBVIOUS
      <3>2. CASE r # run
        BY <1>4, <2>2, <3>1, <3>2
      <3>3. CASE r = run /\ n \in N
        BY <1>1, <1>4, <2>2, <3>3
      <3>4. CASE r = run /\ n \in S
        BY <1>4, <2>3, <3>4
      <3>5. r = run => n \in N \cup S
        BY <1>4, <3>1
      <3> QED BY <3>2, <3>3, <3>4, <3>5
    <2>5. ASSUME run = 2 PROVE Same'
      <3>1. Same
        BY <1>0, <2>1, <2>5 DEF OnPath
      <3>2. S \subseteq FirstNames
        BY <1>0, <1>2, <2>5, <3>1, AllLoadedBefore
      <3>3. \A n \in N \cup S : n \in FirstNames
        BY <1>1, <2>5, <3>1, <3>2 DEF Same
      <3>4. libraries'[1] = libraries[1] /\ FirstNames' = FirstNames
        BY <1>4, <2>5 DEF FirstNames
      <3>5. \A n \in DOMAIN libraries'[2] : libraries'[2][n] = Check!FirstOf(P, n) /\ n \in N \cup S
        BY <1>4, <2>4, <2>5
      <3>6. \A n \in FirstNames : libraries[1][n] = Check!FirstOf(P, n)
        BY <2>2 DEF FirstNames
      <3> QED BY <3>3, <3>4, <3>5, <3>6 DEF Same
    <2> QED BY <2>4, <2>5
  <1>15. Relinked'
    <2>0. run' = run /\ Check!Main' = M /\ Check!Names' = N \cup S
      BY <1>5 DEF M
    <2> DEFINE relinked == \/ Check!link_binaries' = {M}
                           \/ \E n \in (N \cup S) \ Check!link_binaries' :
                                 Check!ToSet(Check!Bin(n).needs)' \cap Check!link_binaries' # {}
    <2>1. SUFFICES ASSUME run = 2, Same' PROVE relinked
      BY <2>0, Zenon DEF Relinked
    <2>2. Same
      <3>1. FirstNames' = FirstNames /\ libraries'[1] = libraries[1]
        BY <1>4, <2>1 DEF FirstNames
      <3>2. \A n \in N \cup S : n \in FirstNames /\ libraries'[2][n] = libraries[1][n]
        BY <1>4, <2>1, <3>1 DEF Same
      <3>3. N = DOMAIN libraries[2] /\ \A n \in N : libraries'[2][n] = libraries[2][n]
        BY <1>1, <1>4, <2>1
      <3> QED BY <3>2, <3>3 DEF Same
    <2>3. /\ \A n : n \in Check!link_binaries <=> n = M \/ (n \in N /\ Check!ShouldLink(Check!Bin(n).soname))
          /\ \A n : n \in Check!link_binaries' <=> n = M \/ (n \in N \cup S /\ Check!ShouldLink(Check!Bin(n)' .soname))
      BY <1>5 DEF Check!link_binaries, Check!ShouldLink, M, N
    <2>4. \A n \in N : Check!Bin(n)' = Check!Bin(n) /\ Check!ToSet(Check!Bin(n).needs)' = Check!ToSet(Check!Bin(n).needs)
      BY <1>6 DEF Known, N
    <2>5. Check!link_binaries \subseteq Check!link_binaries' /\ N \ Check!link_binaries = N \ Check!link_binaries'
      BY <1>2, <2>3, <2>4
    <2>6. \/ Check!link_binaries = {M}
          \/ \E n \in N \ Check!link_binaries : Check!ToSet(Check!Bin(n).needs) \cap Check!link_binaries # {}
      BY <1>0, <2>1, <2>2 DEF Relinked, M, N
    <2>7. CASE \E n \in N \ Check!link_binaries : Check!ToSet(Check!Bin(n).needs) \cap Check!link_binaries # {}
      BY <2>4, <2>5, <2>7
    <2>8. CASE Check!link_binaries = {M}
      <3>1. CASE h = M
        <4>1. Check!Bin(M) = output[1]
          BY <2>1, BinIs DEF M
        <4>2. \A n \in Check!ToSet(output[1].needs) : n \in FirstNames /\ n \notin Inside
          BY <1>0, <2>1 DEF Second, FirstOutput
        <4>3. ASSUME NEW n \in S PROVE ~Check!ShouldLink(Check!Bin(n)' .soname)
          <5>1. n \in FirstNames /\ n \notin Inside /\ Copy(n) = cmd.disk[libraries[1][n]][n]
            BY <1>0, <1>2, <3>1, <4>1, <4>2, CopyTyped
          <5>2. n \in DOMAIN libraries'[2] /\ libraries'[1] = libraries[1] /\ libraries'[2][n] = dir[n]
            BY <1>4, <2>1
          <5>3. dir[n] = libraries[1][n]
            BY <2>1, <5>2 DEF Same
          <5>4. Check!Bin(n)' = Copy(n)
            BY <1>7, <5>1, <5>3
          <5> QED BY <5>1, <5>4 DEF Inside
        <4> QED BY <2>3, <2>4, <2>8, <4>3
      <3>2. CASE h # M
        <4>1. h \in N \ Check!link_binaries
          BY <1>2, <2>8, <3>2 DEF Known, M, N
        <4>2. h \in N \ Check!link_binaries' /\ Check!ToSet(Check!Bin(h).needs)' = Check!ToSet(Check!Bin(h).needs)
          BY <2>4, <2>5, <4>1
        <4>3. CASE \E n \in S : n \in Check!link_binaries'
          BY <1>2, <4>2, <4>3
        <4>4. CASE ~ \E n \in S : n \in Check!link_binaries'
          BY <2>3, <2>4, <2>8, <4>4
        <4> QED BY <4>3, <4>4
      <3> QED BY <3>1, <3>2
    <2> QED BY <2>6, <2>7, <2>8
  <1>16. Sized' /\ Versioned'
    <2>1. TLSMemBefore' = TLSMemBefore /\ TLSFileBefore' = TLSFileBefore /\ EHFrameBefore' = EHFrameBefore
      BY DEF TLSMemBefore, TLSFileBefore, EHFrameBefore
    <2> QED BY <1>0, <2>1 DEF Sized, Versioned
  <1>17. Verdict'
    BY DEF Verdict, Check!FirstLinkSucceeds, Check!PassMeansSame, Check!FailsOnlyForThreeReasons
  <1> QED BY <1>8, <1>9, <1>11, <1>12, <1>13, <1>14, <1>15, <1>16, <1>17 DEF CheckInv


\* The second link has found something else.
LEMMA NotSame == ASSUME CheckStage, Found, ~Same PROVE Check!Misplaced
  <1>1. PICK n \in DOMAIN libraries[2] : ~(n \in FirstNames /\ libraries[2][n] = libraries[1][n])
    BY DEF Same
  <1>2. libraries[2][n] # Check!Nowhere
    BY CommandTyped DEF Found, CheckStage
  <1>3. libraries[2][n] # Check!Before(n)
    BY <1>1, <1>2 DEF Check!Before, FirstNames
  <1> QED BY <1>3 DEF Check!Misplaced

\* A step that goes to a label.
LEMMA OnlyLabel ==
    ASSUME CheckInv, label \notin {"construct", "done"}, label' \in Check!Labels \ {"construct", "done"},
           label' \notin {"resolve", "aborted"} => queue = <<>>,
           UNCHANGED <<cmd, run, queue, libraries, file_of, output>>
    PROVE  CheckStage' /\ Found' /\ Loaded' /\ Filed' /\ Second' /\ OnPath' /\ Relinked'
  <1>0. CheckStage /\ Found /\ Loaded /\ Filed /\ Second /\ OnPath /\ Relinked
    BY DEF CheckInv
  <1>1. CheckStage'
    BY <1>0 DEF CheckStage
  <1>2. /\ Check!Main' = Check!Main /\ Check!Names' = Check!Names /\ Known' = Known
        /\ Check!link_binaries' = Check!link_binaries /\ (\A n : Check!Bin(n)' = Check!Bin(n))
        /\ \A n : Check!ToSet(Check!Bin(n).needs)' = Check!ToSet(Check!Bin(n).needs)
    BY <1>0, StateKept
  <1>3. Check!ToSet(queue)' = Check!ToSet(queue)
    BY DEF Check!ToSet
  <1>4. Loaded'
    <2>1. \A n : Visited(n)' <=> Visited(n)
      BY <1>2 DEF Visited
    <2>2. \A n \in Known : n \in Check!ToSet(queue) \/ Visited(n)
      BY <1>0 DEF Loaded
    <2>3. queue' \in Seq(Known')
      BY <1>0, <1>2 DEF Loaded
    <2>4. \A n \in Known' : n \in Check!ToSet(queue)' \/ Visited(n)'
      BY <1>2, <1>3, <2>1, <2>2
    <2> QED BY <2>3, <2>4 DEF Loaded
  <1>5. Filed'
    <2>1. Check!NoSoname' = Check!NoSoname
      BY DEF Check!NoSoname
    <2> QED BY <1>0, <1>2, <2>1 DEF Filed
  <1>6. Second'
    BY <1>0, FirstOutputKept DEF Second
  <1>7. Found' /\ OnPath'
    BY <1>0, FoundKept, OnPathKept
  <1>8. Relinked'
    <2>1. Same' <=> Same
      BY DEF Same, FirstNames
    <2> QED BY <1>0, <1>2, <2>1 DEF Relinked
  <1> QED BY <1>1, <1>4, <1>5, <1>6, <1>7, <1>8

\* The front of the queue was visited, or not.
LEMMA StepResolve == CheckInv /\ Check!ResolveLibrary => CheckInv'
  <1> SUFFICES ASSUME CheckInv, Check!ResolveLibrary PROVE CheckInv'
    OBVIOUS
  <1> DEFINE h == Head(queue)
             new == Check!NotLoaded(Check!Bin(h).needs)
             S == Check!ToSet(new)
             dir == [m \in S |-> Check!Where(h, m)]
             lib == [m \in Check!Names \cup S |-> IF m \in Check!Names THEN libraries[run][m] ELSE dir[m]]
             soname == [m \in S |-> cmd.disk[dir[m]][m].soname]
             good == Check!Bin(h).expands /\ \A m \in S : Check!Loadable(dir[m], m)
  <1>0. CheckStage /\ Found /\ Loaded /\ Filed /\ Second /\ OnPath /\ Relinked /\ Sized /\ Versioned /\ Verdict
    BY DEF CheckInv
  <1>1. /\ label = "resolve" /\ queue # <<>>
        /\ UNCHANGED <<cmd, run, TLSMemSize_s, TLSFileSize_s, EHFrameSize_s, output>>
        /\ IF good
           THEN /\ libraries' = [libraries EXCEPT ![run] =
                       [m \in Check!Names \cup S |-> IF m \in Check!Names THEN @[m] ELSE dir[m]]]
                /\ queue' = Tail(queue) \o new /\ file_of' = Check!Register(file_of, new, soname)
                /\ label' = label
           ELSE label' = "aborted" /\ UNCHANGED <<queue, libraries, file_of>>
    BY DEF Check!ResolveLibrary, Check!Goto, Check!statics
  <1>2. FrontIs(h, new)
    BY <1>1, FrontGives
  <1>3. h \in Known /\ S = Check!ToSet(Check!Bin(h).needs) \ Check!Names
    BY <1>2 DEF FrontIs
  <1>4. CASE good
    <2>1. /\ libraries' = [libraries EXCEPT ![run] = lib] /\ queue' = Tail(queue) \o new
          /\ file_of' = Check!Register(file_of, new, soname) /\ label' = label
      BY <1>1, <1>4
    <2>2. S \cap Check!Names = {}
      BY <1>3
    <2> HIDE DEF S, h
    <2>3. \A m \in S : dir[m] = Check!Where(h, m)
      OBVIOUS
    <2>4. \A m \in S : soname[m] = cmd.disk[dir[m]][m].soname
      OBVIOUS
    <2> HIDE DEF dir, soname
    <2>5. DOMAIN lib = Check!Names \cup S
      OBVIOUS
    <2>6. \A m \in Check!Names : lib[m] = libraries[run][m]
      OBVIOUS
    <2>7. \A m \in S : lib[m] = dir[m]
      BY <2>2
    <2>8. \A m \in S : Check!Loadable(dir[m], m)
      BY <1>4
    <2>9. Check!Bin(h).expands
      BY <1>4
    <2>10. h = Head(queue)
      BY DEF h
    <2>11. /\ label = "resolve" /\ label' = "resolve" /\ queue # <<>>
           /\ UNCHANGED <<cmd, run, TLSMemSize_s, TLSFileSize_s, EHFrameSize_s, output>>
      BY <1>1, <2>1
    <2>12. S = Check!ToSet(new)
      BY DEF S
    <2> HIDE DEF lib, good, new
    <2>13. \A m \in Check!ToSet(new) : dir[m] = Check!Where(h, m) /\ Check!Loadable(dir[m], m)
      BY <2>3, <2>8, <2>12
    <2>14. DOMAIN lib = Check!Names \cup Check!ToSet(new)
      BY <2>5, <2>12
    <2>15. \A m \in Check!ToSet(new) : lib[m] = dir[m] /\ soname[m] = cmd.disk[dir[m]][m].soname
      BY <2>4, <2>7, <2>12
    <2>16. Visits(h, new, dir, lib, soname)
      BY <1>2, <2>1, <2>6, <2>9, <2>10, <2>11, <2>13, <2>14, <2>15 DEF Visits
    <2> QED BY <2>16, StepVisit, Zenon
  <1>5. CASE ~good
    <2>1. label' = "aborted" /\ UNCHANGED <<queue, libraries, file_of>>
      BY <1>1, <1>5
    <2>2. \/ ~Check!Bin(h).expands
          \/ \E m \in Check!ToSet(Check!Bin(h).needs) \ Check!Names : ~Check!Loadable(Check!Where(h, m), m)
      <3> HIDE DEF S, h
      <3>1. \A m \in S : dir[m] = Check!Where(h, m)
        OBVIOUS
      <3> HIDE DEF dir
      <3> QED BY <1>3, <1>5, <3>1
    <2> HIDE DEF good, new
    <2>3. CheckStage' /\ Found' /\ Loaded' /\ Filed' /\ Second' /\ OnPath' /\ Relinked'
      BY <1>1, <2>1, OnlyLabel DEF Check!Labels
    <2>4. Sized' /\ Versioned'
      BY <1>0, <1>1, <2>1 DEF Sized, Versioned
    <2>5. (Check!Misplaced' <=> Check!Misplaced) /\ (Check!Unlinkable' <=> Check!Unlinkable)
      BY <1>0, <1>1, <2>1, MisplacedKept
    <2>6. run = 2 => Check!Misplaced
      BY <1>0, <1>1, <1>3, <2>2, AbortsMisplaced
    <2>7. Check!Unlinkable
      BY <1>3, <2>2 DEF Check!Unlinkable, Known
    <2>8. run' \in {1, 2} /\ run' = run
      BY <1>0, <1>1 DEF CheckStage
    <2>9. Verdict'
      BY <2>1, <2>5, <2>6, <2>7, <2>8 DEF Verdict, Check!FirstLinkSucceeds, Check!PassMeansSame, Check!FailsOnlyForThreeReasons
    <2> QED BY <2>3, <2>4, <2>9 DEF CheckInv
  <1> QED BY <1>4, <1>5

\* When the queue is empty, everything that is needed is loaded, and filed.
LEMMA AllLoaded ==
    ASSUME Loaded, label # "construct", queue = <<>>, NEW n \in Known
    PROVE  Check!ToSet(Check!Bin(n).needs) \subseteq Check!Names /\ Check!Bin(n).expands
  <1>1. Check!ToSet(queue) = {}
    BY MembersAre
  <1> QED BY <1>1 DEF Loaded, Visited

\* A loaded binary with a soname is registered, so is every library.
LEMMA FiledIsRegistered ==
    ASSUME Found, CheckStage, Filed, label # "construct"
    PROVE  /\ \A n \in Known : Check!Bin(n).soname # Check!NoSoname => n \in Check!Registered
           /\ Check!Names \subseteq Check!Registered
           /\ \A n \in Check!Registered : n \in Known /\ Check!Bin(n).soname # Check!NoSoname
  <1>1. \A n \in Known : Check!Bin(n).soname # Check!NoSoname => n \in Check!Registered
    BY DEF Filed, Check!Registered
  <1>2. \A n \in Check!Names : n \in Known /\ Check!Bin(n).soname # Check!NoSoname
    BY NamesAre DEF Known
  <1>3. ASSUME NEW n \in Check!Registered PROVE n \in Known /\ Check!Bin(n).soname # Check!NoSoname
    <2>1. PICK s \in DOMAIN file_of : n = file_of[s]
      BY DEF Check!Registered
    <2> QED BY <2>1 DEF Filed
  <1> QED BY <1>1, <1>2, <1>3

\* The first link has the copies that it found.
LEMMA FirstIs ==
    ASSUME CheckStage, Found, run = 1
    PROVE  /\ Check!Main = cmd.main /\ Check!Names = FirstNames /\ Known = FirstNames \cup {cmd.main}
           /\ Check!link_binaries = Inside
           /\ \A n \in Known : Check!Bin(n) = Copy(n) /\ Binary(Copy(n))
  <1>1. Check!Main = cmd.main /\ Check!Names = FirstNames
    BY BinIs DEF FirstNames
  <1>2. Known = FirstNames \cup {cmd.main}
    BY <1>1 DEF Known
  <1>3. \A n \in Known : Check!Bin(n) = Copy(n)
    BY <1>1, <1>2, BinIs, CopyTyped DEF Copy
  <1>4. Check!link_binaries = Inside
    BY <1>1, <1>2, <1>3 DEF Check!link_binaries, Inside
  <1> QED BY <1>1, <1>2, <1>3, <1>4, CopyTyped

\* What the second link finds, when that is what the first one did.
LEMMA SecondFinds ==
    ASSUME CheckStage, Found, Second, run = 2
    PROVE  /\ Check!Main = cmd.out /\ Check!Bin(cmd.out) = output[1] /\ cmd.out \in Check!link_binaries
           /\ cmd.out \in Known /\ cmd.out \notin Check!Names
           /\ Same => /\ Check!Names \subseteq FirstNames
                      /\ \A n \in Check!Names : /\ Check!Bin(n) = Copy(n)
                                                /\ n \in Check!link_binaries <=> n \in Inside
                      /\ \A n \in Check!link_binaries :
                            n = cmd.out \/ (n \in Check!Names /\ n \in Inside /\ Check!Bin(n) = Copy(n))
  <1>1. Check!Main = cmd.out /\ Check!Bin(cmd.out) = output[1] /\ Check!Names = DOMAIN libraries[2]
    BY BinIs
  <1>2. cmd.out \in Check!link_binaries /\ cmd.out \in Known /\ cmd.out \notin Check!Names
    BY <1>1, NamesAre DEF Check!link_binaries, Known
  <1>3. ASSUME Same
        PROVE  /\ Check!Names \subseteq FirstNames
               /\ \A n \in Check!Names : Check!Bin(n) = Copy(n) /\ (n \in Check!link_binaries <=> n \in Inside)
               /\ \A n \in Check!link_binaries :
                     n = cmd.out \/ (n \in Check!Names /\ n \in Inside /\ Check!Bin(n) = Copy(n))
    <2>1. ASSUME NEW n \in Check!Names PROVE n \in FirstNames /\ Check!Bin(n) = Copy(n)
      BY <1>1, <1>2, <1>3, AllLoadedBefore DEF Known
    <2>2. \A n \in Check!Names : n # cmd.main /\ n # cmd.out
      BY NamesAre
    <2>3. \A n \in Check!Names : n \in Check!link_binaries <=> n \in Inside
      BY <1>1, <2>1, <2>2 DEF Check!link_binaries, Inside
    <2>4. \A n \in Check!link_binaries : n = cmd.out \/ n \in Check!Names
      BY <1>1 DEF Check!link_binaries
    <2> QED BY <2>1, <2>3, <2>4
  <1> QED BY <1>1, <1>2, <1>3


\* What one link adds up to when the output is all that it links.
LEMMA AloneTotals ==
    ASSUME CheckStage, Found, Second, run = 2, Check!link_binaries = {Check!Main}
    PROVE  TLSMemTotal = output[1].tls.memsz /\ FdesTotal = output[1].fdes
  <1> DEFINE K == Check!link_binaries
             mem == [n \in K |-> Check!Bin(n).tls.memsz]
             fdes == [n \in K |-> Check!Bin(n).fdes]
  <1>1. SumOf(TLSMemTotal, mem, K) /\ SumOf(FdesTotal, fdes, K)
    BY MetTyped
  <1>2. Check!Main \in K /\ \A y : y \notin K \ {Check!Main}
    OBVIOUS
  <1>3. mem[Check!Main] = output[1].tls.memsz /\ fdes[Check!Main] = output[1].fdes
    BY <1>2, SecondFinds
  <1> HIDE DEF K, mem, fdes
  <1> QED BY <1>1, <1>2, <1>3 DEF SumOf

\* The steps of one link, in their order: the sizes are fixed,
LEMMA StepDecideMemOffset == CheckInv /\ Check!DecideMemOffset => CheckInv'
  <1> SUFFICES ASSUME CheckInv, Check!DecideMemOffset PROVE CheckInv'
    OBVIOUS
  <1>0. CheckStage /\ Found /\ Loaded /\ Filed /\ Second /\ OnPath /\ Relinked /\ Sized /\ Versioned /\ Verdict
    BY DEF CheckInv
  <1>1. /\ label = "resolve" /\ queue = <<>> /\ label' = "tls"
        /\ TLSMemSize_s' = Keep(TLSMemSize_s, TLSMemTotal) /\ EHFrameSize_s' = Keep(EHFrameSize_s, 12 + 8 * FdesTotal)
        /\ UNCHANGED <<cmd, run, queue, libraries, file_of, exposed, public, TLSFileSize_s, output>>
    BY TotalsHold, Zenon DEF Totals, Check!DecideMemOffset, Check!Goto
  <1>2. CheckStage' /\ Found' /\ Loaded' /\ Filed' /\ Second' /\ OnPath' /\ Relinked'
    BY <1>1, OnlyLabel DEF Check!Labels
  <1>3. /\ TLSMemTotal' = TLSMemTotal /\ FdesTotal' = FdesTotal /\ TLSMemBefore' = TLSMemBefore
        /\ TLSFileBefore' = TLSFileBefore /\ EHFrameBefore' = EHFrameBefore
    BY <1>0, <1>1, StateKept
  <1>4. TLSMemTotal \in Nat /\ FdesTotal \in Nat
    BY <1>0, MetTyped
  <1>5. Sized'
    <2>1. TLSMemSize_s = TLSMemBefore /\ EHFrameSize_s = EHFrameBefore /\ TLSFileSize_s = TLSFileBefore
      BY <1>0, <1>1 DEF Sized
    <2>2. TLSMemSize_s' \in Nat
      BY <1>0, <1>1, <1>4 DEF Sized, Keep
    <2>3. EHFrameSize_s' = 0 \/ \E k \in Nat : EHFrameSize_s' = 12 + 8 * k
      BY <1>0, <1>1, <1>4 DEF Sized, Keep
    <2>4. /\ TLSMemSize_s' = Keep(TLSMemBefore, TLSMemTotal)'
          /\ EHFrameSize_s' = Keep(EHFrameBefore, 12 + 8 * FdesTotal)'
      BY <1>1, <1>3, <2>1 DEF Keep
    <2>5. TLSFileSize_s' = TLSFileBefore' /\ TLSFileSize_s' \in Nat
      BY <1>0, <1>1, <1>3, <2>1 DEF Sized
    <2> QED BY <1>1, <2>2, <2>3, <2>4, <2>5 DEF Sized
  <1>6. Versioned' /\ Verdict'
    BY <1>1 DEF Versioned, Verdict, Check!FirstLinkSucceeds, Check!PassMeansSame, Check!FailsOnlyForThreeReasons
  <1> QED BY <1>2, <1>5, <1>6 DEF CheckInv

\* the template is as long as they say,
LEMMA StepCollectTLS == CheckInv /\ Check!CollectTLS => CheckInv'
  <1> SUFFICES ASSUME CheckInv, Check!CollectTLS PROVE CheckInv'
    OBVIOUS
  <1>0. CheckStage /\ Found /\ Loaded /\ Filed /\ Second /\ OnPath /\ Relinked /\ Sized /\ Versioned /\ Verdict
    BY DEF CheckInv
  <1>1. /\ label = "tls"
        /\ label' = IF TLSMemTotal = Keep(TLSMemSize_s, TLSMemTotal) THEN "symbols" ELSE "aborted"
        /\ UNCHANGED <<cmd, run, queue, libraries, file_of, exposed, public, TLSMemSize_s, TLSFileSize_s, EHFrameSize_s, output>>
    BY TotalsHold, Zenon DEF Totals, Check!CollectTLS, Check!Goto, Check!statics
  <1>2. queue = <<>>
    BY <1>0, <1>1 DEF Loaded
  <1>3. label' \in {"symbols", "aborted"}
    BY <1>1
  <1>4. CheckStage' /\ Found' /\ Loaded' /\ Filed' /\ Second' /\ OnPath' /\ Relinked'
    BY <1>1, <1>2, <1>3, OnlyLabel DEF Check!Labels
  <1>5. /\ TLSMemTotal' = TLSMemTotal /\ FdesTotal' = FdesTotal /\ TLSMemBefore' = TLSMemBefore
        /\ TLSFileBefore' = TLSFileBefore /\ EHFrameBefore' = EHFrameBefore
        /\ Check!link_binaries' = Check!link_binaries /\ Check!Main' = Check!Main
    BY <1>0, <1>1, StateKept
  <1>6. TLSMemSize_s = Keep(TLSMemBefore, TLSMemTotal)
    BY <1>0, <1>1 DEF Sized
  <1>7. Sized'
    <2>1. label' = "symbols" => TLSMemSize_s' = TLSMemTotal'
      <3>1. TLSMemTotal = Keep(TLSMemSize_s, TLSMemTotal) => TLSMemSize_s = TLSMemTotal
        BY <1>6 DEF Keep
      <3> QED BY <1>1, <1>5, <3>1
    <2>2. /\ TLSMemSize_s' = Keep(TLSMemBefore, TLSMemTotal)'
          /\ EHFrameSize_s' = Keep(EHFrameBefore, 12 + 8 * FdesTotal)'
      BY <1>0, <1>1, <1>5 DEF Sized, Keep
    <2>3. TLSFileSize_s' = TLSFileBefore'
      BY <1>0, <1>1, <1>5 DEF Sized
    <2> QED BY <1>0, <1>1, <1>3, <2>1, <2>2, <2>3 DEF Sized
  <1>8. Versioned'
    BY <1>3 DEF Versioned
  <1>9. run = 1 => label' # "aborted"
    BY <1>1, <1>6 DEF Keep, TLSMemBefore
  <1>10. run = 2 /\ label' = "aborted" => Check!link_binaries # {Check!Main}
    <2>1. SUFFICES ASSUME run = 2, Check!link_binaries = {Check!Main} PROVE label' # "aborted"
      OBVIOUS
    <2>2. TLSMemTotal = TLSMemBefore
      BY <1>0, <2>1, AloneTotals DEF TLSMemBefore
    <2> QED BY <1>1, <1>6, <2>2 DEF Keep
  <1>11. Verdict'
    BY <1>1, <1>3, <1>5, <1>9, <1>10 DEF Verdict, Check!FirstLinkSucceeds, Check!PassMeansSame, Check!FailsOnlyForThreeReasons
  <1> QED BY <1>4, <1>7, <1>8, <1>11 DEF CheckInv

\* The size of the initial values, which nothing compares with what is inherited:
\* it is right when that of the template is.
LEMMA FileAgree ==
    ASSUME CheckInv, TLSMemSize_s = TLSMemTotal, label \notin {"construct", "resolve", "aborted"}
    PROVE  Keep(TLSFileBefore, TLSFileTotal) = TLSFileTotal
  <1> DEFINE K == Check!link_binaries
             M == Check!Main
             mem == [n \in K |-> Check!Bin(n).tls.memsz]
             file == [n \in K |-> Check!Bin(n).tls.filesz]
  <1>0. CheckStage /\ Found /\ Loaded /\ Filed /\ Second /\ Sized /\ run \in {1, 2}
    BY DEF CheckInv, CheckStage
  <1>1. CASE run = 1
    BY <1>1 DEF Keep, TLSFileBefore
  <1>2. CASE run = 2 /\ output[1].tls.filesz = 0
    BY <1>2 DEF Keep, TLSFileBefore
  <1>3. CASE run = 2 /\ output[1].tls.filesz # 0
    <2>1. output[1].tls.memsz # 0
      BY <1>0, <1>3 DEF Second, FirstOutput
    <2>2. TLSMemTotal = output[1].tls.memsz
      BY <1>0, <1>3, <2>1 DEF Sized, Keep, TLSMemBefore
    <2>3. M \in K /\ K \subseteq Known /\ SumOf(TLSMemTotal, mem, K) /\ SumOf(TLSFileTotal, file, K)
      BY <1>0, MetTyped
    <2>4. mem[M] = output[1].tls.memsz /\ file[M] = output[1].tls.filesz
      BY <1>0, <1>3, <2>3, SecondFinds
    <2>5. \A n \in K : mem[n] = 0 => file[n] = 0
      <3>1. \A n \in K : KnownBinary(Check!Bin(n))
        BY <1>0, <2>3, KnownTyped DEF KnownGood
      <3> QED BY <3>1 DEF KnownBinary
    <2> HIDE DEF K, M, mem, file
    <2>6. \A n \in K \ {M} : mem[n] = 0
      BY <2>2, <2>3, <2>4 DEF SumOf
    <2>7. TLSFileTotal = output[1].tls.filesz
      BY <2>3, <2>4, <2>5, <2>6 DEF SumOf
    <2> QED BY <1>3, <2>7 DEF Keep, TLSFileBefore
  <1> QED BY <1>0, <1>1, <1>2, <1>3

\* symbols are exposed and public,
LEMMA StepCollectSymbols == CheckInv /\ Check!CollectSymbols => CheckInv'
  <1> SUFFICES ASSUME CheckInv, Check!CollectSymbols PROVE CheckInv'
    OBVIOUS
  <1> DEFINE found == {v[1] : v \in Check!Imported \cup Check!Reexported} \subseteq Check!Registered
  <1>0. CheckStage /\ Found /\ Loaded /\ Filed /\ Second /\ OnPath /\ Relinked /\ Sized /\ Versioned /\ Verdict
    BY DEF CheckInv
  <1>1. /\ label = "symbols" /\ label' = IF found THEN "versions" ELSE "aborted"
        /\ UNCHANGED <<cmd, run, queue, libraries, file_of, exposed, public, TLSMemSize_s, TLSFileSize_s, EHFrameSize_s, output>>
    BY DEF Check!CollectSymbols, Check!Goto, Check!statics
  <1>2. queue = <<>>
    BY <1>0, <1>1 DEF Loaded
  <1>3. label' \in {"versions", "aborted"} /\ (label' = "versions" <=> found)
    BY <1>1
  <1>4. CheckStage' /\ Found' /\ Loaded' /\ Filed' /\ Second' /\ OnPath' /\ Relinked'
    BY <1>1, <1>2, <1>3, OnlyLabel DEF Check!Labels
  <1>5. /\ TLSMemTotal' = TLSMemTotal /\ FdesTotal' = FdesTotal /\ TLSMemBefore' = TLSMemBefore
        /\ TLSFileBefore' = TLSFileBefore /\ EHFrameBefore' = EHFrameBefore
        /\ Check!link_binaries' = Check!link_binaries /\ Check!Main' = Check!Main
        /\ Check!Imported' = Check!Imported /\ Check!Reexported' = Check!Reexported /\ Check!Exporters' = Check!Exporters
    BY <1>0, <1>1, StateKept
  <1>6. Check!Registered' = Check!Registered
    BY <1>1 DEF Check!Registered
  <1>7. Sized'
    <2>1. /\ TLSMemSize_s' = TLSMemTotal' /\ TLSFileSize_s' = TLSFileBefore'
          /\ TLSMemSize_s' = Keep(TLSMemBefore, TLSMemTotal)'
          /\ EHFrameSize_s' = Keep(EHFrameBefore, 12 + 8 * FdesTotal)'
      BY <1>0, <1>1, <1>5 DEF Sized, Keep
    <2>2. TLSMemSize_s' \in Nat /\ TLSFileSize_s' \in Nat /\ (EHFrameSize_s' = 0 \/ \E k \in Nat : EHFrameSize_s' = 12 + 8 * k)
      BY <1>0, <1>1 DEF Sized
    <2> QED BY <1>3, <2>1, <2>2 DEF Sized, Keep
  <1>8. Versioned'
    BY <1>3, <1>5, <1>6 DEF Versioned
  <1> HIDE DEF found
  <1>9. /\ \A n \in Known : Check!Bin(n).soname # Check!NoSoname => n \in Check!Registered
        /\ Check!Names \subseteq Check!Registered
    BY <1>0, <1>1, FiledIsRegistered
  <1>10. Check!link_binaries \subseteq Known /\ Check!Main \in Check!link_binaries
    BY <1>0, MetTyped
  <1>11. \A n \in Known : Check!ToSet(Check!Bin(n).needs) \subseteq Check!Names
    BY <1>0, <1>1, <1>2, AllLoaded
  <1>12. \A v \in Check!Imported : v[1] \in Check!Registered
    <2>1. SUFFICES ASSUME NEW v \in Check!Imported PROVE v[1] \in Check!Registered
      OBVIOUS
    <2>2. PICK n \in Check!link_binaries : v \in Check!Bin(n).imports
      BY DEF Check!Imported
    <2>3. n \in Known /\ KnownBinary(Check!Bin(n))
      BY <1>0, <1>10, KnownTyped DEF KnownGood
    <2>4. v[1] \in Check!ToSet(Check!Bin(n).needs)
      BY <2>2, <2>3 DEF KnownBinary
    <2> QED BY <1>9, <1>11, <2>3, <2>4
  <1>14. run = 1 /\ label' = "aborted" => Check!Unlinkable
    <2>1. SUFFICES ASSUME run = 1, label' = "aborted", ~Check!Unlinkable PROVE FALSE
      OBVIOUS
    <2>4. ASSUME NEW v \in Check!Reexported PROVE v[1] \in Check!Registered
      <3>1. PICK n \in Check!link_binaries : v \in Check!Bin(n).reexports
        BY DEF Check!Reexported
      <3>2. n \in Known /\ Binary(Check!Bin(n))
        BY <1>0, <1>10, <2>1, FirstIs
      <3>3. v[1] \in Check!ToSet(Check!Bin(n).needs)
        BY <3>1, <3>2 DEF Binary
      <3> QED BY <1>9, <1>11, <3>2, <3>3
    <2>5. found
      BY <1>12, <2>4 DEF found
    <2> QED BY <1>3, <2>1, <2>5
  <1>15. run = 2 /\ label' = "aborted" =>
            \/ Check!link_binaries # {Check!Main}
            \/ \E v \in output[1].reexports : v[1] # cmd.out /\ v[1] \notin Check!ToSet(output[1].needs)
    <2>1. SUFFICES ASSUME run = 2, label' = "aborted", Check!link_binaries = {Check!Main}
                   PROVE  \E v \in output[1].reexports : v[1] # cmd.out /\ v[1] \notin Check!ToSet(output[1].needs)
      OBVIOUS
    <2>2. Check!Main = cmd.out /\ Check!Bin(cmd.out) = output[1] /\ cmd.out \in Known /\ FirstOutput
      BY <1>0, <2>1, SecondFinds DEF Second
    <2>4. PICK v \in Check!Reexported : v[1] \notin Check!Registered
      BY <1>3, <1>12, <2>1 DEF found
    <2>5. v \in output[1].reexports
      BY <2>1, <2>2 DEF Check!Reexported
    <2>6. v[1] \notin Check!ToSet(output[1].needs)
      BY <1>9, <1>11, <2>2, <2>4
    <2>7. v[1] # cmd.out
      <3>1. SUFFICES ASSUME v[1] = cmd.out PROVE FALSE
        OBVIOUS
      <3>2. v \in OldVersions \/ v \in OwnVersions
        BY <2>2, <2>5 DEF FirstOutput
      <3>3. /\ Inside \subseteq FirstNames \cup {cmd.main} /\ cmd.out \notin FirstNames
            /\ \A n \in FirstNames \cup {cmd.main} : Binary(Copy(n))
        BY <1>0, CopyTyped
      <3>4. CASE v \in OldVersions
        <4>1. PICK n \in Inside : v \in Copy(n).reexports
          BY <3>4 DEF OldVersions
        <4>2. v[1] \in Check!ToSet(Copy(n).needs) /\ cmd.out \notin Check!ToSet(Copy(n).needs)
          BY <3>3, <4>1 DEF Binary
        <4> QED BY <3>1, <4>2
      <3>5. CASE v \in OwnVersions
        <4>1. PICK n \in Inside : \E x \in Copy(n).exports : v = <<n, x>>
          BY <3>5 DEF OwnVersions
        <4>2. n = cmd.out /\ Copy(n).exports # {}
          BY <3>1, <4>1
        <4>3. n = cmd.main
          BY <3>3, <4>2
        <4>4. output[1].soname # Check!NoSoname
          BY <2>2, <4>2, <4>3 DEF FirstOutput
        <4>5. cmd.out \in Check!Registered
          BY <1>9, <2>2, <4>4
        <4> QED BY <2>4, <3>1, <4>5
      <3> QED BY <3>2, <3>4, <3>5
    <2> QED BY <2>5, <2>6, <2>7
  <1>16. Check!ToSet(output[1].needs)' = Check!ToSet(output[1].needs)
    BY <1>1 DEF Check!ToSet
  <1>17. (Check!Misplaced' <=> Check!Misplaced) /\ (Check!Unlinkable' <=> Check!Unlinkable)
    BY <1>0, <1>1, MisplacedKept
  <1>18. Verdict'
    BY <1>1, <1>3, <1>5, <1>14, <1>15, <1>16, <1>17
       DEF Verdict, Check!FirstLinkSucceeds, Check!PassMeansSame, Check!FailsOnlyForThreeReasons
  <1> QED BY <1>4, <1>7, <1>8, <1>18 DEF CheckInv


\* A version under a soname is that of the file that was registered.
LEMMA NeededIs ==
    ASSUME Filed, label # "construct", NEW n \in Check!Registered, NEW x
    PROVE  Check!Needed(Check!SonameOf(n), x) = <<n, x>>
  <1>1. PICK s \in DOMAIN file_of : n = file_of[s]
    BY DEF Check!Registered
  <1>2. Check!Bin(n).soname = s
    BY <1>1 DEF Filed
  <1> QED BY <1>1, <1>2 DEF Check!Needed, Check!SonameOf

\* What Versioned says of the public versions.
Own == UNION {{<<n, v>> : v \in Check!Bin(n).exports} : n \in Check!link_binaries}

\* a version is found under the name it is filed under,
LEMMA StepBuildVersions == CheckInv /\ Check!BuildVersions => CheckInv'
  <1> SUFFICES ASSUME CheckInv, Check!BuildVersions PROVE CheckInv'
    OBVIOUS
  <1> DEFINE K == Check!link_binaries
             filed == UNION {{Check!Needed(Check!SonameOf(n), v) : v \in Check!Bin(n).exports} : n \in K}
             far == {w \in Check!Imported : w[1] \notin K}
  <1>0. CheckStage /\ Found /\ Loaded /\ Filed /\ Second /\ OnPath /\ Relinked /\ Sized /\ Versioned /\ Verdict
    BY DEF CheckInv
  <1>1. /\ label = "versions"
        /\ IF Check!Exporters \subseteq Check!Registered
           THEN /\ exposed' = {Check!Needed(Check!SonameOf(v[1]), v[2]) : v \in far}
                /\ public' = {Check!Needed(Check!SonameOf(v[1]), v[2]) : v \in Check!Reexported} \cup filed
                /\ label' = "loads"
           ELSE label' = "aborted" /\ UNCHANGED <<exposed, public>>
        /\ UNCHANGED <<cmd, run, queue, libraries, file_of, TLSMemSize_s, TLSFileSize_s, EHFrameSize_s, output>>
    BY DEF Check!BuildVersions, Check!Goto, Check!statics
  <1>2. queue = <<>>
    BY <1>0, <1>1 DEF Loaded
  <1>3. CheckStage' /\ Found' /\ Loaded' /\ Filed' /\ Second' /\ OnPath' /\ Relinked'
    <2>1. label' \in {"loads", "aborted"}
      BY <1>1
    <2> QED BY <1>1, <1>2, <2>1, OnlyLabel DEF Check!Labels
  <1>4. /\ TLSMemTotal' = TLSMemTotal /\ FdesTotal' = FdesTotal /\ TLSMemBefore' = TLSMemBefore
        /\ TLSFileBefore' = TLSFileBefore /\ EHFrameBefore' = EHFrameBefore
        /\ Check!link_binaries' = Check!link_binaries /\ (\A n : Check!Bin(n)' = Check!Bin(n))
        /\ Check!Imported' = Check!Imported /\ Check!Reexported' = Check!Reexported /\ Check!Exporters' = Check!Exporters
    BY <1>0, <1>1, StateKept
  <1>5. Sized'
    <2>1. /\ TLSMemSize_s' = TLSMemTotal' /\ TLSFileSize_s' = TLSFileBefore'
          /\ TLSMemSize_s' = Keep(TLSMemBefore, TLSMemTotal)'
          /\ EHFrameSize_s' = Keep(EHFrameBefore, 12 + 8 * FdesTotal)'
      BY <1>0, <1>1, <1>4 DEF Sized, Keep
    <2>2. /\ TLSMemSize_s' \in Nat /\ TLSFileSize_s' \in Nat
          /\ EHFrameSize_s' = 0 \/ \E k \in Nat : EHFrameSize_s' = 12 + 8 * k
      BY <1>0, <1>1 DEF Sized
    <2> QED BY <1>1, <2>1, <2>2 DEF Sized, Keep
  <1>6. Verdict'
    <2>1. CASE label' = "loads"
      BY <1>1, <2>1 DEF Verdict, Check!FirstLinkSucceeds, Check!PassMeansSame, Check!FailsOnlyForThreeReasons
    <2>2. CASE label' # "loads"
      <3>1. label' = "aborted" /\ ~(Check!Exporters \subseteq Check!Registered)
        BY <1>1, <2>2
      <3>2. /\ \A n \in Known : Check!Bin(n).soname # Check!NoSoname => n \in Check!Registered
            /\ Check!Names \subseteq Check!Registered
        BY <1>0, <1>1, FiledIsRegistered
      <3>3. Check!link_binaries \subseteq Known /\ Check!Main \in Check!link_binaries
        BY <1>0, MetTyped
      <3>4. Check!Main \in Check!Exporters /\ Check!Bin(Check!Main).soname = Check!NoSoname
        BY <3>1, <3>2, <3>3 DEF Check!Exporters, Known
      <3>5. Check!Unlinkable
        BY <3>4 DEF Check!Unlinkable, Check!Exporters
      <3>6. run # 2
        <4>1. SUFFICES ASSUME run = 2 PROVE FALSE
          OBVIOUS
        <4>2. Check!Main = cmd.out /\ Check!Bin(cmd.out) = output[1] /\ FirstOutput
          BY <1>0, <4>1, SecondFinds DEF Second
        <4> QED BY <3>4, <4>2 DEF Check!Exporters, FirstOutput
      <3>7. (Check!Misplaced' <=> Check!Misplaced) /\ (Check!Unlinkable' <=> Check!Unlinkable)
        BY <1>0, <1>1, MisplacedKept
      <3> QED BY <1>1, <3>1, <3>5, <3>6, <3>7
              DEF Verdict, Check!FirstLinkSucceeds, Check!PassMeansSame, Check!FailsOnlyForThreeReasons
    <2> QED BY <2>1, <2>2
  <1>7. {v[1] : v \in Check!Imported \cup Check!Reexported} \subseteq Check!Registered
    BY <1>0, <1>1 DEF Versioned
  <1>8. \A v \in Check!Imported \cup Check!Reexported : v = <<v[1], v[2]>> /\ v[1] \in Check!Registered
    <2>1. \A n \in K : KnownBinary(Check!Bin(n))
      BY <1>0, MetTyped, KnownTyped DEF KnownGood
    <2> HIDE DEF K
    <2>2. ASSUME NEW v \in Check!Imported PROVE \E n \in K : v \in Check!Bin(n).imports
      BY DEF Check!Imported, K
    <2>3. ASSUME NEW v \in Check!Reexported PROVE \E n \in K : v \in Check!Bin(n).reexports
      BY DEF Check!Reexported, K
    <2>4. \A v \in Check!Imported \cup Check!Reexported : v = <<v[1], v[2]>>
      BY <2>1, <2>2, <2>3 DEF KnownBinary
    <2> QED BY <1>7, <2>4
  <1>9. \A v \in Check!Imported \cup Check!Reexported : Check!Needed(Check!SonameOf(v[1]), v[2]) = v
    <2>1. SUFFICES ASSUME NEW v \in Check!Imported \cup Check!Reexported
                   PROVE  Check!Needed(Check!SonameOf(v[1]), v[2]) = v
      OBVIOUS
    <2>2. v[1] \in Check!Registered /\ v = <<v[1], v[2]>>
      BY <1>8
    <2>3. Check!Needed(Check!SonameOf(v[1]), v[2]) = <<v[1], v[2]>>
      BY <1>0, <1>1, <2>2, NeededIs
    <2> QED BY <2>2, <2>3
  <1>10. Check!Exporters \subseteq Check!Registered => exposed' = far
    <2>1. far \subseteq Check!Imported
      OBVIOUS
    <2> HIDE DEF far, K, filed
    <2>2. {Check!Needed(Check!SonameOf(v[1]), v[2]) : v \in far} = far
      BY <1>9, <2>1
    <2> QED BY <1>1, <2>2
  <1>11. Check!Exporters \subseteq Check!Registered => filed = Own
    <2>0. SUFFICES ASSUME Check!Exporters \subseteq Check!Registered PROVE filed = Own
      OBVIOUS
    <2>1. \A n \in K : \A v \in Check!Bin(n).exports : Check!Needed(Check!SonameOf(n), v) = <<n, v>>
      <3>1. ASSUME NEW n \in K, NEW v \in Check!Bin(n).exports
            PROVE  Check!Needed(Check!SonameOf(n), v) = <<n, v>>
        <4>1. n \in Check!Registered
          BY <2>0 DEF Check!Exporters
        <4> QED BY <1>0, <1>1, <4>1, NeededIs
      <3> QED BY <3>1
    <2>2. \A n \in K : {Check!Needed(Check!SonameOf(n), v) : v \in Check!Bin(n).exports} = {<<n, v>> : v \in Check!Bin(n).exports}
      BY <2>1
    <2>3. Own = UNION {{<<n, v>> : v \in Check!Bin(n).exports} : n \in K}
      BY DEF Own
    <2> HIDE DEF K
    <2> QED BY <2>2, <2>3
  <1>12. Check!Exporters \subseteq Check!Registered => public' = Check!Reexported \cup Own
    <2>1. {Check!Needed(Check!SonameOf(v[1]), v[2]) : v \in Check!Reexported} = Check!Reexported
      BY <1>9
    <2> HIDE DEF filed, K
    <2> QED BY <1>1, <1>11, <2>1
  <1>13. Check!Registered' = Check!Registered
    BY <1>1 DEF Check!Registered
  <1>14. Own' = Own /\ far' = far
    BY <1>4 DEF Own
  <1>15. Versioned'
    <2>1. /\ label' = "aborted"
          \/ /\ label' = "loads" /\ Check!Exporters \subseteq Check!Registered
             /\ exposed' = far' /\ public' = Check!Reexported' \cup Own'
      <3> HIDE DEF filed, far
      <3> QED BY <1>1, <1>4, <1>10, <1>12, <1>14
    <2>2. {v[1] : v \in Check!Imported' \cup Check!Reexported'} \subseteq Check!Registered'
      BY <1>4, <1>7, <1>13
    <2>3. Check!Exporters \subseteq Check!Registered => Check!Exporters' \subseteq Check!Registered'
      BY <1>4, <1>13
    <2> HIDE DEF filed
    <2> QED BY <2>1, <2>2, <2>3 DEF Versioned, Own
  <1> QED BY <1>3, <1>5, <1>6, <1>15 DEF CheckInv

\* What the versions depend on, in the steps that follow.
LEMMA VersionedKept ==
    ASSUME CheckStage, Versioned, label \in {"loads", "ehframe"},
           UNCHANGED <<cmd, run, libraries, file_of, exposed, public, output>>
    PROVE  Versioned'
  <1>1. /\ Check!link_binaries' = Check!link_binaries /\ (\A n : Check!Bin(n)' = Check!Bin(n))
        /\ Check!Imported' = Check!Imported /\ Check!Reexported' = Check!Reexported /\ Check!Exporters' = Check!Exporters
    BY StateKept
  <1>2. Check!Registered' = Check!Registered
    BY DEF Check!Registered
  <1>3. Own' = Own
    BY <1>1 DEF Own
  <1>4. /\ {v[1] : v \in Check!Imported \cup Check!Reexported} \subseteq Check!Registered
        /\ Check!Exporters \subseteq Check!Registered
        /\ exposed = {v \in Check!Imported : v[1] \notin Check!link_binaries} /\ public = Check!Reexported \cup Own
    BY DEF Versioned, Own
  <1>5. /\ {v[1] : v \in Check!Imported' \cup Check!Reexported'} \subseteq Check!Registered'
        /\ Check!Exporters' \subseteq Check!Registered'
    BY <1>1, <1>2, <1>4
  <1>6. exposed' = {v \in Check!Imported' : v[1] \notin Check!link_binaries'} /\ public' = Check!Reexported' \cup Own'
    BY <1>1, <1>3, <1>4
  <1> QED BY <1>5, <1>6 DEF Versioned, Own

\* the segments are placed,
LEMMA StepBuildLoads == CheckInv /\ Check!BuildLoads => CheckInv'
  <1> SUFFICES ASSUME CheckInv, Check!BuildLoads PROVE CheckInv'
    OBVIOUS
  <1>0. CheckStage /\ Found /\ Loaded /\ Filed /\ Second /\ OnPath /\ Relinked /\ Sized /\ Versioned /\ Verdict
    BY DEF CheckInv
  <1>1. /\ label = "loads" /\ label' = "ehframe" /\ TLSFileSize_s' = Keep(TLSFileSize_s, TLSFileTotal)
        /\ UNCHANGED <<cmd, run, queue, libraries, file_of, exposed, public, TLSMemSize_s, EHFrameSize_s, output>>
    BY TotalsHold, Zenon DEF Totals, Check!BuildLoads, Check!Goto
  <1>2. queue = <<>>
    BY <1>0, <1>1 DEF Loaded
  <1>3. CheckStage' /\ Found' /\ Loaded' /\ Filed' /\ Second' /\ OnPath' /\ Relinked'
    BY <1>1, <1>2, OnlyLabel DEF Check!Labels
  <1>4. /\ TLSMemTotal' = TLSMemTotal /\ TLSFileTotal' = TLSFileTotal /\ FdesTotal' = FdesTotal
        /\ TLSMemBefore' = TLSMemBefore /\ TLSFileBefore' = TLSFileBefore /\ EHFrameBefore' = EHFrameBefore
    BY <1>0, <1>1, StateKept
  <1>5. TLSFileTotal \in Nat
    BY <1>0, MetTyped
  <1>6. Sized'
    <2>1. /\ TLSMemSize_s' = TLSMemTotal' /\ TLSFileSize_s' = Keep(TLSFileBefore, TLSFileTotal)'
          /\ TLSMemSize_s' = Keep(TLSMemBefore, TLSMemTotal)'
          /\ EHFrameSize_s' = Keep(EHFrameBefore, 12 + 8 * FdesTotal)'
      BY <1>0, <1>1, <1>4 DEF Sized, Keep
    <2>2. /\ TLSMemSize_s' \in Nat /\ TLSFileSize_s' \in Nat
          /\ EHFrameSize_s' = 0 \/ \E k \in Nat : EHFrameSize_s' = 12 + 8 * k
      BY <1>0, <1>1, <1>5 DEF Sized, Keep
    <2> QED BY <1>1, <2>1, <2>2 DEF Sized, Keep
  <1>7. Versioned'
    BY <1>0, <1>1, VersionedKept
  <1>8. Verdict'
    BY <1>1 DEF Verdict, Check!FirstLinkSucceeds, Check!PassMeansSame, Check!FailsOnlyForThreeReasons
  <1> QED BY <1>3, <1>6, <1>7, <1>8 DEF CheckInv

\* the frame table is as long as was planned,
LEMMA StepBuildEHFrame == CheckInv /\ Check!BuildEHFrameHeader => CheckInv'
  <1> SUFFICES ASSUME CheckInv, Check!BuildEHFrameHeader PROVE CheckInv'
    OBVIOUS
  <1> DEFINE size == 12 + 8 * FdesTotal
  <1>0. CheckStage /\ Found /\ Loaded /\ Filed /\ Second /\ OnPath /\ Relinked /\ Sized /\ Versioned /\ Verdict
    BY DEF CheckInv
  <1>1. /\ label = "ehframe" /\ label' = IF Keep(EHFrameSize_s, size) = size THEN "emit" ELSE "aborted"
        /\ UNCHANGED <<cmd, run, queue, libraries, file_of, exposed, public, TLSMemSize_s, TLSFileSize_s, EHFrameSize_s, output>>
    BY TotalsHold, Zenon DEF Totals, Check!BuildEHFrameHeader, Check!Goto, Check!statics
  <1>2. queue = <<>>
    BY <1>0, <1>1 DEF Loaded
  <1>3. label' \in {"emit", "aborted"}
    BY <1>1
  <1>4. CheckStage' /\ Found' /\ Loaded' /\ Filed' /\ Second' /\ OnPath' /\ Relinked'
    BY <1>1, <1>2, <1>3, OnlyLabel DEF Check!Labels
  <1>5. /\ TLSMemTotal' = TLSMemTotal /\ TLSFileTotal' = TLSFileTotal /\ FdesTotal' = FdesTotal
        /\ TLSMemBefore' = TLSMemBefore /\ TLSFileBefore' = TLSFileBefore /\ EHFrameBefore' = EHFrameBefore
        /\ Check!link_binaries' = Check!link_binaries /\ Check!Main' = Check!Main
    BY <1>0, <1>1, StateKept
  <1>6. EHFrameSize_s = Keep(EHFrameBefore, size) /\ size \in Nat /\ size # 0
    BY <1>0, <1>1, MetTyped DEF Sized
  <1>7. Sized'
    <2>1. /\ TLSMemSize_s' = TLSMemTotal' /\ TLSFileSize_s' = Keep(TLSFileBefore, TLSFileTotal)'
          /\ TLSMemSize_s' = Keep(TLSMemBefore, TLSMemTotal)'
          /\ EHFrameSize_s' = Keep(EHFrameBefore, 12 + 8 * FdesTotal)'
      BY <1>0, <1>1, <1>5 DEF Sized, Keep
    <2>2. /\ TLSMemSize_s' \in Nat /\ TLSFileSize_s' \in Nat
          /\ EHFrameSize_s' = 0 \/ \E k \in Nat : EHFrameSize_s' = 12 + 8 * k
      BY <1>0, <1>1 DEF Sized
    <2>3. label' = "emit" => EHFrameSize_s' = 12 + 8 * FdesTotal'
      BY <1>1, <1>5, <1>6 DEF Keep
    <2> QED BY <1>3, <2>1, <2>2, <2>3 DEF Sized, Keep
  <1>8. Versioned'
    BY <1>0, <1>1, VersionedKept
  <1>9. run = 1 => label' # "aborted"
    BY <1>1, <1>6 DEF Keep, EHFrameBefore
  <1>10. run = 2 /\ label' = "aborted" => Check!link_binaries # {Check!Main}
    <2>1. SUFFICES ASSUME run = 2, Check!link_binaries = {Check!Main} PROVE label' # "aborted"
      OBVIOUS
    <2>2. size = EHFrameBefore
      BY <1>0, <2>1, AloneTotals DEF EHFrameBefore
    <2> QED BY <1>1, <1>6, <2>2 DEF Keep
  <1>11. Verdict'
    BY <1>1, <1>3, <1>5, <1>9, <1>10 DEF Verdict, Check!FirstLinkSucceeds, Check!PassMeansSame, Check!FailsOnlyForThreeReasons
  <1> QED BY <1>4, <1>7, <1>8, <1>11 DEF CheckInv


\* The output that Emit writes, which is never refused.
Written == [soname |-> Check!Bin(Check!Main).soname, needs |-> Check!Needs,
            paths |-> Check!Bin(Check!Main).paths, expands |-> Check!Bin(Check!Main).expands,
            tls |-> [filesz |-> TLSFileTotal, memsz |-> TLSMemTotal],
            fdes |-> FdesTotal, imports |-> exposed, exports |-> {}, reexports |-> public]

LEMMA Emitted ==
    ASSUME CheckInv, Check!Emit
    PROVE  /\ label = "emit" /\ queue = <<>> /\ output' = Append(output, Written)
           /\ IF run = 1 THEN run' = 2 /\ label' = "construct" ELSE label' = "done" /\ run' = run
           /\ UNCHANGED <<cmd, queue, libraries, file_of, exposed, public, TLSMemSize_s, TLSFileSize_s, EHFrameSize_s>>
           /\ Check!Needs \in Seq(Check!Names \ Check!link_binaries)
           /\ Check!ToSet(Check!Needs) = Check!Names \ Check!link_binaries
           /\ TLSMemSize_s = TLSMemTotal /\ TLSFileSize_s = TLSFileTotal /\ EHFrameSize_s = 12 + 8 * FdesTotal
  <1>0. CheckStage /\ Found /\ Loaded /\ Filed /\ Second /\ OnPath /\ Relinked /\ Sized /\ Versioned /\ Verdict
    BY DEF CheckInv
  <1>1. label = "emit" /\ queue = <<>>
    BY <1>0 DEF Check!Emit, Loaded
  <1>2. TLSMemTotal \in Nat /\ TLSFileTotal \in Nat /\ FdesTotal \in Nat
    BY <1>0, MetTyped
  <1>3. /\ TLSMemSize_s = TLSMemTotal /\ EHFrameSize_s = 12 + 8 * FdesTotal
        /\ TLSFileSize_s = Keep(TLSFileBefore, TLSFileTotal)
    BY <1>0, <1>1 DEF Sized
  <1>4. TLSFileSize_s = TLSFileTotal
    BY <1>1, <1>3, FileAgree
  <1>5. Check!TLSMemBuilt = TLSMemTotal /\ Check!TLSFileBuilt = TLSFileTotal /\ Check!EHFrameBuilt = 12 + 8 * FdesTotal
    BY TotalsHold DEF Totals
  <1>6. Check!TLSFileSize = TLSFileTotal
    BY <1>4, TotalsHold DEF Totals, Keep
  <1>7. (Check!EHFrameBuilt - Check!HeaderSize) \div 8 = FdesTotal
    BY <1>2, <1>5 DEF Check!HeaderSize
  <1>8. Check!TLSFileBuilt <= Check!AlignNext(Check!TLSFileSize)
    <2>1. \A t \in Nat : t <= ((t + 4096 - 1) \div 4096) * 4096
      OBVIOUS
    <2>2. TLSFileTotal <= Check!AlignNext(TLSFileTotal)
      BY <1>2, <2>1 DEF Check!AlignNext, Check!LINUX_PAGE_SIZE
    <2> QED BY <1>5, <1>6, <2>2
  <1>9. IsFiniteSet(Check!Names \ Check!link_binaries)
    BY <1>0, NamesAre, FS_Subset
  <1>10. /\ Check!Needs \in Seq(Check!Names \ Check!link_binaries)
         /\ Check!ToSet(Check!Needs) = Check!Names \ Check!link_binaries
    BY <1>9, ListedGives DEF Check!Needs
  <1>11. /\ output' = Append(output, Written)
         /\ IF run = 1 THEN run' = 2 /\ label' = "construct" ELSE label' = "done" /\ run' = run
         /\ UNCHANGED <<cmd, queue, libraries, file_of, exposed, public, TLSMemSize_s, TLSFileSize_s, EHFrameSize_s>>
    BY <1>5, <1>7, <1>8, Zenon DEF Check!Emit, Check!Goto, Check!statics, Written
  <1> QED BY <1>1, <1>3, <1>4, <1>10, <1>11

\* The first link writes, and the second one starts from what it wrote.
LEMMA StepFirstEmit == CheckInv /\ Check!Emit /\ run = 1 => CheckInv'
  <1> SUFFICES ASSUME CheckInv, Check!Emit, run = 1 PROVE CheckInv'
    OBVIOUS
  <1> DEFINE K == Check!link_binaries
             imports == UNION {Copy(n).imports : n \in K}
             reexports == UNION {Copy(n).reexports : n \in K}
             own == UNION {{<<n, v>> : v \in Copy(n).exports} : n \in K}
  <1>0. CheckStage /\ Found /\ Loaded /\ Filed /\ Second /\ OnPath /\ Relinked /\ Sized /\ Versioned /\ Verdict
    BY DEF CheckInv
  <1>1. /\ label = "emit" /\ queue = <<>> /\ run' = 2 /\ label' = "construct"
        /\ UNCHANGED <<cmd, queue, libraries, file_of, exposed, public, TLSMemSize_s, TLSFileSize_s, EHFrameSize_s>>
        /\ Check!Needs \in Seq(Check!Names \ K) /\ Check!ToSet(Check!Needs) = Check!Names \ K
        /\ TLSMemSize_s = TLSMemTotal /\ TLSFileSize_s = TLSFileTotal /\ EHFrameSize_s = 12 + 8 * FdesTotal
    BY Emitted
  <1>2. output' = <<Written>>
    <2>1. output = <<>> /\ output' = Append(output, Written)
      BY <1>0, Emitted DEF CheckStage
    <2> HIDE DEF Written
    <2> QED BY <2>1
  <1>3. /\ Check!Main = cmd.main /\ Check!Names = FirstNames /\ Known = FirstNames \cup {cmd.main} /\ K = Inside
        /\ \A n \in Known : Check!Bin(n) = Copy(n)
    BY <1>0, FirstIs
  <1>4. /\ K \subseteq Known /\ cmd.main \in K
        /\ SumOf(TLSMemTotal, [n \in K |-> Check!Bin(n).tls.memsz], K)
        /\ SumOf(TLSFileTotal, [n \in K |-> Check!Bin(n).tls.filesz], K)
        /\ TLSMemTotal \in Nat /\ TLSFileTotal \in Nat /\ FdesTotal \in Nat
    BY <1>0, <1>3, MetTyped
  <1>5. CheckStage'
    BY <1>0, <1>1, <1>2 DEF CheckStage, Check!Labels
  <1>6. DOMAIN libraries[2] = {} /\ libraries[2] = <<>>
    BY <1>0 DEF Found
  <1>7. Found' /\ OnPath'
    BY <1>0, <1>1, <1>6, FoundKept, OnPathKept
  <1>8. Loaded'
    <2>1. Check!Names' = {} /\ libraries'[run'] = <<>>
      BY <1>1, <1>6 DEF Check!Names
    <2>2. <<>> \in Seq(Known')
      OBVIOUS
    <2> QED BY <1>1, <2>1, <2>2 DEF Loaded
  <1>9. exposed = {v \in imports : v[1] \notin K} /\ public = reexports \cup own
    <2>1. \A n \in K : Check!Bin(n) = Copy(n)
      BY <1>3, <1>4
    <2>2. Check!Imported = imports /\ Check!Reexported = reexports
      BY <2>1 DEF Check!Imported, Check!Reexported
    <2>3. own = UNION {{<<n, v>> : v \in Check!Bin(n).exports} : n \in K}
      BY <2>1
    <2> QED BY <1>0, <1>1, <2>2, <2>3 DEF Versioned
  <1>10. \A n \in FirstNames \cup {cmd.main} : Check!ToSet(Copy(n).needs) \subseteq FirstNames /\ Copy(n).expands
    BY <1>0, <1>1, <1>3, AllLoaded
  <1>11. /\ TLSMemTotal = 0 => TLSFileTotal = 0 /\ \A n \in K : Copy(n).tls.memsz = 0
         /\ TLSFileTotal = 0 => \A n \in K : Copy(n).tls.filesz = 0
    <2>1. \A n \in K : Check!Bin(n) = Copy(n) /\ KnownBinary(Check!Bin(n))
      BY <1>0, <1>3, <1>4, KnownTyped DEF KnownGood
    <2>2. /\ TLSMemTotal = 0 <=> \A n \in K : Check!Bin(n).tls.memsz = 0
          /\ TLSFileTotal = 0 <=> \A n \in K : Check!Bin(n).tls.filesz = 0
      <3> HIDE DEF K
      <3> QED BY <1>4 DEF SumOf
    <2> HIDE DEF K
    <2> QED BY <2>1, <2>2 DEF KnownBinary
  <1>12. Copy(cmd.main).exports # {} => Copy(cmd.main).soname # Check!NoSoname
    <2>1. SUFFICES ASSUME Copy(cmd.main).exports # {} PROVE Copy(cmd.main).soname # Check!NoSoname
      OBVIOUS
    <2>2. cmd.main \in Check!Exporters
      BY <1>3, <1>4, <2>1 DEF Check!Exporters
    <2>3. cmd.main \in Check!Registered
      BY <1>0, <1>1, <2>2 DEF Versioned
    <2>4. Check!Bin(cmd.main).soname # Check!NoSoname
      BY <1>0, <1>1, <2>3, FiledIsRegistered
    <2> QED BY <1>3, <1>4, <2>4
  <1>13. Check!Needs \in Seq(FirstNames)
    BY <1>1, <1>3, SeqMonotonic
  <1>14. FirstOutput'
    <2>1. FirstNames' = FirstNames /\ (\A n : Copy(n)' = Copy(n)) /\ Inside' = K
      <3>1. FirstNames' = FirstNames /\ \A n : Copy(n)' = Copy(n)
        BY <1>1 DEF FirstNames, Copy
      <3> QED BY <1>1, <1>3, <3>1 DEF Inside, Check!ShouldLink
    <2>2. OldVersions' = reexports /\ OwnVersions' = own
      BY <2>1 DEF OldVersions, OwnVersions
    <2>3. output'[1] = Written
      BY <1>2
    <2>4. Check!ToSet(output[1].needs)' = FirstNames \ K
      <3>1. output'[1].needs = Check!Needs
        BY <2>3 DEF Written
      <3>2. Check!ToSet(output[1].needs)' = Check!ToSet(output'[1].needs)
        BY Zenon DEF Check!ToSet
      <3> QED BY <1>1, <1>3, <3>1, <3>2
    <2>5. \A n : Check!ToSet(Copy(n).needs)' = Check!ToSet(Copy(n).needs)
      BY <2>1 DEF Check!ToSet
    <2>6. /\ output'[1].soname = Copy(cmd.main).soname /\ output'[1].needs = Check!Needs
          /\ output'[1].paths = Copy(cmd.main).paths /\ output'[1].expands = Copy(cmd.main).expands
          /\ output'[1].tls = [filesz |-> TLSFileTotal, memsz |-> TLSMemTotal]
          /\ output'[1].fdes = FdesTotal /\ output'[1].exports = {}
          /\ output'[1].imports = exposed /\ output'[1].reexports = public
      BY <1>3, <1>4, <2>3 DEF Written
    <2>7. (UNION {Copy(n).imports : n \in Inside})' = imports
      BY <2>1
    <2>8. Check!NoSoname' = Check!NoSoname /\ cmd' = cmd
      BY <1>1 DEF Check!NoSoname
    <2> HIDE DEF K, imports, reexports, own
    <2>9. \A n \in FirstNames' \cup {cmd'.main} : Check!ToSet(Copy(n).needs)' \subseteq FirstNames' /\ Copy(n)' .expands
      BY <1>10, <2>1, <2>5, <2>8
    <2>10. Copy(cmd.main)' = Copy(cmd.main)
      BY <2>1, <2>8
    <2>11. output'[1].imports = {v \in (UNION {Copy(n).imports : n \in Inside})' : v[1] \notin Inside'}
      BY <1>9, <2>1, <2>6, <2>7
    <2>12. output'[1].reexports = OldVersions' \cup OwnVersions'
      BY <1>9, <2>2, <2>6
    <2>13. /\ output'[1].tls \in [filesz : Nat, memsz : Nat] /\ output'[1].fdes \in Nat
           /\ output'[1].tls.memsz = TLSMemTotal /\ output'[1].tls.filesz = TLSFileTotal
      BY <1>4, <2>6
    <2>14. /\ output'[1].tls.memsz = 0 => output'[1].tls.filesz = 0 /\ \A n \in Inside' : Copy(n)' .tls.memsz = 0
           /\ output'[1].tls.filesz = 0 => \A n \in Inside' : Copy(n)' .tls.filesz = 0
      BY <1>11, <2>1, <2>13
    <2>15. output'[1].expands
      BY <1>10, <2>6
    <2>16. output'[1].needs \in Seq(FirstNames') /\ Check!ToSet(output[1].needs)' = FirstNames' \ Inside'
      BY <1>13, <2>1, <2>4, <2>6
    <2>17. /\ Copy(cmd.main)' .exports # {} => Copy(cmd.main)' .soname # Check!NoSoname'
           /\ output'[1].soname = Copy(cmd.main)' .soname /\ output'[1].paths = Copy(cmd.main)' .paths
      BY <1>12, <2>6, <2>8, <2>10
    <2>18. output'[1].exports = {}
      BY <2>6
    <2> QED BY <2>9, <2>11, <2>12, <2>13, <2>14, <2>15, <2>16, <2>17, <2>18, Zenon DEF FirstOutput
  <1>15. Second' /\ Filed' /\ Relinked' /\ Versioned'
    BY <1>1, <1>14 DEF Second, Filed, Relinked, Versioned
  <1>16. Sized'
    <2>1. /\ output'[1].tls.memsz = TLSMemTotal /\ output'[1].tls.filesz = TLSFileTotal /\ output'[1].fdes = FdesTotal
      BY <1>2 DEF Written
    <2>2. TLSMemBefore' = TLSMemTotal /\ TLSFileBefore' = TLSFileTotal /\ EHFrameBefore' = 12 + 8 * FdesTotal
      BY <1>1, <2>1 DEF TLSMemBefore, TLSFileBefore, EHFrameBefore
    <2>3. /\ TLSMemSize_s' = TLSMemBefore' /\ TLSFileSize_s' = TLSFileBefore' /\ EHFrameSize_s' = EHFrameBefore'
      BY <1>1, <2>2
    <2>4. TLSMemSize_s' \in Nat /\ TLSFileSize_s' \in Nat /\ \E k \in Nat : EHFrameSize_s' = 12 + 8 * k
      BY <1>4, <2>2, <2>3
    <2> QED BY <1>1, <2>3, <2>4 DEF Sized
  <1>17. Verdict'
    BY <1>1 DEF Verdict, Check!FirstLinkSucceeds, Check!PassMeansSame, Check!FailsOnlyForThreeReasons
  <1> QED BY <1>5, <1>7, <1>8, <1>15, <1>16, <1>17 DEF CheckInv


\* What the second link collects is what the first output says, when it found
\* what the first one did; the frames agree in any case.
LEMMA SecondCollects ==
    ASSUME CheckInv, run = 2, label = "emit"
    PROVE  /\ FdesTotal = output[1].fdes
           /\ Same =>
                /\ Check!Names \ Check!link_binaries = Check!ToSet(output[1].needs)
                /\ {v \in Check!Imported : v[1] \notin Check!link_binaries} = output[1].imports
                /\ Check!Reexported \cup Own = output[1].reexports
                /\ TLSMemTotal = output[1].tls.memsz /\ TLSFileTotal = output[1].tls.filesz
  <1> DEFINE K == Check!link_binaries
  <1>0. CheckStage /\ Found /\ Loaded /\ Filed /\ Second /\ Sized /\ Versioned /\ FirstOutput
    BY DEF CheckInv, Second
  <1>1. queue = <<>>
    BY <1>0 DEF Loaded
  <1>2. FdesTotal = output[1].fdes
    <2>1. /\ EHFrameSize_s = 12 + 8 * FdesTotal /\ EHFrameSize_s = Keep(EHFrameBefore, 12 + 8 * FdesTotal)
          /\ FdesTotal \in Nat /\ output[1].fdes \in Nat
      BY <1>0, MetTyped DEF Sized, FirstOutput
    <2> QED BY <2>1 DEF Keep, EHFrameBefore
  <1>3. SUFFICES ASSUME Same
                 PROVE  /\ Check!Names \ K = Check!ToSet(output[1].needs)
                        /\ {v \in Check!Imported : v[1] \notin K} = output[1].imports
                        /\ Check!Reexported \cup Own = output[1].reexports
                        /\ TLSMemTotal = output[1].tls.memsz /\ TLSFileTotal = output[1].tls.filesz
    BY <1>2
  <1>4. /\ Check!Main = cmd.out /\ Check!Bin(cmd.out) = output[1] /\ cmd.out \in K /\ cmd.out \in Known
        /\ cmd.out \notin Check!Names /\ Check!Names \subseteq FirstNames
        /\ \A n \in Check!Names : Check!Bin(n) = Copy(n) /\ (n \in K <=> n \in Inside)
        /\ \A n \in K : n = cmd.out \/ (n \in Check!Names /\ n \in Inside /\ Check!Bin(n) = Copy(n))
    BY <1>0, <1>3, SecondFinds
  <1>5. /\ Check!ToSet(output[1].needs) = FirstNames \ Inside /\ output[1].exports = {}
        /\ output[1].imports = {v \in UNION {Copy(n).imports : n \in Inside} : v[1] \notin Inside}
        /\ output[1].reexports = OldVersions \cup OwnVersions
    BY <1>0 DEF FirstOutput
  <1>6. \A n \in Known : Check!ToSet(Check!Bin(n).needs) \subseteq Check!Names
    BY <1>0, <1>1, AllLoaded
  <1>7. Check!Names \ K = Check!ToSet(output[1].needs)
    <2>1. Check!ToSet(output[1].needs) \subseteq Check!Names
      BY <1>4, <1>6
    <2> QED BY <1>4, <1>5, <2>1
  <1>8. \A n \in K : n \in Known /\ KnownBinary(Check!Bin(n))
    BY <1>0, MetTyped, KnownTyped DEF KnownGood
  <1>9. \A n \in K : \A v \in Check!Bin(n).imports : v[1] \in Check!Names
    BY <1>6, <1>8 DEF KnownBinary
  <1>10. ASSUME NEW v \in output[1].imports PROVE v \in Check!Imported /\ v[1] \notin K
    <2>1. v \in Check!Imported
      BY <1>4 DEF Check!Imported
    <2>2. v[1] \in Check!Names /\ v[1] \notin Inside
      BY <1>4, <1>5, <1>9
    <2> QED BY <1>4, <2>1, <2>2
  <1>11. ASSUME NEW v \in Check!Imported, v[1] \notin K PROVE v \in output[1].imports
    <2>1. PICK n \in K : v \in Check!Bin(n).imports
      BY DEF Check!Imported
    <2>2. CASE n = cmd.out
      BY <1>4, <2>1, <2>2
    <2>3. CASE n \in Inside /\ Check!Bin(n) = Copy(n)
      <3>1. v[1] \in Check!Names
        BY <1>9, <2>1
      <3>2. v[1] \notin Inside
        BY <1>4, <1>11, <3>1
      <3>3. v \in UNION {Copy(m).imports : m \in Inside}
        BY <2>1, <2>3
      <3> QED BY <1>5, <3>2, <3>3
    <2> QED BY <1>4, <2>1, <2>2, <2>3
  <1>12. {v \in Check!Imported : v[1] \notin K} = output[1].imports
    <2> HIDE DEF K
    <2> QED BY <1>10, <1>11
  <1>13. output[1].reexports \subseteq Check!Reexported
    BY <1>4 DEF Check!Reexported
  <1>14. ASSUME NEW v \in Check!Reexported PROVE v \in output[1].reexports
    <2>1. PICK n \in K : v \in Check!Bin(n).reexports
      BY DEF Check!Reexported
    <2>2. CASE n = cmd.out
      BY <1>4, <2>1, <2>2
    <2>3. CASE n \in Inside /\ Check!Bin(n) = Copy(n)
      <3>1. v \in OldVersions
        BY <2>1, <2>3 DEF OldVersions
      <3> QED BY <1>5, <3>1
    <2> QED BY <1>4, <2>1, <2>2, <2>3
  <1>15. Own \subseteq output[1].reexports
    <2>1. SUFFICES ASSUME NEW n \in K, NEW v \in Check!Bin(n).exports PROVE <<n, v>> \in output[1].reexports
      BY DEF Own
    <2>2. n \in Inside /\ v \in Copy(n).exports
      BY <1>4, <1>5, <2>1
    <2>3. <<n, v>> \in OwnVersions
      BY <2>2 DEF OwnVersions
    <2> QED BY <1>5, <2>3
  <1>16. Check!Reexported \cup Own = output[1].reexports
    BY <1>13, <1>14, <1>15
  <1> DEFINE mem == [n \in K |-> Check!Bin(n).tls.memsz]
             file == [n \in K |-> Check!Bin(n).tls.filesz]
  <1>17. SumOf(TLSMemTotal, mem, K) /\ SumOf(TLSFileTotal, file, K)
    BY <1>0, MetTyped
  <1>18. TLSMemTotal = output[1].tls.memsz
    <2>1. TLSMemTotal = Keep(output[1].tls.memsz, TLSMemTotal)
      BY <1>0 DEF Sized, TLSMemBefore
    <2>2. ASSUME output[1].tls.memsz = 0 PROVE TLSMemTotal = 0
      <3>1. \A n \in Inside : Copy(n).tls.memsz = 0
        BY <1>0, <2>2 DEF FirstOutput
      <3>2. \A n \in K : mem[n] = 0
        BY <1>4, <2>2, <3>1
      <3> HIDE DEF mem, K
      <3> QED BY <1>17, <3>2 DEF SumOf
    <2> QED BY <2>1, <2>2 DEF Keep
  <1>19. TLSFileTotal = output[1].tls.filesz
    <2>1. TLSFileTotal = Keep(output[1].tls.filesz, TLSFileTotal)
      <3>1. TLSMemSize_s = TLSMemTotal
        BY <1>0 DEF Sized
      <3> QED BY <3>1, FileAgree DEF TLSFileBefore
    <2>2. ASSUME output[1].tls.filesz = 0 PROVE TLSFileTotal = 0
      <3>1. \A n \in Inside : Copy(n).tls.filesz = 0
        BY <1>0, <2>2 DEF FirstOutput
      <3>2. \A n \in K : file[n] = 0
        BY <1>4, <2>2, <3>1
      <3> HIDE DEF file, K
      <3> QED BY <1>17, <3>2 DEF SumOf
    <2> QED BY <2>1, <2>2 DEF Keep
  <1> QED BY <1>7, <1>12, <1>16, <1>18, <1>19

\* The second link writes the same, or found something else.
LEMMA StepSecondEmit == CheckInv /\ Check!Emit /\ run = 2 => CheckInv'
  <1> SUFFICES ASSUME CheckInv, Check!Emit, run = 2 PROVE CheckInv'
    OBVIOUS
  <1> DEFINE K == Check!link_binaries
  <1>0. CheckStage /\ Found /\ Loaded /\ Filed /\ Second /\ OnPath /\ Relinked /\ Sized /\ Versioned /\ Verdict
    BY DEF CheckInv
  <1>1. /\ label = "emit" /\ queue = <<>> /\ run' = run /\ label' = "done"
        /\ UNCHANGED <<cmd, queue, libraries, file_of, exposed, public, TLSMemSize_s, TLSFileSize_s, EHFrameSize_s>>
        /\ Check!ToSet(Check!Needs) = Check!Names \ K
        /\ TLSMemSize_s = TLSMemTotal /\ TLSFileSize_s = TLSFileTotal /\ EHFrameSize_s = 12 + 8 * FdesTotal
    BY Emitted
  <1>2. output' = <<output[1], Written>>
    <2>1. output = <<output[1]>> /\ output' = Append(output, Written)
      BY <1>0, Emitted DEF CheckStage
    <2> DEFINE first == output[1]
    <2> HIDE DEF Written, first
    <2>2. output = <<first>>
      BY <2>1 DEF first
    <2>3. Append(<<first>>, Written) = <<first, Written>>
      BY PairOf
    <2>4. output' = <<first, Written>>
      BY <2>1, <2>2, <2>3, Zenon
    <2> QED BY <2>4 DEF first
  <1>3. output'[1] = output[1] /\ output'[2] = Written
    <2> HIDE DEF Written
    <2> QED BY <1>2
  <1>4. CheckStage'
    BY <1>0, <1>1, <1>2, <1>3 DEF CheckStage, Check!Labels
  <1>5. /\ Check!Main' = Check!Main /\ Check!Names' = Check!Names /\ Known' = Known
        /\ Check!link_binaries' = K /\ (\A n : Check!Bin(n)' = Check!Bin(n))
        /\ TLSMemTotal' = TLSMemTotal /\ TLSFileTotal' = TLSFileTotal /\ FdesTotal' = FdesTotal
        /\ TLSMemBefore' = TLSMemBefore /\ TLSFileBefore' = TLSFileBefore /\ EHFrameBefore' = EHFrameBefore
        /\ \A n : Check!ToSet(Check!Bin(n).needs)' = Check!ToSet(Check!Bin(n).needs)
    BY <1>0, <1>1, <1>3, StateKept
  <1>6. Loaded'
    <2>1. \A n \in Known : Visited(n)
      BY <1>0, <1>1, AllLoaded DEF Visited
    <2>2. \A n \in Known' : Visited(n)'
      BY <1>5, <2>1 DEF Visited
    <2>3. queue' \in Seq(Known')
      BY <1>1
    <2> QED BY <1>1, <2>2, <2>3 DEF Loaded
  <1>7. Filed'
    <2>1. Check!NoSoname' = Check!NoSoname
      BY DEF Check!NoSoname
    <2> QED BY <1>0, <1>1, <1>5, <2>1 DEF Filed
  <1>8. Second'
    BY <1>0, <1>1, <1>3, FirstOutputKept DEF Second
  <1>9. Found' /\ OnPath'
    BY <1>0, <1>1, FoundKept, OnPathKept
  <1>10. Relinked'
    <2>1. Same' <=> Same
      BY <1>1 DEF Same, FirstNames
    <2> QED BY <1>0, <1>1, <1>5, <2>1 DEF Relinked
  <1>11. Sized'
    <2>1. /\ TLSMemSize_s' = TLSMemTotal' /\ TLSFileSize_s' = Keep(TLSFileBefore, TLSFileTotal)'
          /\ TLSMemSize_s' = Keep(TLSMemBefore, TLSMemTotal)'
          /\ EHFrameSize_s' = Keep(EHFrameBefore, 12 + 8 * FdesTotal)'
          /\ EHFrameSize_s' = 12 + 8 * FdesTotal'
      BY <1>0, <1>1, <1>5 DEF Sized, Keep
    <2>2. /\ TLSMemSize_s' \in Nat /\ TLSFileSize_s' \in Nat
          /\ EHFrameSize_s' = 0 \/ \E k \in Nat : EHFrameSize_s' = 12 + 8 * k
      BY <1>0, <1>1 DEF Sized
    <2> QED BY <1>1, <2>1, <2>2 DEF Sized, Keep
  <1>12. Versioned'
    BY <1>1 DEF Versioned
  <1>13. /\ output'[2].fdes = FdesTotal /\ output'[2].tls = [filesz |-> TLSFileTotal, memsz |-> TLSMemTotal]
         /\ output'[2].needs = Check!Needs /\ output'[2].imports = exposed /\ output'[2].reexports = public
    BY <1>3 DEF Written
  <1>14. FdesTotal = output[1].fdes
    BY <1>1, SecondCollects
  <1>15. /\ Check!TLSMemSize' = Check!TLSMemBuilt' /\ Check!TLSFileSize' = Check!TLSFileBuilt'
         /\ Check!EHFrameSize' = Check!EHFrameBuilt'
    <2>1. TLSMemSize_s' = TLSMemTotal' /\ TLSFileSize_s' = TLSFileTotal' /\ EHFrameSize_s' = 12 + 8 * FdesTotal'
      BY <1>1, <1>5
    <2> QED BY <2>1, TotalsHoldNext DEF Totals, Keep
  <1>16. CASE Same
    <2>1. /\ Check!Names \ K = Check!ToSet(output[1].needs)
          /\ {v \in Check!Imported : v[1] \notin K} = output[1].imports
          /\ Check!Reexported \cup Own = output[1].reexports
          /\ TLSMemTotal = output[1].tls.memsz /\ TLSFileTotal = output[1].tls.filesz
      BY <1>1, <1>16, SecondCollects
    <2>2. exposed = output[1].imports /\ public = output[1].reexports
      BY <1>0, <1>1, <2>1 DEF Versioned, Own
    <2>3. output[1].tls \in [filesz : Nat, memsz : Nat]
      BY <1>0 DEF Second, FirstOutput
    <2>4. output'[2].tls = output'[1].tls
      BY <1>3, <1>13, <2>1, <2>3
    <2>5. Check!ToSet(output[2].needs)' = Check!ToSet(output[1].needs)'
      <3>1. /\ Check!ToSet(output[2].needs)' = Check!ToSet(output'[2].needs)
            /\ Check!ToSet(output[1].needs)' = Check!ToSet(output'[1].needs)
        BY Zenon DEF Check!ToSet
      <3> QED BY <1>1, <1>3, <1>13, <2>1, <3>1
    <2>6. Check!PassMeansSame'
      BY <1>3, <1>13, <1>14, <1>15, <2>2, <2>4, <2>5 DEF Check!PassMeansSame
    <2>7. Verdict'
      BY <1>1, <2>6 DEF Verdict, Check!FirstLinkSucceeds, Check!FailsOnlyForThreeReasons
    <2> QED BY <1>4, <1>6, <1>7, <1>8, <1>9, <1>10, <1>11, <1>12, <2>7 DEF CheckInv
  <1>17. CASE ~Same
    <2>1. Check!Misplaced
      BY <1>0, <1>17, NotSame
    <2>2. Check!Misplaced'
      BY <1>0, <1>1, <1>3, <2>1, MisplacedKept
    <2>3. Check!PassMeansSame'
      BY <1>3, <1>13, <1>14, <1>15, <2>2 DEF Check!PassMeansSame
    <2>4. Verdict'
      BY <1>1, <2>3 DEF Verdict, Check!FirstLinkSucceeds, Check!FailsOnlyForThreeReasons
    <2> QED BY <1>4, <1>6, <1>7, <1>8, <1>9, <1>10, <1>11, <1>12, <2>4 DEF CheckInv
  <1> QED BY <1>16, <1>17

\* Emit, in either link.
LEMMA StepEmit == CheckInv /\ Check!Emit => CheckInv'
  BY StepFirstEmit, StepSecondEmit DEF CheckInv, CheckStage

\* A step of another part changes nothing.
LEMMA CheckStutter == CheckInv /\ UNCHANGED check_vars => CheckInv'
  <1> SUFFICES ASSUME CheckInv, UNCHANGED check_vars PROVE CheckInv'
    OBVIOUS
  <1>0. CheckStage /\ Found /\ Loaded /\ Filed /\ Second /\ OnPath /\ Relinked /\ Sized /\ Versioned /\ Verdict
    BY DEF CheckInv
  <1>1. UNCHANGED <<cmd, run, label, queue, libraries, file_of, exposed, public, TLSMemSize_s,
                    TLSFileSize_s, EHFrameSize_s, output>>
    BY DEF check_vars
  <1>2. CheckStage'
    BY <1>0, <1>1 DEF CheckStage, Check!Labels
  <1>3. /\ Check!Main' = Check!Main /\ Check!Names' = Check!Names /\ Known' = Known
        /\ Check!link_binaries' = Check!link_binaries /\ (\A n : Check!Bin(n)' = Check!Bin(n))
        /\ TLSMemTotal' = TLSMemTotal /\ TLSFileTotal' = TLSFileTotal /\ FdesTotal' = FdesTotal
        /\ Check!Imported' = Check!Imported /\ Check!Reexported' = Check!Reexported
        /\ Check!Exporters' = Check!Exporters
        /\ TLSMemBefore' = TLSMemBefore /\ TLSFileBefore' = TLSFileBefore /\ EHFrameBefore' = EHFrameBefore
        /\ \A n : Check!ToSet(Check!Bin(n).needs)' = Check!ToSet(Check!Bin(n).needs)
    BY <1>0, <1>1, StateKept
  <1>4. Loaded'
    <2>1. Check!ToSet(queue)' = Check!ToSet(queue)
      BY <1>1 DEF Check!ToSet
    <2>2. \A n : Visited(n)' <=> Visited(n)
      BY <1>3 DEF Visited
    <2> QED BY <1>0, <1>1, <1>3, <2>1, <2>2 DEF Loaded
  <1>5. Filed'
    <2>1. Check!NoSoname' = Check!NoSoname
      BY DEF Check!NoSoname
    <2> QED BY <1>0, <1>1, <1>3, <2>1 DEF Filed
  <1>6. Second'
    BY <1>0, <1>1, FirstOutputKept DEF Second
  <1>7. Found' /\ OnPath'
    BY <1>0, <1>1, FoundKept, OnPathKept
  <1>8. Relinked'
    <2>1. Same' <=> Same
      BY <1>1 DEF Same, FirstNames
    <2> QED BY <1>0, <1>1, <1>3, <2>1 DEF Relinked
  <1>9. Sized'
    BY <1>0, <1>1, <1>3 DEF Sized, Keep
  <1>10. Versioned'
    <2>1. Check!Registered' = Check!Registered /\ Own' = Own
      BY <1>1, <1>3 DEF Check!Registered, Own
    <2>2. /\ {v[1] : v \in Check!Imported \cup Check!Reexported}' =
                {v[1] : v \in Check!Imported \cup Check!Reexported}
          /\ {v \in Check!Imported : v[1] \notin Check!link_binaries}' =
                {v \in Check!Imported : v[1] \notin Check!link_binaries}
      BY <1>3
    <2> QED BY <1>0, <1>1, <1>3, <2>1, <2>2 DEF Versioned, Own
  <1>11. Verdict'
    <2>1. /\ Check!ToSet(output[1].needs)' = Check!ToSet(output[1].needs)
          /\ Check!ToSet(output[2].needs)' = Check!ToSet(output[2].needs)
      BY <1>1 DEF Check!ToSet
    <2>2. (Check!Misplaced' <=> Check!Misplaced) /\ (Check!Unlinkable' <=> Check!Unlinkable)
      BY <1>0, <1>1, MisplacedKept
    <2>3. /\ Check!TLSMemSize' = Check!TLSMemSize /\ Check!TLSMemBuilt' = Check!TLSMemBuilt
          /\ Check!TLSFileSize' = Check!TLSFileSize /\ Check!TLSFileBuilt' = Check!TLSFileBuilt
          /\ Check!EHFrameSize' = Check!EHFrameSize /\ Check!EHFrameBuilt' = Check!EHFrameBuilt
      BY <1>1, <1>3, TotalsHold, TotalsHoldNext DEF Totals, Keep
    <2>4. Check!FirstLinkSucceeds'
      BY <1>0, <1>1, <2>2 DEF Verdict, Check!FirstLinkSucceeds
    <2>5. Check!PassMeansSame'
      BY <1>0, <1>1, <2>1, <2>2, <2>3 DEF Verdict, Check!PassMeansSame
    <2>6. Check!FailsOnlyForThreeReasons'
      BY <1>0, <1>1, <1>3, <2>1, <2>2 DEF Verdict, Check!FailsOnlyForThreeReasons
    <2> QED BY <2>4, <2>5, <2>6 DEF Verdict
  <1> QED BY <1>2, <1>4, <1>5, <1>6, <1>7, <1>8, <1>9, <1>10, <1>11 DEF CheckInv

\* Every action keeps the invariant.
LEMMA CheckStep == CheckInv /\ Check!Next => CheckInv'
  BY StepConstruct, StepResolve, StepDecideMemOffset, StepCollectTLS, StepCollectSymbols,
     StepBuildVersions, StepBuildLoads, StepBuildEHFrame, StepEmit DEF Check!Next

\* When all binaries search the same directories, the second link finds what the
\* first one did.
LEMMA CommonPath ==
    ASSUME CheckInv, run = 2, Check!OnePath
    PROVE  ~Check!Misplaced
  <1>0. CheckStage /\ Found /\ Loaded /\ Second /\ OnPath
    BY DEF CheckInv
  <1> DEFINE P == cmd.disk[cmd.from][cmd.main].paths[cmd.from]
  <1>1. cmd.from \in DOMAIN cmd.disk /\ cmd.main \in DOMAIN cmd.disk[cmd.from]
    BY <1>0, CommandTyped DEF CheckStage
  <1>2. Common(P)
    BY <1>1 DEF Check!OnePath, Common
  <1> HIDE DEF P
  <1>3. Same /\ \A n \in FirstNames : libraries[1][n] = Check!FirstOf(P, n)
    BY <1>0, <1>2 DEF OnPath, FirstNames
  <1>4. \A n \in DOMAIN libraries[2] : libraries[2][n] = Check!Before(n)
    BY <1>3 DEF Same, Check!Before, FirstNames
  <1>5. ASSUME queue # <<>>, NEW m \in Check!ToSet(Check!Bin(Head(queue)).needs) \ Check!Names
        PROVE  Check!Where(Head(queue), m) = Check!Before(m)
    <2>1. Head(queue) \in Known
      BY <1>0, <1>5, FrontOf DEF Loaded
    <2>2. Check!Where(Head(queue), m) = Check!FirstOf(P, m)
      BY <1>0, <1>2, <2>1, WhereIs
    <2>3. m \in FirstNames
      BY <1>0, <1>3, <1>5, <2>1, AllLoadedBefore
    <2> QED BY <1>3, <2>2, <2>3 DEF Check!Before, FirstNames
  <1> QED BY <1>4, <1>5 DEF Check!Misplaced

\* When everything is loaded, the library that brings another back is not linked.
LEMMA CheckMeans ==
    ASSUME CheckInv
    PROVE  /\ Check!FirstLinkSucceeds /\ Check!MisplacedOnlyByPaths /\ Check!RelinksOnlyThroughExcluded
           /\ Check!PassMeansSame /\ Check!FailsOnlyForThreeReasons
  <1>1. Check!FirstLinkSucceeds /\ Check!PassMeansSame /\ Check!FailsOnlyForThreeReasons
    BY DEF CheckInv, Verdict
  <1>2. Check!MisplacedOnlyByPaths
    BY CommonPath DEF Check!MisplacedOnlyByPaths
  <1>3. Check!RelinksOnlyThroughExcluded
    BY NotSame DEF CheckInv, Relinked, Check!RelinksOnlyThroughExcluded
  <1> QED BY <1>1, <1>2, <1>3

\* When the first link's cached sizes meet the check: the first link never
\* stops because of them, and the check decides as the property says, wherever
\* each library is found.
THEOREM CheckDecidesHolds == Spec => []CheckDecides
  <1> DEFINE I == part = "check" => CheckInv
  <1>1. Init => I
    BY CheckInit DEF Init
  <1>2. I /\ [Next]_vars => I'
    <2> SUFFICES ASSUME I, [Next]_vars, part' = "check" PROVE CheckInv'
      OBVIOUS
    <2>1. part = "check" /\ (Check!Next \/ UNCHANGED check_vars)
      BY DEF Next, vars, Protect, Load, Rename, Relink
    <2> QED BY <2>1, CheckStep, CheckStutter
  <1>3. I => CheckDecides
    BY CheckMeans DEF CheckDecides
  <1> QED BY <1>1, <1>2, <1>3, PTL DEF Spec

-----------------------------------------------------------------------------
(***************************************************************************)
(* String tables (StrtabBuilder).                                          *)
(***************************************************************************)
Words == Seq(Nat \ {0})

\* The table T has the string t at position p.
StringAt(T, p, t) ==
    /\ p \in Nat /\ p + Len(t) + 1 \in 1..Len(T) /\ T[p + Len(t) + 1] = 0
    /\ \A j \in 1..Len(t) : T[p + j] = t[j]

\* The positions of strings.
Caches == UNION {[D -> Nat] : D \in SUBSET Words}
Tables == [strtab : Seq(Nat), cache : Caches, is_freezed : BOOLEAN]

\* The builders that know where their strings are.
GoodTables == {b \in Tables : \A t \in DOMAIN b.cache : StringAt(b.strtab, b.cache[t], t)}

\* The builder c has the strings of b in the places of b.
Keeps(b, c) ==
    /\ \A t \in DOMAIN b.cache : t \in DOMAIN c.cache /\ c.cache[t] = b.cache[t]
    /\ c.is_freezed = b.is_freezed

\* A function on an interval is a sequence.
LEMMA TupleIsSeq == ASSUME NEW n \in Nat, NEW S, NEW f \in [1..n -> S]
                    PROVE  f \in Seq(S) /\ Len(f) = n
  BY SeqDef

\* A word has a length and letters.
LEMMA WordTyped == ASSUME NEW t \in Words
                   PROVE  Len(t) \in Nat /\ \A j \in 1..Len(t) : t[j] \in Nat \ {0}
  BY DEF Words

\* Reading where a string is gives the string.
LEMMA StrIs ==
    ASSUME NEW T \in Seq(Nat), NEW p, NEW t \in Words, StringAt(T, p, t)
    PROVE  Ren!Str(T, p) = t
  <1> DEFINE n == Len(t)
             EndsAt(e) == (e = Len(T) \/ T[e + 1] = 0) /\ \A k \in p..(e - 1) : T[k + 1] # 0
             end == CHOOSE e \in p..Len(T) : EndsAt(e)
  <1>1. p \in Nat /\ n \in Nat /\ p + n < Len(T) /\ Len(T) \in Nat /\ T[p + n + 1] = 0
    BY WordTyped DEF StringAt
  <1>2. \A k \in p..(p + n - 1) : T[k + 1] # 0
    <2>1. TAKE k \in p..(p + n - 1)
    <2>2. k + 1 - p \in 1..n /\ p + (k + 1 - p) = k + 1
      BY <1>1
    <2>3. T[k + 1] = t[k + 1 - p]
      BY <2>2 DEF StringAt
    <2> QED BY <2>2, <2>3, WordTyped
  <1>3. p + n \in p..Len(T) /\ EndsAt(p + n)
    BY <1>1, <1>2
  <1>4. \A e \in p..Len(T) : EndsAt(e) => e = p + n
    <2>1. SUFFICES ASSUME NEW e \in p..Len(T), EndsAt(e), e # p + n PROVE FALSE
      OBVIOUS
    <2>2. CASE e < p + n
      <3>1. e \in p..(p + n - 1) /\ e # Len(T)
        BY <1>1, <2>2
      <3> QED BY <1>2, <2>1, <3>1
    <2>3. CASE e > p + n
      <3>1. p + n \in p..(e - 1)
        BY <1>1, <2>3
      <3> QED BY <1>1, <2>1, <3>1
    <2> HIDE DEF EndsAt
    <2>4. e < p + n \/ e > p + n
      BY <1>1, <2>1
    <2> QED BY <2>2, <2>3, <2>4
  <1>5. end = p + n
    <2> HIDE DEF EndsAt
    <2> QED BY <1>3, <1>4
  <1>6. Ren!Str(T, p) = SubSeq(T, p + 1, end)
    BY Zenon DEF Ren!Str
  <1> HIDE DEF end
  <1>7. SubSeq(T, p + 1, p + n) = t
    <2> DEFINE s == SubSeq(T, p + 1, p + n)
    <2>1. s = [j \in 1..n |-> T[p + j]]
      BY <1>1
    <2>2. \A j \in 1..n : s[j] = t[j]
      BY <2>1 DEF StringAt
    <2>3. t = [j \in 1..n |-> t[j]]
      BY DEF Words
    <2> QED BY <2>1, <2>2, <2>3
  <1> QED BY <1>5, <1>6, <1>7

\* What is read inside a table is a word.
LEMMA StrTyped ==
    ASSUME NEW T \in Seq(Nat), NEW p \in Nat, p < Len(T)
    PROVE  Ren!Str(T, p) \in Words
  <1> DEFINE EndsAt(e) == (e = Len(T) \/ T[e + 1] = 0) /\ \A k \in p..(e - 1) : T[k + 1] # 0
             end == CHOOSE e \in p..Len(T) : EndsAt(e)
             S == {e \in p..Len(T) : e = Len(T) \/ T[e + 1] = 0}
  <1>1. Len(T) \in Nat /\ Len(T) \in S /\ S \subseteq Nat
    OBVIOUS
  <1>2. PICK e \in S : \A x \in S : e <= x
    <2> HIDE DEF S
    <2> QED BY <1>1, LeastNatural
  <1>3. EndsAt(e)
    <2>1. ASSUME NEW k \in p..(e - 1), T[k + 1] = 0 PROVE FALSE
      <3>1. k \in S /\ ~(e <= k)
        BY <1>1, <2>1
      <3> QED BY <1>2, <3>1
    <2> QED BY <1>2, <2>1
  <1>4. end \in p..Len(T) /\ EndsAt(end)
    <2>1. e \in p..Len(T)
      OBVIOUS
    <2> HIDE DEF EndsAt
    <2> QED BY <1>3, <2>1
  <1>5. Ren!Str(T, p) = SubSeq(T, p + 1, end)
    BY Zenon DEF Ren!Str
  <1>6. \A k \in p..(end - 1) : T[k + 1] # 0
    BY <1>4
  <1> HIDE DEF end
  <1>7. \A j \in 1..(end - p) : T[p + j] \in Nat \ {0}
    <2>1. TAKE j \in 1..(end - p)
    <2>2. p + j - 1 \in p..(end - 1) /\ p + j \in 1..Len(T) /\ (p + j - 1) + 1 = p + j
      BY <1>4
    <2> QED BY <1>6, <2>2
  <1>8. SubSeq(T, p + 1, end) = [j \in 1..(end - p) |-> T[p + j]]
    BY <1>4
  <1>9. end - p \in Nat
    BY <1>4
  <1> DEFINE n == end - p
             s == [j \in 1..n |-> T[p + j]]
  <1>10. s \in [1..n -> Nat \ {0}]
    BY <1>7
  <1>11. Ren!Str(T, p) = s
    BY <1>5, <1>8
  <1> HIDE DEF s, n
  <1>12. s \in Seq(Nat \ {0})
    <2>1. n \in Nat
      BY <1>9 DEF n
    <2> QED BY <1>10, <2>1, TupleIsSeq
  <1> QED BY <1>11, <1>12 DEF Words

\* What a builder in use has.
LEMMA TableTyped ==
    ASSUME NEW b \in GoodTables
    PROVE  /\ b.strtab \in Seq(Nat) /\ Len(b.strtab) \in Nat /\ b.is_freezed \in BOOLEAN
           /\ b = [strtab |-> b.strtab, cache |-> b.cache, is_freezed |-> b.is_freezed]
           /\ DOMAIN b.cache \subseteq Words /\ b.cache \in [DOMAIN b.cache -> Nat]
           /\ \A t \in DOMAIN b.cache : StringAt(b.strtab, b.cache[t], t)
  <1>1. b \in Tables /\ \A t \in DOMAIN b.cache : StringAt(b.strtab, b.cache[t], t)
    BY DEF GoodTables
  <1>2. b.strtab \in Seq(Nat) /\ b.cache \in Caches /\ b.is_freezed \in BOOLEAN
        /\ b = [strtab |-> b.strtab, cache |-> b.cache, is_freezed |-> b.is_freezed]
    BY <1>1 DEF Tables
  <1>3. PICK D \in SUBSET Words : b.cache \in [D -> Nat]
    BY <1>2 DEF Caches
  <1> QED BY <1>1, <1>2, <1>3

\* Updating the fields of a builder.
LEMMA TableExcept ==
    ASSUME NEW b \in Tables, NEW x, NEW y, NEW z
    PROVE  /\ [b EXCEPT !.strtab = x, !.cache = y] = [strtab |-> x, cache |-> y, is_freezed |-> b.is_freezed]
           /\ [b EXCEPT !.is_freezed = z] = [strtab |-> b.strtab, cache |-> b.cache, is_freezed |-> z]
  <1> DEFINE r == [b EXCEPT !.strtab = x]
  <1>1. r = [strtab |-> x, cache |-> b.cache, is_freezed |-> b.is_freezed]
    BY DEF Tables
  <1>2. [b EXCEPT !.is_freezed = z] = [strtab |-> b.strtab, cache |-> b.cache, is_freezed |-> z]
    BY DEF Tables
  <1> HIDE DEF r
  <1>3. [r EXCEPT !.cache = y] = [strtab |-> x, cache |-> y, is_freezed |-> b.is_freezed]
    BY <1>1
  <1> QED BY <1>2, <1>3 DEF r

\* Appending a string leaves the others where they are.
LEMMA AppendedGives ==
    ASSUME NEW b \in GoodTables, NEW t \in Words, t \notin DOMAIN b.cache
    PROVE  /\ Ren!Appended(b, t) \in GoodTables /\ Keeps(b, Ren!Appended(b, t))
           /\ t \in DOMAIN Ren!Appended(b, t).cache
  <1> DEFINE c == Ren!Appended(b, t)
             T == b.strtab \o Append(t, 0)
             n == Len(b.strtab)
             f == Ren!Put(b.cache, t, n)
  <1>1. c = [strtab |-> T, cache |-> f, is_freezed |-> b.is_freezed]
    <2>1. b \in Tables
      BY DEF GoodTables
    <2>2. c = [b EXCEPT !.strtab = T, !.cache = f]
      BY DEF Ren!Appended
    <2> HIDE DEF c, T, f
    <2> QED BY <2>1, <2>2, TableExcept
  <1>2. /\ T \in Seq(Nat) /\ Len(T) = n + Len(t) + 1 /\ n \in Nat /\ Len(t) \in Nat
        /\ \A k \in 1..n : T[k] = b.strtab[k]
        /\ \A k \in 1..Len(t) : T[n + k] = t[k]
        /\ T[n + Len(t) + 1] = 0
    <2> DEFINE u == Append(t, 0)
    <2>1. t \in Seq(Nat) /\ b.strtab \in Seq(Nat)
      BY TableTyped DEF Words
    <2>2. /\ u \in Seq(Nat) /\ Len(u) = Len(t) + 1 /\ u[Len(t) + 1] = 0
          /\ \A k \in 1..Len(t) : u[k] = t[k]
      BY <2>1
    <2> HIDE DEF u
    <2>3. /\ b.strtab \o u \in Seq(Nat) /\ Len(b.strtab \o u) = n + Len(u)
          /\ \A k \in 1..(n + Len(u)) : (b.strtab \o u)[k] = IF k <= n THEN b.strtab[k] ELSE u[k - n]
      BY <2>1, <2>2, ConcatProperties
    <2>4. n \in Nat /\ Len(t) \in Nat
      BY <2>1
    <2> HIDE DEF n
    <2>5. \A k \in 1..n : k \in 1..(n + Len(u)) /\ k <= n
      BY <2>2, <2>4
    <2>6. \A k \in 1..(Len(t) + 1) : n + k \in 1..(n + Len(u)) /\ ~(n + k <= n) /\ (n + k) - n = k
      BY <2>2, <2>4
    <2>7. \A k \in 1..(Len(t) + 1) : (b.strtab \o u)[n + k] = u[k]
      BY <2>3, <2>6
    <2>8. Len(t) + 1 \in 1..(Len(t) + 1) /\ n + (Len(t) + 1) = n + Len(t) + 1
          /\ \A k \in 1..Len(t) : k \in 1..(Len(t) + 1)
      BY <2>4
    <2>9. (b.strtab \o u)[n + Len(t) + 1] = 0 /\ \A k \in 1..Len(t) : (b.strtab \o u)[n + k] = t[k]
      BY <2>2, <2>7, <2>8
    <2>10. \A k \in 1..n : (b.strtab \o u)[k] = b.strtab[k]
      BY <2>3, <2>5
    <2>11. Len(b.strtab \o u) = n + Len(t) + 1
      BY <2>2, <2>3, <2>4
    <2> QED BY <2>3, <2>4, <2>9, <2>10, <2>11 DEF u, n
  <1>3. /\ DOMAIN f = DOMAIN b.cache \cup {t} /\ f[t] = n
        /\ \A s \in DOMAIN b.cache : f[s] = b.cache[s]
        /\ f \in [DOMAIN b.cache \cup {t} -> Nat]
    BY <1>2, TableTyped DEF Ren!Put
  <1> HIDE DEF T, f
  <1>4. c \in Tables
    <2>1. DOMAIN b.cache \cup {t} \in SUBSET Words
      BY TableTyped
    <2>2. f \in Caches
      BY <1>3, <2>1 DEF Caches
    <2> QED BY <1>1, <1>2, <2>2, TableTyped DEF Tables
  <1>5. ASSUME NEW s \in DOMAIN f PROVE StringAt(T, f[s], s)
    <2>1. CASE s = t
      <3>1. n + Len(t) + 1 \in 1..Len(T)
        BY <1>2
      <3> QED BY <1>2, <1>3, <2>1, <3>1 DEF StringAt
    <2>2. CASE s \in DOMAIN b.cache
      <3>1. StringAt(b.strtab, b.cache[s], s) /\ s \in Words
        BY <2>2, TableTyped
      <3> DEFINE p == b.cache[s]
      <3>2. /\ p \in Nat /\ p + Len(s) + 1 \in 1..n /\ b.strtab[p + Len(s) + 1] = 0
            /\ \A j \in 1..Len(s) : b.strtab[p + j] = s[j]
        BY <3>1 DEF StringAt
      <3>3. Len(s) \in Nat
        BY <3>1, WordTyped
      <3>4. f[s] = p
        BY <1>3, <2>2
      <3> HIDE DEF p
      <3>5. \A j \in 1..Len(s) : p + j \in 1..n
        BY <1>2, <3>2, <3>3
      <3>6. p + Len(s) + 1 \in 1..Len(T)
        BY <1>2, <3>2, <3>3
      <3>7. T[p + Len(s) + 1] = 0 /\ \A j \in 1..Len(s) : T[p + j] = s[j]
        BY <1>2, <3>2, <3>5
      <3> QED BY <3>2, <3>4, <3>6, <3>7 DEF StringAt
    <2> QED BY <1>3, <2>1, <2>2
  <1>6. c.strtab = T /\ c.cache = f /\ c.is_freezed = b.is_freezed
    BY <1>1
  <1> HIDE DEF c
  <1>7. c \in GoodTables
    BY <1>4, <1>5, <1>6 DEF GoodTables
  <1>8. Keeps(b, c) /\ t \in DOMAIN c.cache
    BY <1>3, <1>6 DEF Keeps
  <1> QED BY <1>7, <1>8 DEF c

\* Adding a string gives it a place and leaves the others where they are.
LEMMA AddGives ==
    ASSUME NEW b \in GoodTables, NEW m, NEW s, Ren!Renamed(m, s) \in Words
    PROVE  /\ Ren!Add(b, m, s) \in GoodTables /\ Keeps(b, Ren!Add(b, m, s))
           /\ Ren!Renamed(m, s) \in DOMAIN Ren!Add(b, m, s).cache
           /\ Ren!GetPos(Ren!Add(b, m, s), m, s) = Ren!Add(b, m, s).cache[Ren!Renamed(m, s)]
           /\ Ren!GetPos(Ren!Add(b, m, s), m, s) \in Nat
  <1> DEFINE t == Ren!Renamed(m, s)
             c == Ren!Add(b, m, s)
  <1>1. c = IF t \in DOMAIN b.cache THEN b ELSE Ren!Appended(b, t)
    BY Zenon DEF Ren!Add
  <1>2. Ren!GetPos(c, m, s) = c.cache[t]
    BY Zenon DEF Ren!GetPos
  <1> HIDE DEF c, t
  <1>3. c \in GoodTables /\ Keeps(b, c) /\ t \in DOMAIN c.cache
    <2>1. CASE t \in DOMAIN b.cache
      BY <1>1, <2>1 DEF Keeps
    <2>2. CASE t \notin DOMAIN b.cache
      <3>1. t \in Words
        BY DEF t
      <3> QED BY <1>1, <2>2, <3>1, AppendedGives
    <2> QED BY <2>1, <2>2
  <1>4. c.cache[t] \in Nat
    BY <1>3, TableTyped
  <1> QED BY <1>2, <1>3, <1>4 DEF c, t

\* What one builder keeps of another is kept from the next one on.
LEMMA KeepsKept == ASSUME NEW b, NEW c, NEW d, Keeps(b, c), Keeps(c, d) PROVE Keeps(b, d)
  BY DEF Keeps

\* A string that has been given a place is there.
LEMMA PlaceHolds ==
    ASSUME NEW b \in GoodTables, NEW t \in DOMAIN b.cache
    PROVE  b.cache[t] < Len(b.strtab) /\ Ren!Str(b.strtab, b.cache[t]) = t /\ t \in Words
  <1>1. StringAt(b.strtab, b.cache[t], t) /\ t \in Words /\ b.strtab \in Seq(Nat)
    BY TableTyped
  <1>2. Ren!Str(b.strtab, b.cache[t]) = t
    BY <1>1, StrIs
  <1>3. b.cache[t] \in Nat /\ Len(t) \in Nat /\ b.cache[t] + Len(t) + 1 \in 1..Len(b.strtab) /\ Len(b.strtab) \in Nat
    BY <1>1, WordTyped DEF StringAt
  <1> QED BY <1>1, <1>2, <1>3

\* The empty builder.
LEMMA NewTable == Ren!NewStrtab \in GoodTables /\ DOMAIN Ren!NewStrtab.cache = {} /\ ~Ren!NewStrtab.is_freezed
  <1>1. <<>> \in Seq(Nat) /\ DOMAIN <<>> = {}
    OBVIOUS
  <1>2. <<>> \in [{} -> Nat]
    OBVIOUS
  <1>3. <<>> \in Caches
    BY <1>2, {} \in SUBSET Words DEF Caches
  <1> QED BY <1>1, <1>3 DEF Ren!NewStrtab, GoodTables, Tables

\* Freezing changes nothing else.
LEMMA FreezeGives ==
    ASSUME NEW b \in GoodTables
    PROVE  /\ Ren!Freeze(b) \in GoodTables /\ Ren!Freeze(b).is_freezed
           /\ Ren!Freeze(b).cache = b.cache /\ Ren!Freeze(b).strtab = b.strtab
  <1>1. Ren!Freeze(b) = [strtab |-> b.strtab, cache |-> b.cache, is_freezed |-> TRUE]
    <2>1. b \in Tables
      BY DEF GoodTables
    <2>2. [b EXCEPT !.is_freezed = TRUE] = [strtab |-> b.strtab, cache |-> b.cache, is_freezed |-> TRUE]
      BY <2>1, TableExcept
    <2> QED BY <2>2 DEF Ren!Freeze
  <1>2. b.strtab \in Seq(Nat) /\ b.cache \in Caches
    BY DEF GoodTables, Tables
  <1>3. \A t \in DOMAIN b.cache : StringAt(b.strtab, b.cache[t], t)
    BY TableTyped
  <1>4. Ren!Freeze(b).cache = b.cache /\ Ren!Freeze(b).strtab = b.strtab /\ Ren!Freeze(b).is_freezed = TRUE
    BY <1>1
  <1>5. Ren!Freeze(b) \in Tables
    BY <1>1, <1>2 DEF Tables
  <1> QED BY <1>3, <1>4, <1>5 DEF GoodTables

-----------------------------------------------------------------------------
(***************************************************************************)
(* Hash values.                                                            *)
(***************************************************************************)
LEMMA HashTyped == ASSUME NEW name \in Words PROVE Ren!CalcGnuHash(name) \in Nat
  <1> DEFINE N == Len(name)
             S == Nat
             a == 5381 % HashWidth
             Step == [n \in 1..N |-> [v \in S |-> (v * 33 + name[n]) % HashWidth]]
  <1>0. HashWidth \in Nat \ {0}
    BY OutputUseAssumption DEF Ren!HashWidthAssumption
  <1>1. N \in Nat /\ \A n \in 1..N : name[n] \in Nat
    BY WordTyped
  <1>2. a \in S
    BY <1>0
  <1>3. \A n \in 1..N, v \in S : (v * 33 + name[n]) % HashWidth \in S
    <2>1. TAKE n \in 1..N, v \in S
    <2>2. v * 33 + name[n] \in Nat
      BY <1>1
    <2> DEFINE w == v * 33 + name[n]
    <2> HIDE DEF w
    <2>3. w \in Nat => w % HashWidth \in Nat
      BY <1>0
    <2> QED BY <2>2, <2>3 DEF w
  <1>4. Step \in [1..N -> [S -> S]]
    BY <1>3
  <1>5. \A n \in 1..N, v \in S : Step[n][v] = (v * 33 + name[n]) % HashWidth
    OBVIOUS
  <1> HIDE DEF N, S, a, Step
  <1>6. PICK g \in [0..N -> S] : \A n \in 0..N : g[n] = Recurs(g, a, Step, n)
    <2>1. N \in Nat /\ a \in S /\ Step \in [1..N -> [S -> S]]
      BY <1>1, <1>2, <1>4
    <2>2. \E g \in [0..N -> S] : \A n \in 0..N : g[n] = Recurs(g, a, Step, n)
      BY <2>1, RecursionExists, SMTT(60)
    <2> QED BY <2>2
  <1> DEFINE Is(f) == f = [k \in 0..N |->
                IF k = 0 THEN 5381 % HashWidth ELSE (f[k - 1] * 33 + name[k]) % HashWidth]
             h == CHOOSE f : Is(f)
  <1>7. Ren!CalcGnuHash(name) = h[N]
    BY Zenon DEF Ren!CalcGnuHash, N
  <1>8. \A k \in 0..N : g[k] = IF k = 0 THEN 5381 % HashWidth ELSE (g[k - 1] * 33 + name[k]) % HashWidth
    <2> TAKE k \in 0..N
    <2>1. CASE k = 0
      BY <1>6, <2>1 DEF Recurs, a
    <2>2. CASE k # 0
      <3>1. k \in 1..N /\ k - 1 \in 0..N /\ g[k - 1] \in S
        BY <1>1, <2>2
      <3>2. g[k] = Step[k][g[k - 1]]
        BY <1>6, <2>2 DEF Recurs
      <3> QED BY <1>5, <2>2, <3>1, <3>2
    <2> QED BY <2>1, <2>2
  <1>9. Is(g)
    <2>1. g = [k \in 0..N |-> g[k]]
      OBVIOUS
    <2> QED BY <1>8, <2>1
  <1>10. Is(h)
    <2> HIDE DEF Is
    <2> QED BY <1>9
  <1> HIDE DEF h
  <1> DEFINE T == {k \in 0..N : h[k] \in Nat}
  <1>11. 0 \in T
    BY <1>0, <1>1, <1>10
  <1>12. \A m \in 0..N : m \in T /\ m < N => m + 1 \in T
    <2>1. SUFFICES ASSUME NEW m \in 0..N, h[m] \in Nat, m < N PROVE m + 1 \in 0..N /\ h[m + 1] \in Nat
      OBVIOUS
    <2>2. m + 1 \in 0..N /\ (m + 1) - 1 = m /\ m + 1 # 0 /\ m + 1 \in 1..N
      BY <1>1, <2>1
    <2>3. h[m + 1] = (h[m] * 33 + name[m + 1]) % HashWidth
      BY <1>10, <2>2
    <2>4. (h[m] * 33 + name[m + 1]) % HashWidth \in Nat
      BY <1>3, <2>1, <2>2 DEF S
    <2> QED BY <2>2, <2>3, <2>4
  <1> HIDE DEF T
  <1>13. 0..N \subseteq T
    BY <1>1, <1>11, <1>12, IntervalInduction
  <1>14. N \in T
    BY <1>1, <1>13
  <1> QED BY <1>7, <1>14 DEF T

\* The mark on the end of the chain does not change the rest of the value.
LEMMA MarkApart ==
    ASSUME NEW v \in Nat
    PROVE  /\ Ren!Even(v) \in Nat /\ Ren!Even(v) \div 2 = v \div 2 /\ (Ren!Even(v) + 1) \div 2 = v \div 2
           /\ ~Ren!IsOdd(Ren!Even(v))
  BY DEF Ren!Even, Ren!IsOdd

\* Distinct names are found under their own index, and no other name is found.
LEMMA LookupGives ==
    ASSUME NEW n \in Nat \ {0}, NEW names \in Seq(Words), Len(names) = n,
           \A j, k \in 1..n : names[j] = names[k] => j = k
    PROVE  /\ \A k \in 2..n : Ren!Lookup(Ren!EmitGnuHash(names), names, names[k]) = k - 1
           /\ \A s \in Words : (\A k \in 1..n : names[k] # s)
                 => Ren!Lookup(Ren!EmitGnuHash(names), names, s) = 0
           /\ Len(Ren!EmitGnuHash(names).hashvals) = n - 1
  <1> DEFINE tab == Ren!EmitGnuHash(names)
             Value(i) == Ren!HashValue(names, i)
             vals == [i \in 1..(n - 1) |-> Value(i)]
             H(s) == Ren!CalcGnuHash(s)
  <1>0. DOMAIN names = 1..n /\ \A k \in 1..n : names[k] \in Words
    OBVIOUS
  <1>1. tab.nbuckets = 1 /\ tab.symndx = 1 /\ tab.buckets = <<Ren!BucketOf(names)>> /\ tab.hashvals = vals
    BY DEF Ren!EmitGnuHash
  <1>2. \A i \in 1..(n - 1) : /\ Value(i) \div 2 = H(names[i + 1]) \div 2
                              /\ i # n - 1 => ~Ren!IsOdd(Value(i))
    <2>1. TAKE i \in 1..(n - 1)
    <2>2. i + 1 \in 1..n
      OBVIOUS
    <2> DEFINE v == Ren!CalcGnuHash(names[i + 1])
    <2>3. v \in Nat
      BY <1>0, <2>2, HashTyped
    <2>4. Value(i) = Ren!Even(v) + (IF i = n - 1 THEN 1 ELSE 0)
      BY DEF Ren!HashValue
    <2> HIDE DEF v, Value
    <2>5. /\ Ren!Even(v) \in Nat /\ Ren!Even(v) \div 2 = v \div 2 /\ (Ren!Even(v) + 1) \div 2 = v \div 2
          /\ ~Ren!IsOdd(Ren!Even(v))
      BY <2>3, MarkApart
    <2>6. CASE i = n - 1
      BY <2>4, <2>5, <2>6 DEF v
    <2>7. CASE i # n - 1
      <3>1. Value(i) = Ren!Even(v)
        BY <2>4, <2>5, <2>7
      <3> QED BY <2>5, <3>1 DEF v
    <2> QED BY <2>6, <2>7
  <1> HIDE DEF Value
  <1>3. /\ DOMAIN vals = 1..(n - 1) /\ Len(vals) = n - 1
        /\ \A i \in 1..(n - 1) : vals[i] = Value(i)
    OBVIOUS
  <1> HIDE DEF vals, tab
  <1>4. Ren!ChainFrom(tab, 1) = 1..(n - 1)
    <2>1. Len(tab.hashvals) + tab.symndx - 1 = n - 1
      BY <1>1, <1>3
    <2>2. \A k \in 1..(n - 1) : \A j \in 1..(k - 1) : ~Ren!IsOdd(tab.hashvals[j - tab.symndx + 1])
      <3>1. TAKE k \in 1..(n - 1)
      <3>2. TAKE j \in 1..(k - 1)
      <3>3. j \in 1..(n - 1) /\ j # n - 1 /\ j - 1 + 1 = j
        OBVIOUS
      <3>4. tab.hashvals[j - tab.symndx + 1] = Value(j)
        BY <1>1, <1>3, <3>3
      <3> QED BY <1>2, <3>3, <3>4
    <2>3. Ren!ChainFrom(tab, 1) =
             {k \in 1..(Len(tab.hashvals) + tab.symndx - 1) :
                 \A j \in 1..(k - 1) : ~Ren!IsOdd(tab.hashvals[j - tab.symndx + 1])}
      BY DEF Ren!ChainFrom
    <2> QED BY <2>1, <2>2, <2>3
  <1>5. ASSUME NEW s \in Words
        PROVE  /\ \A k \in 2..n : names[k] = s => Ren!Lookup(tab, names, s) = k - 1
               /\ (\A k \in 1..n : names[k] # s) => Ren!Lookup(tab, names, s) = 0
    <2> DEFINE h == H(s)
               b == tab.buckets[(h % tab.nbuckets) + 1]
               Hits(c) == {k \in Ren!ChainFrom(tab, c) :
                        /\ tab.hashvals[k - tab.symndx + 1] \div 2 = h \div 2
                        /\ names[k + 1] = s}
    <2>1. h \in Nat
      BY HashTyped
    <2>2. Ren!Lookup(tab, names, s) = IF b = 0 \/ Hits(b) = {} THEN 0
                                      ELSE CHOOSE k \in Hits(b) : \A j \in Hits(b) : k <= j
      BY Zenon DEF Ren!Lookup
    <2>3. b = IF n > 1 THEN 1 ELSE 0
      <3>1. (h % tab.nbuckets) + 1 = 1
        BY <1>1, <2>1
      <3> HIDE DEF h
      <3>2. b = Ren!BucketOf(names)
        BY <1>1, <3>1
      <3> QED BY <3>2 DEF Ren!BucketOf
    <2> HIDE DEF b
    <2>4. ASSUME n > 1
          PROVE  b = 1 /\ Hits(b) = {k \in 1..(n - 1) : names[k + 1] = s}
      <3>1. b = 1
        BY <2>3, <2>4
      <3>2. \A k \in 1..(n - 1) : names[k + 1] = s => tab.hashvals[k - tab.symndx + 1] \div 2 = h \div 2
        <4>1. TAKE k \in 1..(n - 1)
        <4>2. k - 1 + 1 = k
          OBVIOUS
        <4>3. tab.hashvals[k - tab.symndx + 1] = Value(k)
          BY <1>1, <1>3, <4>2
        <4> QED BY <1>2, <4>3
      <3> HIDE DEF h
      <3> QED BY <1>4, <3>1, <3>2
    <2> HIDE DEF Hits
    <2>5. ASSUME NEW k \in 2..n, names[k] = s PROVE Ren!Lookup(tab, names, s) = k - 1
      <3>1. n > 1 /\ k - 1 \in 1..(n - 1) /\ (k - 1) + 1 = k
        OBVIOUS
      <3>2. \A j \in 1..(n - 1) : names[j + 1] = s => j = k - 1
        <4>1. TAKE j \in 1..(n - 1)
        <4>2. j + 1 \in 1..n /\ k \in 1..n
          OBVIOUS
        <4>3. names[j + 1] = s => j + 1 = k
          BY <2>5, <4>2
        <4> QED BY <4>3
      <3>3. Hits(b) = {k - 1} /\ b # 0
        BY <2>4, <2>5, <3>1, <3>2
      <3>4. \A j \in {k - 1} : k - 1 <= j
        BY <3>1
      <3>5. (CHOOSE x \in Hits(b) : \A j \in Hits(b) : x <= j) = k - 1
        BY <3>3, <3>4
      <3> QED BY <2>2, <3>3, <3>5
    <2>6. ASSUME \A k \in 1..n : names[k] # s PROVE Ren!Lookup(tab, names, s) = 0
      <3>1. CASE n > 1
        <4>1. \A k \in 1..(n - 1) : k + 1 \in 1..n
          OBVIOUS
        <4>2. Hits(b) = {}
          BY <2>4, <2>6, <3>1, <4>1
        <4> QED BY <2>2, <4>2
      <3>2. CASE ~(n > 1)
        BY <2>2, <2>3, <3>2
      <3> QED BY <3>1, <3>2
    <2> QED BY <2>5, <2>6
  <1>6. \A k \in 2..n : Ren!Lookup(tab, names, names[k]) = k - 1
    <2>1. TAKE k \in 2..n
    <2>2. names[k] \in Words
      BY <1>0
    <2> QED BY <1>5, <2>2
  <1>7. Len(tab.hashvals) = n - 1
    BY <1>1, <1>3
  <1> QED BY <1>5, <1>6, <1>7 DEF tab

-----------------------------------------------------------------------------
(***************************************************************************)
(* Pages, and the largest of some numbers.                                 *)
(***************************************************************************)
\* A multiple of the page size leaves nothing.
LEMMA MultipleLeavesNone == ASSUME NEW q \in Int PROVE (q * Page) % Page = 0
  <1>1. Page \in Nat \ {0}
    BY OutputUseAssumption DEF Ren!PageAssumption
  <1> DEFINE a == q * Page
             d == a \div Page
  <1>2. a \in Int
    BY <1>1
  <1> HIDE DEF a
  <1>3. d \in Int /\ a % Page \in 0..(Page - 1) /\ a = Page * d + (a % Page)
    BY <1>1, <1>2
  <1>4. a = Page * q
    BY <1>1 DEF a
  <1> HIDE DEF d
  <1> DEFINE e == q - d
             r == a % Page
  <1>5. e \in Int /\ q = d + e
    BY <1>3
  <1>6. r \in 0..(Page - 1) /\ Page * q = Page * d + r
    BY <1>3, <1>4
  <1> HIDE DEF e, r
  <1>7. Page * (d + e) = Page * d + Page * e
    BY <1>1, <1>3, <1>5
  <1>8. Page * e = r
    <2>1. Page * e \in Int /\ Page * d \in Int /\ r \in Int
      BY <1>1, <1>3, <1>5, <1>6
    <2>2. Page * q = Page * (d + e)
      BY <1>5
    <2> DEFINE u == Page * q
               v == Page * d
               w == Page * e
    <2>3. u = v + r /\ u = v + w
      BY <1>6, <1>7, <2>2
    <2>4. v \in Int /\ w \in Int /\ r \in Int
      BY <2>1
    <2> HIDE DEF u, v, w
    <2>5. w = r
      BY <2>3, <2>4
    <2> QED BY <2>5 DEF w
  <1>9. ~(e >= 1)
    <2>1. SUFFICES ASSUME e >= 1 PROVE FALSE
      OBVIOUS
    <2>2. Page * e >= Page * 1
      BY <1>1, <1>5, <2>1
    <2> QED BY <1>1, <1>6, <1>8, <2>2
  <1>10. ~(e <= -1)
    <2>1. SUFFICES ASSUME e <= -1 PROVE FALSE
      OBVIOUS
    <2>2. Page * e <= Page * (-1)
      BY <1>1, <1>5, <2>1
    <2> QED BY <1>1, <1>6, <1>8, <2>2
  <1>11. e = 0
    BY <1>5, <1>9, <1>10
  <1>12. r = 0
    BY <1>1, <1>8, <1>11
  <1> QED BY <1>12 DEF a, r

\* The next start of a page is not before the address.
LEMMA AlignNextGives ==
    ASSUME NEW a \in Nat
    PROVE  /\ Ren!AlignNext(a) \in Nat /\ a <= Ren!AlignNext(a)
           /\ \E q \in Nat : Ren!AlignNext(a) = q * Page
  <1>1. Page \in Nat \ {0}
    BY OutputUseAssumption DEF Ren!PageAssumption
  <1> DEFINE b == a + Page - 1
             q == b \div Page
             r == b % Page
  <1>2. b \in Nat
    BY <1>1
  <1>3. q \in Nat /\ r \in 0..(Page - 1) /\ b = Page * q + r
    <2> HIDE DEF b
    <2> QED BY <1>1, <1>2
  <1>4. Ren!AlignNext(a) = q * Page
    BY DEF Ren!AlignNext
  <1> HIDE DEF q, r
  <1>5. q * Page = Page * q /\ Page * q \in Nat
    BY <1>1, <1>3
  <1>6. a + Page - 1 <= Page * q + Page - 1
    BY <1>1, <1>3, <1>5
  <1>7. a <= Page * q
    BY <1>1, <1>5, <1>6
  <1> QED BY <1>3, <1>4, <1>5, <1>7

\* Starts of pages are multiples of the page size apart.
LEMMA AlignedApart ==
    ASSUME NEW a \in Nat, NEW b \in Nat
    PROVE  (Ren!AlignNext(a) - Ren!AlignNext(b)) % Page = 0
  <1>1. Page \in Nat \ {0}
    BY OutputUseAssumption DEF Ren!PageAssumption
  <1>2. PICK p \in Nat : Ren!AlignNext(a) = p * Page
    BY AlignNextGives
  <1>3. PICK q \in Nat : Ren!AlignNext(b) = q * Page
    BY AlignNextGives
  <1>4. p * Page - q * Page = (p - q) * Page
    BY <1>1
  <1>5. p - q \in Int
    OBVIOUS
  <1>6. ((p - q) * Page) % Page = 0
    BY <1>5, MultipleLeavesNone
  <1> QED BY <1>2, <1>3, <1>4, <1>6

\* Bounded numbers have a largest one.
LEMMA LargestGives ==
    ASSUME NEW S, S \subseteq Nat, S # {}, NEW b \in Nat, \A y \in S : y <= b
    PROVE  Ren!Largest(S) \in S /\ \A y \in S : y <= Ren!Largest(S)
  <1> DEFINE T == {c \in Nat : \A y \in S : y <= c}
  <1>1. T \subseteq Nat /\ b \in T
    OBVIOUS
  <1>2. PICK c \in T : \A x \in T : c <= x
    <2> HIDE DEF T
    <2> QED BY <1>1, LeastNatural
  <1>3. c \in S
    <2>1. SUFFICES ASSUME c \notin S PROVE FALSE
      OBVIOUS
    <2>2. \A y \in S : y <= c /\ y # c
      BY <2>1
    <2>3. PICK y \in S : TRUE
      OBVIOUS
    <2>4. c \in Nat /\ y \in Nat /\ y <= c - 1
      BY <2>2
    <2>5. c - 1 \in T
      BY <2>2, <2>4
    <2> QED BY <1>2, <2>4, <2>5
  <1>4. \E x \in S : \A y \in S : y <= x
    BY <1>3
  <1>5. Ren!Largest(S) = CHOOSE x \in S : \A y \in S : y <= x
    BY DEF Ren!Largest
  <1> QED BY <1>4, <1>5

\* Finitely many numbers have a bound.
LEMMA BoundExists ==
    ASSUME NEW n \in Nat, NEW f \in [1..n -> Nat]
    PROVE  \E b \in Nat : \A k \in 1..n : f[k] <= b
  <1> DEFINE T == {m \in 0..n : \E b \in Nat : \A k \in 1..m : f[k] <= b}
  <1>1. 0 \in T
    <2>1. \A k \in 1..0 : f[k] <= 0
      OBVIOUS
    <2> QED BY <2>1
  <1>2. \A m \in 0..n : m \in T /\ m < n => m + 1 \in T
    <2>1. SUFFICES ASSUME NEW m \in 0..n, NEW b \in Nat, \A k \in 1..m : f[k] <= b, m < n
                   PROVE  m + 1 \in T
      OBVIOUS
    <2> DEFINE c == b + f[m + 1]
    <2>2. m + 1 \in 1..n /\ f[m + 1] \in Nat
      BY <2>1
    <2>3. \A k \in 1..(m + 1) : f[k] \in Nat /\ (k \in 1..m \/ k = m + 1)
      BY <2>1
    <2>4. c \in Nat /\ \A k \in 1..(m + 1) : f[k] <= c
      <3>1. c \in Nat /\ b <= c /\ f[m + 1] <= c
        BY <2>2
      <3> HIDE DEF c
      <3>2. ASSUME NEW k \in 1..(m + 1) PROVE f[k] <= c
        <4>1. CASE k = m + 1
          BY <3>1, <4>1
        <4>2. CASE k \in 1..m
          BY <2>1, <2>3, <3>1, <4>2
        <4> QED BY <2>3, <4>1, <4>2
      <3> QED BY <3>1, <3>2
    <2> QED BY <2>2, <2>4
  <1> HIDE DEF T
  <1>3. 0..n \subseteq T
    BY <1>1, <1>2, IntervalInduction
  <1>4. n \in T
    BY <1>3
  <1> QED BY <1>4 DEF T

\* As many values as places: no value is in two places.
LEMMA DistinctGives ==
    ASSUME NEW n \in Nat, NEW f, DOMAIN f = 1..n, Ren!Cardinality({f[k] : k \in 1..n}) = n
    PROVE  \A j, k \in 1..n : f[j] = f[k] => j = k
  <1> DEFINE T == {f[k] : k \in 1..n}
             S == 1..n
             g == [k \in S |-> f[k]]
  <1>1. g \in Surjection(S, T)
    <2>1. g \in [S -> T] /\ \A t \in T : \E k \in S : g[k] = t
      OBVIOUS
    <2> QED BY <2>1 DEF Surjection
  <1>2. IsFiniteSet(S) /\ Cardinality(S) = n
    <2>1. 1 \in Int /\ n \in Int /\ IF 1 > n THEN n = 0 ELSE n - 1 + 1 = n
      OBVIOUS
    <2> QED BY <2>1, FS_Interval
  <1> HIDE DEF T
  <1>3. Cardinality(T) = n
    BY DEF Ren!Cardinality, Cardinality, T
  <1> HIDE DEF S, g
  <1>4. g \in Injection(S, T)
    BY <1>1, <1>2, <1>3, FS_SurjSameCardinalityImpliesInj
  <1>5. \A j, k \in S : g[j] = g[k] => j = k
    BY <1>4 DEF Injection, IsInjective
  <1> QED BY <1>5 DEF S, g

-----------------------------------------------------------------------------
(***************************************************************************)
(* The verneed strings.                                                    *)
(***************************************************************************)
\* The mappings of names.
Maps == UNION {[D -> Words] : D \in SUBSET Words}

\* What a mapping gives.
LEMMA MapTyped ==
    ASSUME NEW m \in Maps
    PROVE  DOMAIN m \subseteq Words /\ \A s \in DOMAIN m : m[s] \in Words
  BY DEF Maps

\* A name that is renamed or not is a word.
LEMMA RenamedTyped ==
    ASSUME NEW m \in Maps, NEW s \in Words
    PROVE  Ren!Renamed(m, s) \in Words
  BY MapTyped DEF Ren!Renamed

\* The table has the mapped name of s at position p.
PlacedAt(tab, m, s, p) ==
    Ren!Renamed(m, s) \in DOMAIN tab.cache /\ tab.cache[Ren!Renamed(m, s)] = p

\* It has those of the first n strings at the offsets.
AllPlaced(tab, m, strings, offsets, n) == \A j \in 1..n : PlacedAt(tab, m, strings[j], offsets[j])

\* What is placed stays placed.
LEMMA PlacedKept ==
    ASSUME NEW b, NEW c, Keeps(b, c), NEW m, NEW strings, NEW offsets, NEW n, AllPlaced(b, m, strings, offsets, n)
    PROVE  AllPlaced(c, m, strings, offsets, n)
  BY DEF AllPlaced, PlacedAt, Keeps

\* One more string is added.
LEMMA PlacedGrows ==
    ASSUME NEW m \in Maps, NEW strings \in Seq(Words), NEW n \in Nat, n + 1 \in 1..Len(strings),
           NEW b \in GoodTables, NEW offsets \in Seq(Nat), Len(offsets) = n, AllPlaced(b, m, strings, offsets, n)
    PROVE  LET c == Ren!Add(b, m, strings[n + 1])
               new == Append(offsets, Ren!GetPos(c, m, strings[n + 1]))
           IN  /\ c \in GoodTables /\ Keeps(b, c)
               /\ new \in Seq(Nat) /\ Len(new) = n + 1 /\ AllPlaced(c, m, strings, new, n + 1)
  <1> DEFINE s == strings[n + 1]
             c == Ren!Add(b, m, s)
             p == Ren!GetPos(c, m, s)
             new == Append(offsets, p)
  <1>1. s \in Words
    OBVIOUS
  <1>2. Ren!Renamed(m, s) \in Words
    BY <1>1, RenamedTyped
  <1>3. /\ c \in GoodTables /\ Keeps(b, c) /\ p \in Nat
        /\ Ren!Renamed(m, s) \in DOMAIN c.cache /\ c.cache[Ren!Renamed(m, s)] = p
    BY <1>2, AddGives
  <1> HIDE DEF c, p
  <1>4. /\ new \in Seq(Nat) /\ Len(new) = n + 1 /\ new[n + 1] = p
        /\ \A j \in 1..n : new[j] = offsets[j]
    BY <1>3, AppendProperties
  <1> HIDE DEF new
  <1>5. AllPlaced(c, m, strings, offsets, n)
    BY <1>3, PlacedKept
  <1>6. AllPlaced(c, m, strings, new, n + 1)
    <2>1. ASSUME NEW j \in 1..(n + 1)
          PROVE  PlacedAt(c, m, strings[j], new[j])
      <3>1. CASE j = n + 1
        BY <1>3, <1>4, <3>1 DEF s, PlacedAt
      <3>2. CASE j # n + 1
        <4>1. j \in 1..n
          BY <3>2
        <4> QED BY <1>4, <1>5, <4>1 DEF AllPlaced
      <3> QED BY <3>1, <3>2
    <2> QED BY <2>1 DEF AllPlaced
  <1> QED BY <1>3, <1>4, <1>6 DEF c, p, s, new

\* Every string gets a place, and the others keep theirs.
LEMMA RewrittenGives ==
    ASSUME strtab_builder \in GoodTables, mapping \in Maps, NEW strings \in Seq(Words)
    PROVE  LET r == Ren!Rewritten(strings)
           IN  /\ r.tab \in GoodTables /\ Keeps(strtab_builder, r.tab)
               /\ r.offsets \in Seq(Nat) /\ Len(r.offsets) = Len(strings)
               /\ AllPlaced(r.tab, mapping, strings, r.offsets, Len(strings))
  <1> DEFINE N == Len(strings)
             S == [tab : GoodTables, offsets : Seq(Nat)]
             a == [tab |-> strtab_builder, offsets |-> <<>>]
             New(v, n) == Ren!Add(v.tab, mapping, strings[n])
             After(v, n) == [tab |-> New(v, n),
                             offsets |-> Append(v.offsets, Ren!GetPos(New(v, n), mapping, strings[n]))]
             Step == [n \in 1..N |-> [v \in S |-> After(v, n)]]
  <1>1. N \in Nat /\ \A n \in 1..N : strings[n] \in Words
    OBVIOUS
  <1>2. a \in S
    OBVIOUS
  <1>3. \A n \in 1..N, v \in S : After(v, n) \in S
    <2>1. TAKE n \in 1..N, v \in S
    <2>2. v.tab \in GoodTables /\ v.offsets \in Seq(Nat) /\ Ren!Renamed(mapping, strings[n]) \in Words
      BY <1>1, RenamedTyped
    <2>3. New(v, n) \in GoodTables /\ Ren!GetPos(New(v, n), mapping, strings[n]) \in Nat
      BY <2>2, AddGives
    <2> HIDE DEF New
    <2>4. Append(v.offsets, Ren!GetPos(New(v, n), mapping, strings[n])) \in Seq(Nat)
      BY <2>2, <2>3, AppendProperties
    <2> QED BY <2>3, <2>4
  <1>4. Step \in [1..N -> [S -> S]]
    <2> HIDE DEF After
    <2> QED BY <1>3
  <1>5. \A n \in 1..N, v \in S : Step[n][v] = After(v, n)
    <2> HIDE DEF After
    <2> QED OBVIOUS
  <1> HIDE DEF N, S, a, Step, After, New
  <1>6. PICK g \in [0..N -> S] : \A n \in 0..N : g[n] = Recurs(g, a, Step, n)
    <2>1. N \in Nat /\ a \in S /\ Step \in [1..N -> [S -> S]]
      BY <1>1, <1>2, <1>4
    <2>2. \E g \in [0..N -> S] : \A n \in 0..N : g[n] = Recurs(g, a, Step, n)
      BY ONLY <2>1, RecursionExists, SMTT(60)
    <2> QED BY <2>2
  <1> DEFINE Is(f) == f = [k \in 0..N |-> IF k = 0 THEN a ELSE After(f[k - 1], k)]
             h == CHOOSE f : Is(f)
  <1>7. Ren!Rewritten(strings) = h[N]
    BY Zenon DEF Ren!Rewritten, N, a, After, New
  <1>8. \A k \in 0..N : g[k] = IF k = 0 THEN a ELSE After(g[k - 1], k)
    <2> TAKE k \in 0..N
    <2>1. CASE k = 0
      BY <1>6, <2>1 DEF Recurs
    <2>2. CASE k # 0
      <3>1. k \in 1..N /\ k - 1 \in 0..N /\ g[k - 1] \in S
        BY <1>1, <2>2
      <3>2. g[k] = Step[k][g[k - 1]]
        BY <1>6, <2>2 DEF Recurs
      <3> QED BY <1>5, <2>2, <3>1, <3>2
    <2> QED BY <2>1, <2>2
  <1>9. Is(g)
    <2>1. g = [k \in 0..N |-> g[k]]
      OBVIOUS
    <2> QED BY <1>8, <2>1
  <1>10. Is(h)
    <2> HIDE DEF Is
    <2> QED BY <1>9
  <1> HIDE DEF h
  <1> DEFINE Good(k) ==
                /\ h[k].tab \in GoodTables /\ Keeps(strtab_builder, h[k].tab)
                /\ h[k].offsets \in Seq(Nat) /\ Len(h[k].offsets) = k
                /\ AllPlaced(h[k].tab, mapping, strings, h[k].offsets, k)
             T == {k \in 0..N : Good(k)}
  <1>11. 0 \in T
    <2>1. h[0] = a /\ 0 \in 0..N
      BY <1>1, <1>10
    <2>2. h[0].tab = strtab_builder /\ h[0].offsets = <<>>
      BY <2>1 DEF a
    <2>3. AllPlaced(h[0].tab, mapping, strings, h[0].offsets, 0)
      BY DEF AllPlaced
    <2>4. Keeps(strtab_builder, strtab_builder)
      BY DEF Keeps
    <2>5. /\ h[0].tab \in GoodTables /\ Keeps(strtab_builder, h[0].tab)
          /\ h[0].offsets \in Seq(Nat) /\ Len(h[0].offsets) = 0
      BY <2>2, <2>4
    <2> QED BY <2>1, <2>3, <2>5
  <1>12. \A m \in 0..N : m \in T /\ m < N => m + 1 \in T
    <2>1. SUFFICES ASSUME NEW m \in 0..N, Good(m), m < N PROVE m + 1 \in 0..N /\ Good(m + 1)
      OBVIOUS
    <2>2. m + 1 \in 0..N /\ m \in Nat /\ (m + 1) - 1 = m /\ m + 1 # 0 /\ m + 1 \in 1..N
      BY <1>1, <2>1
    <2> DEFINE v == h[m]
               c == New(v, m + 1)
               new == Append(v.offsets, Ren!GetPos(c, mapping, strings[m + 1]))
    <2>3. h[m + 1] = After(v, m + 1)
      BY <1>10, <2>2
    <2>4. After(v, m + 1) = [tab |-> c, offsets |-> new]
      BY Zenon DEF After
    <2>5. /\ v.tab \in GoodTables /\ v.offsets \in Seq(Nat) /\ Len(v.offsets) = m
          /\ AllPlaced(v.tab, mapping, strings, v.offsets, m) /\ m + 1 \in 1..Len(strings)
      BY <2>1, <2>2 DEF N
    <2>6. /\ c \in GoodTables /\ Keeps(v.tab, c)
          /\ new \in Seq(Nat) /\ Len(new) = m + 1 /\ AllPlaced(c, mapping, strings, new, m + 1)
      BY <2>2, <2>5, PlacedGrows DEF New
    <2> HIDE DEF c, new
    <2>7. h[m + 1].tab = c /\ h[m + 1].offsets = new
      BY <2>3, <2>4
    <2>8. Keeps(strtab_builder, c)
      BY <2>1, <2>6, KeepsKept
    <2> QED BY <2>2, <2>6, <2>7, <2>8
  <1> HIDE DEF T
  <1>13. 0..N \subseteq T
    BY <1>1, <1>11, <1>12, IntervalInduction
  <1>14. N \in T
    BY <1>1, <1>13
  <1>15. Good(N)
    BY <1>14 DEF T
  <1> QED BY <1>7, <1>15 DEF N

-----------------------------------------------------------------------------
(***************************************************************************)
(* The file that is rewritten in place.                                    *)
(***************************************************************************)
Dyns  == [tag : Ren!Tags, val : Nat]
Phdrs == [type : Ren!Types, offset : Nat, vaddr : Nat, filesz : Nat, memsz : Nat]

\* What is never rewritten.
SameFile(o, r) ==
    r.strtab = o.strtab /\ r.versym = o.versym /\ r.indices = o.indices /\ r.filesize = o.filesize

Image(strtab, syms, versym, indices, dyn, verneed, phdrs, filesize) ==
    [strtab |-> strtab, syms |-> syms, versym |-> versym, indices |-> indices,
     dyn |-> dyn, verneed |-> verneed, phdrs |-> phdrs, filesize |-> filesize]

\* Replacing a field.
LEMMA RecordExcept ==
    ASSUME NEW a, NEW b, NEW c, NEW d, NEW e, NEW f, NEW g, NEW h, NEW x
    PROVE  /\ [Image(a, b, c, d, e, f, g, h) EXCEPT !.syms = x] = Image(a, x, c, d, e, f, g, h)
           /\ [Image(a, b, c, d, e, f, g, h) EXCEPT !.dyn = x] = Image(a, b, c, d, x, f, g, h)
           /\ [Image(a, b, c, d, e, f, g, h) EXCEPT !.verneed = x] = Image(a, b, c, d, e, x, g, h)
           /\ [Image(a, b, c, d, e, f, g, h) EXCEPT !.phdrs = x] = Image(a, b, c, d, e, f, x, h)
  BY DEF Image

\* What an image holds.
LEMMA ImageTyped ==
    ASSUME NEW o \in Ren!Images
    PROVE  /\ o.strtab \in Seq(Nat) /\ o.syms \in Seq(Nat) /\ o.versym \in Seq(Nat) /\ o.indices \subseteq Nat
           /\ o.dyn \in Seq(Dyns) /\ o.verneed \in Seq(Nat) /\ o.phdrs \in Seq(Phdrs) /\ o.filesize \in Nat
           /\ o = Image(o.strtab, o.syms, o.versym, o.indices, o.dyn, o.verneed, o.phdrs, o.filesize)
  BY DEF Ren!Images, Dyns, Phdrs, Image

\* Replacing a field of an image,
LEMMA ImageExcept ==
    ASSUME NEW o \in Ren!Images, NEW x
    PROVE  LET I(s, d, v, p) == Image(o.strtab, s, o.versym, o.indices, d, v, p, o.filesize)
           IN  /\ [o EXCEPT !.syms = x] = I(x, o.dyn, o.verneed, o.phdrs)
               /\ [o EXCEPT !.dyn = x] = I(o.syms, x, o.verneed, o.phdrs)
               /\ [o EXCEPT !.verneed = x] = I(o.syms, o.dyn, x, o.phdrs)
               /\ [o EXCEPT !.phdrs = x] = I(o.syms, o.dyn, o.verneed, x)
  <1> DEFINE a == o.strtab
             b == o.syms
             c == o.versym
             d == o.indices
             e == o.dyn
             f == o.verneed
             g == o.phdrs
             h == o.filesize
  <1>1. o = Image(a, b, c, d, e, f, g, h)
    BY ImageTyped
  <1> HIDE DEF a, b, c, d, e, f, g, h
  <1>2. /\ [o EXCEPT !.syms = x] = Image(a, x, c, d, e, f, g, h)
        /\ [o EXCEPT !.dyn = x] = Image(a, b, c, d, x, f, g, h)
        /\ [o EXCEPT !.verneed = x] = Image(a, b, c, d, e, x, g, h)
        /\ [o EXCEPT !.phdrs = x] = Image(a, b, c, d, e, f, x, h)
    BY <1>1, RecordExcept
  <1> QED BY <1>2 DEF a, b, c, d, e, f, g, h

\* which leaves an image.
LEMMA ImageMade ==
    ASSUME NEW o \in Ren!Images, NEW s \in Seq(Nat), NEW d \in Seq(Dyns), NEW v \in Seq(Nat), NEW p \in Seq(Phdrs)
    PROVE  LET r == Image(o.strtab, s, o.versym, o.indices, d, v, p, o.filesize)
           IN  /\ r \in Ren!Images /\ SameFile(o, r)
               /\ r.syms = s /\ r.dyn = d /\ r.verneed = v /\ r.phdrs = p
  BY DEF Ren!Images, Dyns, Phdrs, Image, SameFile

\* A symbol gets a name.
LEMMA SymSet ==
    ASSUME NEW o \in Ren!Images, NEW k \in 1..Len(o.syms), NEW x \in Nat
    PROVE  LET r == [o EXCEPT !.syms[k] = x]
           IN  /\ r \in Ren!Images /\ SameFile(o, r)
               /\ r.dyn = o.dyn /\ r.verneed = o.verneed /\ r.phdrs = o.phdrs
               /\ Len(r.syms) = Len(o.syms) /\ r.syms[k] = x
               /\ \A j \in 1..Len(o.syms) : j # k => r.syms[j] = o.syms[j]
  <1> DEFINE r == [o EXCEPT !.syms[k] = x]
             s == [o.syms EXCEPT ![k] = x]
  <1>1. /\ s \in Seq(Nat) /\ Len(s) = Len(o.syms) /\ s[k] = x
        /\ \A j \in 1..Len(o.syms) : j # k => s[j] = o.syms[j]
    BY ImageTyped
  <1>2. r = Image(o.strtab, s, o.versym, o.indices, o.dyn, o.verneed, o.phdrs, o.filesize)
    <2>1. r = [o EXCEPT !.syms = s]
      BY Zenon
    <2> HIDE DEF r, s
    <2> QED BY <2>1, ImageExcept
  <1> HIDE DEF r, s
  <1>3. r \in Ren!Images /\ SameFile(o, r) /\ r.syms = s /\ r.dyn = o.dyn /\ r.verneed = o.verneed /\ r.phdrs = o.phdrs
    <2>1. o \in Ren!Images /\ o.dyn \in Seq(Dyns) /\ o.verneed \in Seq(Nat) /\ o.phdrs \in Seq(Phdrs)
      BY ImageTyped
    <2>2. s \in Seq(Nat)
      BY <1>1
    <2> QED BY <1>2, <2>1, <2>2, ImageMade
  <1> QED BY <1>1, <1>3 DEF r

\* The value of an entry of .dynamic is replaced.
LEMMA DynSet ==
    ASSUME NEW o \in Ren!Images, NEW k \in 1..Len(o.dyn), NEW x \in Nat
    PROVE  LET r == [o EXCEPT !.dyn[k].val = x]
           IN  /\ r \in Ren!Images /\ SameFile(o, r)
               /\ r.syms = o.syms /\ r.verneed = o.verneed /\ r.phdrs = o.phdrs
               /\ Len(r.dyn) = Len(o.dyn) /\ r.dyn[k].val = x
               /\ \A j \in 1..Len(o.dyn) : r.dyn[j].tag = o.dyn[j].tag /\ (j # k => r.dyn[j] = o.dyn[j])
  <1> DEFINE r == [o EXCEPT !.dyn[k].val = x]
             e == [o.dyn[k] EXCEPT !.val = x]
             d == [o.dyn EXCEPT ![k] = e]
  <1>1. e \in Dyns /\ e.tag = o.dyn[k].tag /\ e.val = x
    <2>1. o.dyn[k] \in Dyns
      BY ImageTyped
    <2> QED BY <2>1 DEF Dyns
  <1>2. r = Image(o.strtab, o.syms, o.versym, o.indices, d, o.verneed, o.phdrs, o.filesize)
    <2>1. r = [o EXCEPT !.dyn = d]
      BY Zenon
    <2> HIDE DEF r, d
    <2> QED BY <2>1, ImageExcept
  <1> HIDE DEF r, e
  <1>3. /\ d \in Seq(Dyns) /\ Len(d) = Len(o.dyn) /\ d[k] = e
        /\ \A j \in 1..Len(o.dyn) : j # k => d[j] = o.dyn[j]
    BY <1>1, ImageTyped
  <1> HIDE DEF d
  <1>4. r \in Ren!Images /\ SameFile(o, r) /\ r.syms = o.syms /\ r.dyn = d /\ r.verneed = o.verneed /\ r.phdrs = o.phdrs
    <2>1. o \in Ren!Images /\ o.syms \in Seq(Nat) /\ o.verneed \in Seq(Nat) /\ o.phdrs \in Seq(Phdrs)
          /\ o.dyn \in Seq(Dyns)
      BY ImageTyped
    <2>2. d \in Seq(Dyns)
      BY <1>3
    <2> QED BY <1>2, <2>1, <2>2, ImageMade
  <1> QED BY <1>1, <1>3, <1>4 DEF r

\* The offsets of the verneed strings are replaced.
LEMMA VerneedSet ==
    ASSUME NEW o \in Ren!Images, NEW x \in Seq(Nat)
    PROVE  LET r == [o EXCEPT !.verneed = x]
           IN  /\ r \in Ren!Images /\ SameFile(o, r)
               /\ r.syms = o.syms /\ r.dyn = o.dyn /\ r.phdrs = o.phdrs /\ r.verneed = x
  <1> DEFINE r == [o EXCEPT !.verneed = x]
  <1>1. r = Image(o.strtab, o.syms, o.versym, o.indices, o.dyn, x, o.phdrs, o.filesize)
    <2>1. r = [o EXCEPT !.verneed = x]
      BY Zenon
    <2> HIDE DEF r
    <2> QED BY <2>1, ImageExcept
  <1> HIDE DEF r
  <1>2. r \in Ren!Images /\ SameFile(o, r) /\ r.syms = o.syms /\ r.dyn = o.dyn /\ r.phdrs = o.phdrs /\ r.verneed = x
    <2>1. o.syms \in Seq(Nat) /\ o.phdrs \in Seq(Phdrs) /\ o.dyn \in Seq(Dyns)
      BY ImageTyped
    <2> QED BY <1>1, <2>1, ImageMade
  <1> QED BY <1>2 DEF r

\* A program header is replaced.
LEMMA PhdrSet ==
    ASSUME NEW o \in Ren!Images, NEW k \in 1..Len(o.phdrs), NEW x \in Phdrs
    PROVE  LET r == [o EXCEPT !.phdrs[k] = x]
           IN  /\ r \in Ren!Images /\ SameFile(o, r)
               /\ r.syms = o.syms /\ r.dyn = o.dyn /\ r.verneed = o.verneed
               /\ r.phdrs = [o.phdrs EXCEPT ![k] = x]
  <1> DEFINE r == [o EXCEPT !.phdrs[k] = x]
             p == [o.phdrs EXCEPT ![k] = x]
  <1>1. p \in Seq(Phdrs)
    BY ImageTyped
  <1>2. r = Image(o.strtab, o.syms, o.versym, o.indices, o.dyn, o.verneed, p, o.filesize)
    <2>1. r = [o EXCEPT !.phdrs = p]
      BY Zenon
    <2> HIDE DEF r, p
    <2> QED BY <2>1, ImageExcept
  <1> HIDE DEF r, p
  <1>3. r \in Ren!Images /\ SameFile(o, r) /\ r.syms = o.syms /\ r.dyn = o.dyn /\ r.verneed = o.verneed /\ r.phdrs = p
    <2>1. o.syms \in Seq(Nat) /\ o.verneed \in Seq(Nat) /\ o.dyn \in Seq(Dyns)
      BY ImageTyped
    <2> QED BY <1>1, <1>2, <2>1, ImageMade
  <1> QED BY <1>3 DEF r, p

\* .dynamic gets the addresses of the tables.
LEMMA DynPatched ==
    ASSUME NEW o \in Ren!Images, layout.strtab_vaddr \in Nat, layout.gnu_hash_vaddr \in Nat
    PROVE  LET r == [o EXCEPT !.dyn = [k \in DOMAIN @ |-> Ren!Patched(@[k])]]
           IN  /\ r \in Ren!Images /\ SameFile(o, r)
               /\ r.syms = o.syms /\ r.verneed = o.verneed /\ r.phdrs = o.phdrs
               /\ Len(r.dyn) = Len(o.dyn)
               /\ \A j \in 1..Len(o.dyn) :
                     /\ r.dyn[j].tag = o.dyn[j].tag
                     /\ o.dyn[j].tag \notin {"DT_STRTAB", "DT_GNU_HASH"} => r.dyn[j] = o.dyn[j]
                     /\ o.dyn[j].tag = "DT_STRTAB" => r.dyn[j].val = layout.strtab_vaddr
                     /\ o.dyn[j].tag = "DT_GNU_HASH" => r.dyn[j].val = layout.gnu_hash_vaddr
  <1> DEFINE r == [o EXCEPT !.dyn = [k \in DOMAIN @ |-> Ren!Patched(@[k])]]
             d == [k \in DOMAIN o.dyn |-> Ren!Patched(o.dyn[k])]
             n == Len(o.dyn)
  <1>1. r = Image(o.strtab, o.syms, o.versym, o.indices, d, o.verneed, o.phdrs, o.filesize)
    <2>1. r = [o EXCEPT !.dyn = d]
      BY Zenon
    <2> HIDE DEF r, d
    <2> QED BY <2>1, ImageExcept
  <1>2. DOMAIN o.dyn = 1..n /\ n \in Nat
    BY ImageTyped
  <1>3. ASSUME NEW j \in 1..n
        PROVE  /\ Ren!Patched(o.dyn[j]) \in Dyns
               /\ Ren!Patched(o.dyn[j]).tag = o.dyn[j].tag
               /\ o.dyn[j].tag \notin {"DT_STRTAB", "DT_GNU_HASH"} => Ren!Patched(o.dyn[j]) = o.dyn[j]
               /\ o.dyn[j].tag = "DT_STRTAB" => Ren!Patched(o.dyn[j]).val = layout.strtab_vaddr
               /\ o.dyn[j].tag = "DT_GNU_HASH" => Ren!Patched(o.dyn[j]).val = layout.gnu_hash_vaddr
    <2> DEFINE e == o.dyn[j]
    <2>1. e \in Dyns
      BY ImageTyped
    <2> HIDE DEF e
    <2>2. /\ Ren!Patched(e) \in Dyns
          /\ Ren!Patched(e).tag = e.tag
          /\ e.tag \notin {"DT_STRTAB", "DT_GNU_HASH"} => Ren!Patched(e) = e
          /\ e.tag = "DT_STRTAB" => Ren!Patched(e).val = layout.strtab_vaddr
          /\ e.tag = "DT_GNU_HASH" => Ren!Patched(e).val = layout.gnu_hash_vaddr
      BY <2>1 DEF Ren!Patched, Dyns
    <2> QED BY <2>2 DEF e
  <1>4. d \in [1..n -> Dyns]
    BY <1>2, <1>3
  <1>5. \A j \in 1..n : d[j] = Ren!Patched(o.dyn[j])
    BY <1>2
  <1> HIDE DEF r, d
  <1>6. d \in Seq(Dyns) /\ Len(d) = n
    BY <1>2, <1>4, TupleIsSeq
  <1>7. r \in Ren!Images /\ SameFile(o, r) /\ r.syms = o.syms /\ r.dyn = d /\ r.verneed = o.verneed /\ r.phdrs = o.phdrs
    <2>1. o \in Ren!Images /\ o.syms \in Seq(Nat) /\ o.verneed \in Seq(Nat) /\ o.phdrs \in Seq(Phdrs)
          /\ o.dyn \in Seq(Dyns)
      BY ImageTyped
    <2>2. d \in Seq(Dyns)
      BY <1>6
    <2> QED BY <1>1, <2>1, <2>2, ImageMade
  <1>9. \A j \in 1..n :
            /\ d[j].tag = o.dyn[j].tag
            /\ o.dyn[j].tag \notin {"DT_STRTAB", "DT_GNU_HASH"} => d[j] = o.dyn[j]
            /\ o.dyn[j].tag = "DT_STRTAB" => d[j].val = layout.strtab_vaddr
            /\ o.dyn[j].tag = "DT_GNU_HASH" => d[j].val = layout.gnu_hash_vaddr
    BY <1>3, <1>5
  <1> QED BY <1>6, <1>7, <1>9 DEF r

-----------------------------------------------------------------------------
(***************************************************************************)
(* The inductive invariant of the renamer.                                 *)
(***************************************************************************)
SymCount == Len(original.syms)

\* The names the input has: of its symbols, in .dynamic and in verneed.
OrigNames == [k \in 1..SymCount |-> Ren!OrigName(k)]
DynNames  == [k \in 1..Len(original.dyn) |-> Ren!OrigStr(original.dyn[k].val)]
NeedNames == [k \in 1..Len(original.verneed) |-> Ren!OrigStr(original.verneed[k])]

RenPhases == {"mapping", "symbols", "dynamic", "verneed", "phdrs", "done", "aborted", "killed"}

\* Passes over .dynamic and later ones.
Named == {"dynamic", "verneed", "phdrs", "done"}

RenTyped ==
    /\ original \in Objects /\ lines \in MappingFiles
    /\ renamer_pc \in RenPhases /\ next \in Nat \ {0}
    /\ object \in Ren!Images /\ SameFile(original, object)
    /\ Len(object.syms) = SymCount /\ Len(object.dyn) = Len(original.dyn)
    /\ Len(object.verneed) = Len(original.verneed)
    /\ \A k \in 1..Len(original.dyn) : object.dyn[k].tag = original.dyn[k].tag
    /\ mapping \in Maps /\ strtab_builder \in GoodTables /\ sym_names \in Seq(Words)

\* How far each pass has come.
Passes ==
    /\ renamer_pc = "mapping" => next <= Len(lines) + 1 /\ sym_names = <<>>
    /\ renamer_pc \in Named \cup {"symbols"} => Ren!NSyms = SymCount
    /\ renamer_pc \in {"symbols", "verneed"} => next <= SymCount + 1
    /\ renamer_pc = "symbols" => Len(sym_names) = next - 1
    /\ renamer_pc \in Named => Len(sym_names) = SymCount
    /\ renamer_pc = "dynamic" => next <= Len(original.dyn) + 1
    /\ renamer_pc = "phdrs" => next <= Len(original.phdrs) + 1
    /\ Len(sym_names) <= Ren!NSyms

\* The first m lines have been read.
LinesRead(m) ==
    /\ DOMAIN mapping = {lines[k][1] : k \in 1..m}
    /\ \A k \in 1..m : mapping[lines[k][1]] = lines[k][2]

MappingOK ==
    /\ tos = {mapping[s] : s \in DOMAIN mapping}
    /\ renamer_pc = "mapping" => LinesRead(next - 1)
    /\ renamer_pc \notin {"mapping", "aborted"} => LinesRead(Len(lines))

\* The symbols so far have their new names, the others the old ones.
NamesOK ==
    /\ AllPlaced(strtab_builder, mapping, OrigNames, object.syms, Len(sym_names))
    /\ \A k \in 1..SymCount : IF k <= Len(sym_names)
                              THEN sym_names[k] = Ren!Renamed(mapping, OrigNames[k])
                              ELSE object.syms[k] = original.syms[k]
    /\ renamer_pc \in Named => \A j, k \in 1..SymCount : sym_names[j] = sym_names[k] => j = k

\* The entries of .dynamic that have been rewritten.
EntriesDone ==
    CASE renamer_pc \in {"mapping", "symbols"} -> 0
      [] renamer_pc = "dynamic"                -> next - 1
      [] OTHER                                 -> Len(original.dyn)

EntryOK(k) ==
    IF k <= EntriesDone
    THEN PlacedAt(strtab_builder, mapping, DynNames[k], object.dyn[k].val)
    ELSE object.dyn[k].val = original.dyn[k].val

DynamicOK ==
    renamer_pc \in Named \cup {"mapping", "symbols"} =>
        \A k \in 1..Len(original.dyn) : Ren!IsRewritten(original.dyn[k].tag) => EntryOK(k)

\* With one versioned symbol the offsets are rewritten once, when its turn comes.
VerneedOK ==
    \A x \in Ren!VersionedSyms : Ren!VersionedSyms = {x} =>
        /\ renamer_pc \in {"mapping", "symbols", "dynamic"} \/ (renamer_pc = "verneed" /\ next <= x)
              => object.verneed = original.verneed
        /\ renamer_pc \in {"phdrs", "done"} \/ (renamer_pc = "verneed" /\ next > x)
              => AllPlaced(strtab_builder, mapping, NeedNames, object.verneed, Len(original.verneed))

\* Both tables are where .dynamic says, once its turn has come.
AddressesOK ==
    \A k \in 1..Len(original.dyn) :
        /\ original.dyn[k].tag = "DT_STRTAB" => object.dyn[k].val = layout.strtab_vaddr
        /\ original.dyn[k].tag = "DT_GNU_HASH" => object.dyn[k].val = layout.gnu_hash_vaddr
        /\ original.dyn[k].tag # "DT_HASH"

SegmentOK ==
    /\ strtab_builder.is_freezed <=> layout # <<>>
    /\ renamer_pc \notin {"phdrs", "done", "aborted"} => layout = <<>> /\ object.phdrs = original.phdrs
    /\ renamer_pc \in {"phdrs", "done"} =>
          /\ layout # <<>> /\ Ren!Notes(original) # {}
          /\ layout = Ren!Layout(original)
          /\ object.phdrs = [original.phdrs EXCEPT ![Ren!VictimNote(original)] = Ren!StrPhdr(layout)]
    /\ renamer_pc = "phdrs" =>
          \A k \in 1..(next - 1) : original.phdrs[k].type = "PT_DYNAMIC" => AddressesOK
    /\ renamer_pc = "done" => AddressesOK /\ gnu_hash = Ren!EmitGnuHash(sym_names)

RenInv ==
    RenTyped /\ Passes /\ MappingOK /\ NamesOK /\ DynamicOK /\ VerneedOK /\ SegmentOK
    /\ Ren!ValidRequestSucceeds

-----------------------------------------------------------------------------
\* What the constants say of the input.
LEMMA InputGiven ==
    ASSUME original \in Objects
    PROVE  /\ original \in Ren!Images /\ SymCount \in Nat \ {0}
           /\ SymCount - 1 \in original.indices /\ original.indices \subseteq 0..(SymCount - 1)
           /\ Len(original.versym) \in {0, SymCount}
           /\ \A k \in 1..SymCount : original.syms[k] \in Nat /\ original.syms[k] < Len(original.strtab)
           /\ \A k \in 1..Len(original.verneed) :
                 original.verneed[k] \in Nat /\ original.verneed[k] < Len(original.strtab)
           /\ \A k \in 1..Len(original.dyn) :
                 /\ original.dyn[k] \in Dyns
                 /\ Ren!IsRewritten(original.dyn[k].tag) => original.dyn[k].val < Len(original.strtab)
           /\ \E k \in 1..Len(original.dyn) : original.dyn[k].tag = "DT_STRTAB"
           /\ \E k \in 1..Len(original.dyn) : original.dyn[k].tag \in {"DT_GNU_HASH", "DT_HASH"}
           /\ \E k \in 1..Len(original.phdrs) : original.phdrs[k].type = "PT_DYNAMIC"
  <1> DEFINE o == original
  <1>1. /\ o \in Ren!Images
        /\ Len(o.syms) - 1 \in o.indices /\ o.indices \subseteq 0..(Len(o.syms) - 1)
        /\ Len(o.versym) \in {0, Len(o.syms)}
        /\ \A k \in DOMAIN o.syms : o.syms[k] < Len(o.strtab)
        /\ \A k \in DOMAIN o.verneed : o.verneed[k] < Len(o.strtab)
        /\ \A d \in DOMAIN o.dyn :
              o.dyn[d].tag \in {"DT_NEEDED", "DT_SONAME"} => o.dyn[d].val < Len(o.strtab)
        /\ \E d \in DOMAIN o.dyn : o.dyn[d].tag = "DT_STRTAB"
        /\ \E d \in DOMAIN o.dyn : o.dyn[d].tag \in {"DT_GNU_HASH", "DT_HASH"}
        /\ \E k \in DOMAIN o.phdrs : o.phdrs[k].type = "PT_DYNAMIC"
    BY OutputUseAssumption DEF Ren!BinariesAssumption
  <1>2. /\ o.syms \in Seq(Nat) /\ o.verneed \in Seq(Nat) /\ o.dyn \in Seq(Dyns) /\ o.phdrs \in Seq(Phdrs)
    BY <1>1, ImageTyped
  <1>3. /\ DOMAIN o.syms = 1..Len(o.syms) /\ DOMAIN o.verneed = 1..Len(o.verneed)
        /\ DOMAIN o.dyn = 1..Len(o.dyn) /\ DOMAIN o.phdrs = 1..Len(o.phdrs)
        /\ Len(o.syms) \in Nat
    BY <1>2
  <1>4. /\ \A k \in 1..Len(o.syms) : o.syms[k] \in Nat
        /\ \A k \in 1..Len(o.verneed) : o.verneed[k] \in Nat
        /\ \A k \in 1..Len(o.dyn) : o.dyn[k] \in Dyns
    BY <1>2, <1>3
  <1>5. Len(o.syms) # 0
    BY <1>1, <1>3
  <1> HIDE DEF o
  <1>6. Len(o.syms) - 1 \in o.indices /\ o.indices \subseteq 0..(Len(o.syms) - 1) /\ Len(o.versym) \in {0, Len(o.syms)}
        /\ o \in Ren!Images
    BY <1>1
  <1>7. /\ \A k \in 1..Len(o.syms) : o.syms[k] < Len(o.strtab)
        /\ \A k \in 1..Len(o.verneed) : o.verneed[k] < Len(o.strtab)
        /\ \A k \in 1..Len(o.dyn) : Ren!IsRewritten(o.dyn[k].tag) => o.dyn[k].val < Len(o.strtab)
    BY <1>1, <1>3 DEF Ren!IsRewritten
  <1>8. /\ \E k \in 1..Len(o.dyn) : o.dyn[k].tag = "DT_STRTAB"
        /\ \E k \in 1..Len(o.dyn) : o.dyn[k].tag \in {"DT_GNU_HASH", "DT_HASH"}
        /\ \E k \in 1..Len(o.phdrs) : o.phdrs[k].type = "PT_DYNAMIC"
    BY <1>1, <1>3
  <1>9. Len(o.syms) \in Nat \ {0}
    BY <1>3, <1>5
  <1> QED BY <1>4, <1>6, <1>7, <1>8, <1>9 DEF o, SymCount

\* The names of the input are words.
LEMMA NamesGiven ==
    ASSUME original \in Objects
    PROVE  /\ \A k \in 1..SymCount : OrigNames[k] = Ren!OrigName(k) /\ OrigNames[k] \in Words
           /\ \A k \in 1..Len(original.dyn) :
                 /\ DynNames[k] = Ren!OrigStr(original.dyn[k].val)
                 /\ Ren!IsRewritten(original.dyn[k].tag) => DynNames[k] \in Words
           /\ NeedNames \in Seq(Words) /\ Len(NeedNames) = Len(original.verneed)
           /\ \A k \in 1..Len(original.verneed) : NeedNames[k] = Ren!OrigStr(original.verneed[k])
  <1>1. original.strtab \in Seq(Nat) /\ Len(original.verneed) \in Nat
    BY InputGiven, ImageTyped
  <1>2. \A p \in Nat : p < Len(original.strtab) => Ren!OrigStr(p) \in Words
    BY <1>1, StrTyped DEF Ren!OrigStr
  <1>3. \A k \in 1..SymCount : OrigNames[k] = Ren!OrigName(k) /\ Ren!OrigName(k) = Ren!OrigStr(original.syms[k])
    BY DEF OrigNames, Ren!OrigName
  <1>4. \A k \in 1..SymCount : Ren!OrigStr(original.syms[k]) \in Words
    BY <1>2, InputGiven
  <1>5. \A k \in 1..Len(original.dyn) : DynNames[k] = Ren!OrigStr(original.dyn[k].val)
    BY DEF DynNames
  <1>6. \A k \in 1..Len(original.dyn) :
            Ren!IsRewritten(original.dyn[k].tag) => Ren!OrigStr(original.dyn[k].val) \in Words
    <2> TAKE k \in 1..Len(original.dyn)
    <2>1. original.dyn[k].val \in Nat
      BY InputGiven DEF Dyns
    <2> QED BY <1>2, <2>1, InputGiven
  <1>7. \A k \in 1..Len(original.verneed) : NeedNames[k] = Ren!OrigStr(original.verneed[k])
    BY DEF NeedNames
  <1>8. \A k \in 1..Len(original.verneed) : Ren!OrigStr(original.verneed[k]) \in Words
    BY <1>2, InputGiven
  <1>9. NeedNames \in [1..Len(original.verneed) -> Words]
    BY <1>8 DEF NeedNames
  <1>10. NeedNames \in Seq(Words) /\ Len(NeedNames) = Len(original.verneed)
    BY <1>1, <1>9, TupleIsSeq
  <1>11. /\ \A k \in 1..SymCount : OrigNames[k] = Ren!OrigName(k) /\ OrigNames[k] \in Words
         /\ \A k \in 1..Len(original.dyn) : Ren!IsRewritten(original.dyn[k].tag) => DynNames[k] \in Words
    BY <1>3, <1>4, <1>5, <1>6
  <1> QED BY <1>5, <1>7, <1>10, <1>11

\* A line is two words.
LEMMA LineTyped ==
    ASSUME lines \in MappingFiles
    PROVE  /\ Len(lines) \in Nat
           /\ \A k \in 1..Len(lines) : lines[k][1] \in Words /\ lines[k][2] \in Words
  <1>1. lines \in Seq(Words \X Words)
    BY OutputUseAssumption DEF Ren!MappingFilesAssumption, Words
  <1> QED BY <1>1

\* The operators that look at the input only.
LEMMA ReadStays ==
    ASSUME UNCHANGED <<original, lines>>
    PROVE  /\ SymCount' = SymCount /\ OrigNames' = OrigNames /\ DynNames' = DynNames /\ NeedNames' = NeedNames
           /\ Ren!VersionedSyms' = Ren!VersionedSyms
  <1>1. SymCount' = SymCount
    BY DEF SymCount
  <1> QED BY <1>1 DEF OrigNames, DynNames, NeedNames, Ren!OrigName, Ren!OrigStr, Ren!VersionedSyms

-----------------------------------------------------------------------------
\* The requests that are to succeed.
Wanted(s) ==
    IF s \in {lines[k][1] : k \in DOMAIN lines}
    THEN lines[CHOOSE k \in DOMAIN lines : lines[k][1] = s][2] ELSE s

ValidRequest ==
    /\ Ren!Cardinality({lines[k][1] : k \in DOMAIN lines}) = Len(lines)
    /\ Ren!Cardinality({lines[k][2] : k \in DOMAIN lines}) = Len(lines)
    /\ Ren!Cardinality({Wanted(s) : s \in {Ren!OrigName(k) : k \in DOMAIN original.syms}}) = Len(original.syms)
    /\ original.indices = 0..(Len(original.syms) - 1)
    /\ Ren!Notes(original) # {}
    /\ \A d \in DOMAIN original.dyn : original.dyn[d].tag # "DT_HASH"

\* The request is valid, in a formula of its own,
LEMMA ValidIs == Ren!ValidRequestSucceeds <=> (ValidRequest => renamer_pc # "aborted")
  BY DEF Ren!ValidRequestSucceeds, ValidRequest, Wanted

\* which looks at the input only.
LEMMA ValidStays == ASSUME UNCHANGED <<original, lines>> PROVE ValidRequest' = ValidRequest
  BY DEF ValidRequest, Wanted, Ren!OrigName, Ren!OrigStr, Ren!Notes

\* In such a request no name is renamed twice and no two names to the same.
LEMMA ValidLines ==
    ASSUME lines \in MappingFiles, ValidRequest
    PROVE  \A j, k \in 1..Len(lines) :
              lines[j][1] = lines[k][1] \/ lines[j][2] = lines[k][2] => j = k
  <1> DEFINE n == Len(lines)
             f == [k \in 1..n |-> lines[k][1]]
             g == [k \in 1..n |-> lines[k][2]]
  <1>1. lines \in Seq(Words \X Words)
    BY OutputUseAssumption DEF Ren!MappingFilesAssumption, Words
  <1>2. DOMAIN lines = 1..n /\ n \in Nat
    BY <1>1
  <1>3. {lines[k][1] : k \in DOMAIN lines} = {f[k] : k \in 1..n}
        /\ {lines[k][2] : k \in DOMAIN lines} = {g[k] : k \in 1..n}
    BY <1>2
  <1>4. Ren!Cardinality({f[k] : k \in 1..n}) = n /\ Ren!Cardinality({g[k] : k \in 1..n}) = n
    BY <1>3 DEF ValidRequest
  <1>5. DOMAIN f = 1..n /\ DOMAIN g = 1..n
    OBVIOUS
  <1>6. \A k \in 1..n : f[k] = lines[k][1] /\ g[k] = lines[k][2]
    OBVIOUS
  <1> HIDE DEF f, g, n
  <1>7. \A j, k \in 1..n : f[j] = f[k] => j = k
    BY <1>2, <1>4, <1>5, DistinctGives
  <1>8. \A j, k \in 1..n : g[j] = g[k] => j = k
    BY <1>2, <1>4, <1>5, DistinctGives
  <1> QED BY <1>6, <1>7, <1>8 DEF n

\* Then a mapping that has all lines does what is wanted.
LEMMA ValidNames ==
    ASSUME RenTyped, ValidRequest, LinesRead(Len(lines))
    PROVE  \A s \in Words : Ren!Renamed(mapping, s) = Wanted(s)
  <1>1. lines \in Seq(Words \X Words)
    BY OutputUseAssumption DEF RenTyped, Ren!MappingFilesAssumption, Words
  <1>2. DOMAIN lines = 1..Len(lines)
    BY <1>1
  <1>3. DOMAIN mapping = {lines[k][1] : k \in DOMAIN lines}
    BY <1>2 DEF LinesRead
  <1>4. TAKE s \in Words
  <1>5. CASE s \in DOMAIN mapping
    <2> DEFINE P(k) == k \in DOMAIN lines /\ lines[k][1] = s
               c == CHOOSE k \in DOMAIN lines : lines[k][1] = s
    <2>1. PICK k \in DOMAIN lines : lines[k][1] = s
      BY <1>3, <1>5
    <2>2. c \in DOMAIN lines /\ lines[c][1] = s
      BY <2>1
    <2> HIDE DEF c
    <2>3. mapping[s] = lines[c][2]
      BY <1>2, <2>2 DEF LinesRead
    <2>4. Ren!Renamed(mapping, s) = mapping[s]
      BY <1>5 DEF Ren!Renamed
    <2>5. Wanted(s) = lines[c][2]
      BY <1>3, <1>5 DEF Wanted, c
    <2> QED BY <2>3, <2>4, <2>5
  <1>6. CASE s \notin DOMAIN mapping
    BY <1>3, <1>6 DEF Wanted, Ren!Renamed
  <1> QED BY <1>5, <1>6

-----------------------------------------------------------------------------
(***************************************************************************)
(* Every action keeps it.                                                  *)
(***************************************************************************)
LEMMA NameOf == ASSUME RenTyped, NEW s \in Words PROVE Ren!Renamed(mapping, s) \in Words
  BY RenamedTyped DEF RenTyped

\* A step that does not abort, or a request that is not valid.
LEMMA ValidNext ==
    ASSUME UNCHANGED <<original, lines>>, ~ValidRequest \/ renamer_pc' # "aborted"
    PROVE  Ren!ValidRequestSucceeds'
  <1>1. ValidRequest' => renamer_pc' # "aborted"
    BY ValidStays
  <1> QED BY <1>1 DEF Ren!ValidRequestSucceeds, ValidRequest, Wanted

\* Before the names are read nothing has been written.
LEMMA NothingNamed ==
    ASSUME sym_names' = <<>>, renamer_pc' \in {"mapping", "symbols", "aborted"},
           \A k \in 1..SymCount' : object'.syms[k] = original'.syms[k]
    PROVE  NamesOK'
  <1>1. Len(sym_names') = 0
    OBVIOUS
  <1>2. AllPlaced(strtab_builder, mapping, OrigNames, object.syms, Len(sym_names))'
    BY <1>1 DEF AllPlaced
  <1>3. \A k \in 1..SymCount' : ~(k <= Len(sym_names'))
    BY <1>1
  <1>4. renamer_pc' \notin Named
    BY DEF Named
  <1> QED BY <1>2, <1>3, <1>4 DEF NamesOK

\* A line of the mapping file is read.
LEMMA ReadMappingLineKeeps == ASSUME RenInv, Ren!ReadMappingLine PROVE RenInv'
  <1> DEFINE from == lines[next][1]
             to == lines[next][2]
             dup == from \in DOMAIN mapping \/ to \in tos
             m == next - 1
  <1>1. /\ renamer_pc = "mapping" /\ next \in 1..Len(lines) /\ next \in Nat \ {0}
        /\ UNCHANGED <<original, lines, object, strtab_builder, sym_names, layout, gnu_hash>>
        /\ IF dup THEN Ren!Abort /\ UNCHANGED <<mapping, tos>>
           ELSE /\ mapping' = Ren!Put(mapping, from, to)
                /\ tos' = tos \cup {to}
                /\ next' = next + 1 /\ UNCHANGED renamer_pc
    BY DEF Ren!ReadMappingLine, Ren!read, RenInv, RenTyped
  <1>2. /\ sym_names = <<>> /\ LinesRead(m) /\ mapping \in Maps /\ tos = {mapping[s] : s \in DOMAIN mapping}
        /\ lines \in MappingFiles
    BY <1>1 DEF RenInv, Passes, MappingOK, RenTyped
  <1>3. Len(lines) \in Nat /\ from \in Words /\ to \in Words
        /\ \A k \in 1..Len(lines) : lines[k][1] \in Words /\ lines[k][2] \in Words
    BY <1>1, <1>2, LineTyped
  <1>4. m \in Nat /\ \A k \in 1..m : k \in 1..Len(lines) /\ k # next
    BY <1>1
  <1>5. /\ DOMAIN mapping = {lines[k][1] : k \in 1..m}
        /\ \A k \in 1..m : mapping[lines[k][1]] = lines[k][2]
    BY <1>2 DEF LinesRead
  <1>6. UNCHANGED <<original, lines>> /\ SymCount' = SymCount /\ OrigNames' = OrigNames /\ DynNames' = DynNames
        /\ NeedNames' = NeedNames /\ Ren!VersionedSyms' = Ren!VersionedSyms
    BY <1>1, ReadStays
  <1>7. Ren!NSyms' = Ren!NSyms
    BY <1>1 DEF Ren!NSyms
  <1>8. \A k \in 1..SymCount : object.syms[k] = original.syms[k]
    BY <1>2 DEF RenInv, NamesOK
  <1>9. NamesOK'
    <2>1. sym_names' = <<>> /\ renamer_pc' \in {"mapping", "symbols", "aborted"}
          /\ \A k \in 1..SymCount' : object'.syms[k] = original'.syms[k]
      BY <1>1, <1>2, <1>6, <1>8 DEF Ren!Abort
    <2> QED BY <2>1, NothingNamed
  <1>10. CASE dup
    <2>1. renamer_pc' = "aborted" /\ UNCHANGED <<mapping, tos, next>>
      BY <1>1, <1>10 DEF Ren!Abort
    <2>2. RenTyped'
      BY <1>1, <1>6, <2>1 DEF RenInv, RenTyped, RenPhases
    <2>3. Passes'
      BY <1>1, <1>2, <1>7, <2>1 DEF RenInv, Passes, Named
    <2>4. MappingOK'
      BY <1>2, <2>1 DEF MappingOK
    <2>5. DynamicOK' /\ VerneedOK' /\ SegmentOK'
      BY <1>1, <2>1 DEF RenInv, DynamicOK, VerneedOK, SegmentOK, Named
    <2>6. ~ValidRequest
      <3>1. SUFFICES ASSUME ValidRequest PROVE FALSE
        OBVIOUS
      <3>2. \A k \in 1..m : lines[k][1] # from /\ lines[k][2] # to
        BY <1>1, <1>2, <1>4, <3>1, ValidLines
      <3>3. from \notin DOMAIN mapping
        BY <1>5, <3>2
      <3>4. to \notin tos
        <4>1. \A s \in DOMAIN mapping : mapping[s] # to
          BY <1>5, <3>2
        <4> QED BY <1>2, <4>1
      <3> QED BY <1>10, <3>3, <3>4
    <2>7. Ren!ValidRequestSucceeds'
      BY <1>6, <2>6, ValidNext
    <2> QED BY <1>9, <2>2, <2>3, <2>4, <2>5, <2>7 DEF RenInv
  <1>11. CASE ~dup
    <2>1. mapping' = Ren!Put(mapping, from, to) /\ tos' = tos \cup {to} /\ next' = next + 1 /\ renamer_pc' = "mapping"
          /\ from \notin DOMAIN mapping
      BY <1>1, <1>11
    <2>2. /\ DOMAIN mapping' = DOMAIN mapping \cup {from} /\ mapping'[from] = to
          /\ \A s \in DOMAIN mapping : mapping'[s] = mapping[s] /\ s # from
          /\ mapping' = [s \in DOMAIN mapping' |-> mapping'[s]]
      BY <2>1 DEF Ren!Put
    <2>3. mapping' \in Maps
      <3>1. DOMAIN mapping' \in SUBSET Words
        BY <1>2, <1>3, <2>2, MapTyped
      <3>2. mapping' \in [DOMAIN mapping' -> Words]
        BY <1>2, <1>3, <2>2, MapTyped
      <3> QED BY <3>1, <3>2 DEF Maps
    <2>4. tos' = {mapping'[s] : s \in DOMAIN mapping'}
      BY <1>2, <2>1, <2>2
    <2>5. /\ DOMAIN mapping' = {lines'[k][1] : k \in 1..next}
          /\ \A k \in 1..next : mapping'[lines'[k][1]] = lines'[k][2]
      <3>1. \A k \in 1..next : k \in 1..m \/ k = next
        BY <1>1
      <3>2. \A k \in 1..m : k \in 1..next
        BY <1>1
      <3>3. next \in 1..next
        BY <1>1
      <3>4. DOMAIN mapping' = {lines[k][1] : k \in 1..next}
        BY <1>5, <2>2, <3>1, <3>2, <3>3
      <3>5. \A k \in 1..next : mapping'[lines[k][1]] = lines[k][2]
        BY <1>5, <2>2, <3>1
      <3>6. lines' = lines
        BY <1>1
      <3>7. DOMAIN mapping' = {lines'[k][1] : k \in 1..next}
            /\ \A k \in 1..next : mapping'[lines'[k][1]] = lines'[k][2]
        BY <3>4, <3>5, <3>6
      <3> QED BY <3>7
    <2>6. LinesRead(next - 1)'
      <3>1. next' - 1 = next
        BY <1>1, <2>1
      <3> QED BY <2>5, <3>1 DEF LinesRead
    <2>7. MappingOK'
      BY <2>1, <2>4, <2>6 DEF MappingOK
    <2>8. RenTyped'
      BY <1>1, <1>6, <2>1, <2>3 DEF RenInv, RenTyped, RenPhases
    <2>9. Passes'
      BY <1>1, <1>2, <1>3, <1>7, <2>1 DEF RenInv, Passes, Named
    <2>10. DynamicOK'
      BY <1>1, <1>6, <2>1 DEF RenInv, DynamicOK, EntryOK, EntriesDone, Named
    <2>11. VerneedOK'
      BY <1>1, <1>6, <2>1 DEF RenInv, VerneedOK
    <2>12. SegmentOK'
      BY <1>1, <2>1 DEF RenInv, SegmentOK
    <2>13. Ren!ValidRequestSucceeds'
      BY <1>6, <2>1, ValidNext
    <2> QED BY <1>9, <2>7, <2>8, <2>9, <2>10, <2>11, <2>12, <2>13 DEF RenInv
  <1> QED BY <1>10, <1>11

\* No index is missing: all symbols are known.
LEMMA AllKnown ==
    ASSUME original \in Objects
    PROVE  /\ Ren!Cardinality(original.indices) \in Nat
           /\ Ren!Contiguous(original.indices) => Ren!Cardinality(original.indices) = SymCount
           /\ original.indices = 0..(SymCount - 1) => Ren!Contiguous(original.indices)
  <1> DEFINE I == original.indices
             n == SymCount
             J == 0..(n - 1)
  <1>1. n \in Nat \ {0} /\ I \subseteq J /\ n - 1 \in I
    BY InputGiven
  <1>2. IsFiniteSet(J) /\ Cardinality(J) = n
    <2>1. 0 \in Int /\ n - 1 \in Int /\ ~(0 > n - 1) /\ (n - 1) - 0 + 1 = n
      BY <1>1
    <2> QED BY <2>1, FS_Interval
  <1> HIDE DEF I, J, n
  <1>3. IsFiniteSet(I) /\ Cardinality(I) <= n
    BY <1>1, <1>2, FS_Subset
  <1>4. Cardinality(I) \in Nat
    BY <1>3, FS_CardinalityType
  <1>5. Ren!Cardinality(I) = Cardinality(I)
    BY DEF Ren!Cardinality, Cardinality
  <1>6. Ren!Contiguous(I) => Ren!Cardinality(I) = n
    <2>1. SUFFICES ASSUME Ren!Contiguous(I) PROVE Ren!Cardinality(I) = n
      OBVIOUS
    <2>2. (n - 1) + 1 <= Ren!Cardinality(I)
      BY <1>1, <2>1 DEF Ren!Contiguous
    <2> QED BY <1>1, <1>3, <1>4, <1>5, <2>2
  <1>7. I = J => Ren!Contiguous(I)
    <2>1. SUFFICES ASSUME I = J PROVE Ren!Contiguous(I)
      OBVIOUS
    <2>2. Ren!Cardinality(I) = n
      BY <1>2, <1>5, <2>1
    <2>3. 0 \in J /\ \A k \in J : k + 1 <= n
      BY <1>1 DEF J
    <2> QED BY <2>1, <2>2, <2>3 DEF Ren!Contiguous
  <1> QED BY <1>4, <1>5, <1>6, <1>7 DEF I, J, n

\* The symbols are found when no index is missing.
LEMMA CollectSymbolsKeeps == ASSUME RenInv, Ren!CollectSymbols PROVE RenInv'
  <1>1. /\ renamer_pc = "mapping" /\ next > Len(lines)
        /\ UNCHANGED <<original, lines, object, mapping, tos, strtab_builder, sym_names, layout, gnu_hash>>
        /\ IF Ren!Contiguous(object.indices) THEN renamer_pc' = "symbols" /\ next' = 1 ELSE Ren!Abort
    BY DEF Ren!CollectSymbols, Ren!read
  <1>2. /\ sym_names = <<>> /\ LinesRead(next - 1) /\ lines \in MappingFiles /\ original \in Objects
        /\ next \in Nat /\ next <= Len(lines) + 1 /\ object.indices = original.indices
    BY <1>1 DEF RenInv, Passes, MappingOK, RenTyped, SameFile
  <1>3. Len(lines) \in Nat
    BY <1>2, LineTyped
  <1>4. next - 1 = Len(lines)
    BY <1>1, <1>2, <1>3
  <1>5. LinesRead(Len(lines))
    BY <1>2, <1>4
  <1>6. UNCHANGED <<original, lines>> /\ SymCount' = SymCount /\ OrigNames' = OrigNames /\ DynNames' = DynNames
        /\ NeedNames' = NeedNames /\ Ren!VersionedSyms' = Ren!VersionedSyms
    BY <1>1, ReadStays
  <1>7. Ren!NSyms' = Ren!NSyms /\ LinesRead(Len(lines))' = LinesRead(Len(lines))
    BY <1>1 DEF Ren!NSyms, LinesRead
  <1>8. \A k \in 1..SymCount : object.syms[k] = original.syms[k]
    BY <1>2 DEF RenInv, NamesOK
  <1>9. NamesOK'
    <2>1. sym_names' = <<>> /\ renamer_pc' \in {"mapping", "symbols", "aborted"}
          /\ \A k \in 1..SymCount' : object'.syms[k] = original'.syms[k]
      BY <1>1, <1>2, <1>6, <1>8 DEF Ren!Abort
    <2> QED BY <2>1, NothingNamed
  <1>10. RenTyped' /\ MappingOK'
    <2>1. renamer_pc' \in RenPhases /\ next' \in Nat \ {0} /\ renamer_pc' # "mapping"
      BY <1>1 DEF RenInv, RenTyped, RenPhases, Ren!Abort
    <2> QED BY <1>1, <1>5, <1>6, <1>7, <2>1 DEF RenInv, RenTyped, MappingOK
  <1>11. CASE Ren!Contiguous(object.indices)
    <2>1. renamer_pc' = "symbols" /\ next' = 1
      BY <1>1, <1>11
    <2>2. Ren!NSyms = SymCount /\ SymCount \in Nat
      BY <1>2, <1>11, AllKnown, InputGiven DEF Ren!NSyms
    <2>3. Passes'
      <3>1. Len(sym_names') = 0 /\ 1 - 1 = 0
        BY <1>1, <1>2
      <3> QED BY <1>6, <1>7, <2>1, <2>2, <3>1 DEF Passes, Named
    <2>4. DynamicOK'
      BY <1>1, <1>6, <2>1 DEF RenInv, DynamicOK, EntryOK, EntriesDone, Named
    <2>5. VerneedOK'
      BY <1>1, <1>6, <2>1 DEF RenInv, VerneedOK
    <2>6. SegmentOK'
      BY <1>1, <2>1 DEF RenInv, SegmentOK
    <2>7. Ren!ValidRequestSucceeds'
      BY <1>6, <2>1, ValidNext
    <2> QED BY <1>9, <1>10, <2>3, <2>4, <2>5, <2>6, <2>7 DEF RenInv
  <1>12. CASE ~Ren!Contiguous(object.indices)
    <2>1. renamer_pc' = "aborted" /\ next' = next
      BY <1>1, <1>12 DEF Ren!Abort
    <2>2. Passes'
      BY <1>1, <1>2, <1>7, <2>1 DEF RenInv, Passes, Named
    <2>3. DynamicOK' /\ VerneedOK' /\ SegmentOK'
      BY <1>1, <2>1 DEF RenInv, DynamicOK, VerneedOK, SegmentOK, Named
    <2>4. ~ValidRequest
      BY <1>2, <1>12, AllKnown DEF ValidRequest, SymCount
    <2>5. Ren!ValidRequestSucceeds'
      BY <1>6, <2>4, ValidNext
    <2> QED BY <1>9, <1>10, <2>2, <2>3, <2>5 DEF RenInv
  <1> QED BY <1>11, <1>12

-----------------------------------------------------------------------------
\* A symbol gets its new name; what was placed stays where it is.
LEMMA RenameSymbolKeeps == ASSUME RenInv, Ren!RenameSymbol PROVE RenInv'
  <1> DEFINE n == next
             s == Ren!OldStr(object.syms[n])
             b == Ren!Add(strtab_builder, mapping, s)
             w == Ren!Renamed(mapping, s)
             p == Ren!GetPos(b, mapping, s)
  <1>1. /\ renamer_pc = "symbols" /\ n <= Ren!NSyms
        /\ UNCHANGED <<original, lines, mapping, tos, layout, gnu_hash, renamer_pc>>
        /\ strtab_builder' = b /\ sym_names' = Append(sym_names, w)
        /\ object' = [object EXCEPT !.syms[n] = p] /\ next' = n + 1
    BY DEF Ren!RenameSymbol, Ren!read, Ren!NewName
  <1>2. /\ Ren!NSyms = SymCount /\ Len(sym_names) = n - 1 /\ n \in Nat \ {0} /\ original \in Objects
        /\ object \in Ren!Images /\ SameFile(original, object) /\ Len(object.syms) = SymCount
        /\ strtab_builder \in GoodTables /\ mapping \in Maps /\ sym_names \in Seq(Words)
    BY <1>1 DEF RenInv, Passes, RenTyped
  <1>3. SymCount \in Nat /\ n \in 1..SymCount /\ n \in 1..Len(object.syms)
    BY <1>1, <1>2, InputGiven
  <1>4. s = OrigNames[n] /\ s \in Words
    <2>1. object.syms[n] = original.syms[n]
      BY <1>2, <1>3 DEF RenInv, NamesOK
    <2>2. s = Ren!OrigName(n)
      BY <1>2, <2>1 DEF SameFile, Ren!OldStr, Ren!OrigName, Ren!OrigStr
    <2> QED BY <1>2, <1>3, <2>2, NamesGiven
  <1>5. w \in Words
    BY <1>2, <1>4, RenamedTyped
  <1>6. b \in GoodTables /\ Keeps(strtab_builder, b) /\ w \in DOMAIN b.cache /\ p = b.cache[w] /\ p \in Nat
    BY <1>2, <1>5, AddGives
  <1>7. /\ object' \in Ren!Images /\ SameFile(object, object')
        /\ object'.dyn = object.dyn /\ object'.verneed = object.verneed /\ object'.phdrs = object.phdrs
        /\ Len(object'.syms) = SymCount /\ object'.syms[n] = p
        /\ \A j \in 1..SymCount : j # n => object'.syms[j] = object.syms[j]
    BY <1>1, <1>2, <1>3, <1>6, SymSet
  <1>8. UNCHANGED <<original, lines>> /\ SymCount' = SymCount /\ OrigNames' = OrigNames /\ DynNames' = DynNames
        /\ NeedNames' = NeedNames /\ Ren!VersionedSyms' = Ren!VersionedSyms
    BY <1>1, ReadStays
  <1> HIDE DEF s, b, w, p
  <1>9. /\ sym_names' \in Seq(Words) /\ Len(sym_names') = n /\ sym_names'[n] = w
        /\ \A j \in 1..(n - 1) : sym_names'[j] = sym_names[j]
    <2>1. DOMAIN sym_names = 1..(n - 1)
      BY <1>2
    <2> QED BY <1>1, <1>2, <1>5, <2>1
  <1>10. SameFile(original, object')
    BY <1>2, <1>7 DEF SameFile
  <1>11. Ren!NSyms' = SymCount
    BY <1>2, <1>7 DEF Ren!NSyms, SameFile
  <1>12. RenTyped'
    BY <1>1, <1>6, <1>7, <1>8, <1>9, <1>10, <1>2 DEF RenInv, RenTyped
  <1>13. Passes'
    BY <1>1, <1>2, <1>3, <1>8, <1>9, <1>11 DEF Passes, Named
  <1>14. MappingOK'
    BY <1>1 DEF RenInv, MappingOK, LinesRead
  <1>15. NamesOK'
    <2>1. AllPlaced(b, mapping, OrigNames, object.syms, n - 1)
      BY <1>2, <1>6, PlacedKept DEF RenInv, NamesOK
    <2>2. AllPlaced(b, mapping, OrigNames, object'.syms, n)
      <3>1. SUFFICES ASSUME NEW j \in 1..n PROVE PlacedAt(b, mapping, OrigNames[j], object'.syms[j])
        BY DEF AllPlaced
      <3>2. CASE j = n
        BY <1>4, <1>6, <1>7, <3>2 DEF PlacedAt, w
      <3>3. CASE j # n
        <4>1. j \in 1..(n - 1) /\ j \in 1..SymCount
          BY <1>2, <1>3, <3>3
        <4> QED BY <1>7, <2>1, <3>3, <4>1 DEF AllPlaced
      <3> QED BY <3>2, <3>3
    <2>3. \A k \in 1..SymCount : IF k <= n THEN sym_names'[k] = Ren!Renamed(mapping, OrigNames[k])
                                 ELSE object'.syms[k] = original.syms[k]
      <3>1. TAKE k \in 1..SymCount
      <3>2. CASE k = n
        BY <1>4, <1>9, <3>2 DEF w
      <3>3. CASE k # n /\ k <= n
        <4>1. k \in 1..(n - 1) /\ k <= Len(sym_names)
          BY <1>2, <1>3, <3>3
        <4> QED BY <1>9, <3>3, <4>1 DEF RenInv, NamesOK
      <3>4. CASE ~(k <= n)
        <4>1. k # n /\ ~(k <= Len(sym_names))
          BY <1>2, <1>3, <3>4
        <4> QED BY <1>7, <3>4, <4>1 DEF RenInv, NamesOK
      <3> QED BY <3>2, <3>3, <3>4
    <2>4. renamer_pc' \notin Named
      BY <1>1 DEF Named
    <2> QED BY <1>1, <1>8, <1>9, <2>2, <2>3, <2>4 DEF NamesOK
  <1>16. DynamicOK'
    BY <1>1, <1>7, <1>8 DEF RenInv, DynamicOK, EntryOK, EntriesDone, Named
  <1>17. VerneedOK'
    BY <1>1, <1>7, <1>8 DEF RenInv, VerneedOK
  <1>18. SegmentOK'
    BY <1>1, <1>6, <1>7 DEF RenInv, SegmentOK, Keeps
  <1>19. Ren!ValidRequestSucceeds'
    BY <1>1, <1>8, ValidNext
  <1> QED BY <1>12, <1>13, <1>14, <1>15, <1>16, <1>17, <1>18, <1>19 DEF RenInv

-----------------------------------------------------------------------------
\* A valid request gives the symbols distinct names.
LEMMA ValidDistinct ==
    ASSUME RenInv, renamer_pc = "symbols", Len(sym_names) = SymCount, ValidRequest
    PROVE  Ren!Distinct(sym_names)
  <1>1. /\ original \in Objects /\ RenTyped /\ LinesRead(Len(lines)) /\ sym_names \in Seq(Words)
    BY DEF RenInv, RenTyped, MappingOK
  <1>2. DOMAIN sym_names = 1..SymCount /\ SymCount \in Nat
    BY <1>1
  <1>3. DOMAIN original.syms = 1..SymCount
    BY <1>1, InputGiven, ImageTyped DEF SymCount
  <1>4. \A k \in 1..SymCount : sym_names[k] = Wanted(Ren!OrigName(k))
    <2>1. TAKE k \in 1..SymCount
    <2>2. sym_names[k] = Ren!Renamed(mapping, OrigNames[k])
      BY <1>2, <2>1 DEF RenInv, NamesOK
    <2>3. OrigNames[k] = Ren!OrigName(k) /\ OrigNames[k] \in Words
      BY <1>1, <2>1, NamesGiven
    <2> QED BY <1>1, <2>2, <2>3, ValidNames
  <1>5. {sym_names[k] : k \in DOMAIN sym_names} = {Wanted(s) : s \in {Ren!OrigName(k) : k \in DOMAIN original.syms}}
    <2>1. \A k \in DOMAIN sym_names : k \in DOMAIN original.syms /\ sym_names[k] = Wanted(Ren!OrigName(k))
      BY <1>2, <1>3, <1>4
    <2>2. \A k \in DOMAIN original.syms : k \in DOMAIN sym_names /\ sym_names[k] = Wanted(Ren!OrigName(k))
      BY <1>2, <1>3, <1>4
    <2> QED BY <2>1, <2>2
  <1>6. Ren!Cardinality({Wanted(s) : s \in {Ren!OrigName(k) : k \in DOMAIN original.syms}}) = SymCount
    BY DEF ValidRequest, SymCount
  <1> QED BY <1>5, <1>6 DEF Ren!Distinct

\* The new names are distinct, or the program stops.
LEMMA CheckNamesKeeps == ASSUME RenInv, Ren!CheckNames PROVE RenInv'
  <1>1. /\ renamer_pc = "symbols" /\ next > Ren!NSyms
        /\ UNCHANGED <<original, lines, object, mapping, tos, strtab_builder, sym_names, layout, gnu_hash>>
        /\ IF Ren!Distinct(sym_names) THEN renamer_pc' = "dynamic" /\ next' = 1 ELSE Ren!Abort
    BY DEF Ren!CheckNames, Ren!read
  <1>2. /\ Ren!NSyms = SymCount /\ Len(sym_names) = next - 1 /\ next \in Nat \ {0} /\ next <= SymCount + 1
        /\ original \in Objects /\ sym_names \in Seq(Words)
    BY <1>1 DEF RenInv, Passes, RenTyped
  <1>3. SymCount \in Nat
    BY <1>2, InputGiven
  <1>4. Len(sym_names) = SymCount
    BY <1>1, <1>2, <1>3
  <1>5. UNCHANGED <<original, lines>> /\ SymCount' = SymCount /\ OrigNames' = OrigNames /\ DynNames' = DynNames
        /\ NeedNames' = NeedNames /\ Ren!VersionedSyms' = Ren!VersionedSyms
    BY <1>1, ReadStays
  <1>6. Ren!NSyms' = Ren!NSyms
    BY <1>1 DEF Ren!NSyms
  <1>7. RenTyped' /\ MappingOK'
    <2>1. renamer_pc' \in RenPhases /\ next' \in Nat \ {0} /\ renamer_pc' # "mapping"
      <3>1. (renamer_pc' = "dynamic" /\ next' = 1) \/ (renamer_pc' = "aborted" /\ next' = next)
        BY <1>1 DEF Ren!Abort
      <3>2. next' \in Nat \ {0}
        <4>1. next \in Nat \ {0} /\ 1 \in Nat \ {0}
          BY <1>2
        <4> QED BY <3>1, <4>1
      <3> QED BY <3>1, <3>2 DEF RenPhases
    <2>2. RenTyped'
      BY <1>1, <1>5, <2>1 DEF RenInv, RenTyped
    <2>3. tos = {mapping[s] : s \in DOMAIN mapping} /\ LinesRead(Len(lines))
      BY <1>1 DEF RenInv, MappingOK
    <2>4. MappingOK'
      BY <1>1, <2>1, <2>3 DEF MappingOK, LinesRead
    <2> QED BY <2>2, <2>4
  <1>8. AllPlaced(strtab_builder, mapping, OrigNames, object.syms, SymCount)
        /\ \A k \in 1..SymCount : k <= Len(sym_names) /\ sym_names[k] = Ren!Renamed(mapping, OrigNames[k])
    BY <1>4 DEF RenInv, NamesOK
  <1>9. CASE Ren!Distinct(sym_names)
    <2>1. renamer_pc' = "dynamic" /\ next' = 1
      BY <1>1, <1>9
    <2>2. Passes'
      <3>1. 1 <= Len(original.dyn) + 1
        BY <1>2, InputGiven, ImageTyped
      <3> QED BY <1>1, <1>2, <1>3, <1>4, <1>5, <1>6, <2>1, <3>1 DEF Passes, Named
    <2>3. \A j, k \in 1..SymCount : sym_names[j] = sym_names[k] => j = k
      <3>1. DOMAIN sym_names = 1..SymCount
        BY <1>2, <1>4
      <3>2. Ren!Cardinality({sym_names[k] : k \in 1..SymCount}) = SymCount
        BY <1>4, <1>9, <3>1 DEF Ren!Distinct
      <3> QED BY <1>3, <3>1, <3>2, DistinctGives
    <2>4. NamesOK'
      BY <1>1, <1>4, <1>5, <1>8, <2>3 DEF NamesOK
    <2>5. DynamicOK'
      <3>1. EntriesDone = 0 /\ EntriesDone' = 0
        BY <1>1, <2>1 DEF EntriesDone
      <3> QED BY <1>1, <1>5, <3>1 DEF RenInv, DynamicOK, EntryOK
    <2>6. VerneedOK'
      BY <1>1, <1>5, <2>1 DEF RenInv, VerneedOK
    <2>7. SegmentOK'
      BY <1>1, <2>1 DEF RenInv, SegmentOK
    <2>8. Ren!ValidRequestSucceeds'
      BY <1>5, <2>1, ValidNext
    <2> QED BY <1>7, <2>2, <2>4, <2>5, <2>6, <2>7, <2>8 DEF RenInv
  <1>10. CASE ~Ren!Distinct(sym_names)
    <2>1. renamer_pc' = "aborted" /\ next' = next
      BY <1>1, <1>10 DEF Ren!Abort
    <2>2. Passes' /\ DynamicOK' /\ VerneedOK' /\ SegmentOK'
      BY <1>1, <1>6, <2>1 DEF RenInv, Passes, DynamicOK, VerneedOK, SegmentOK, Named
    <2>3. NamesOK'
      BY <1>1, <1>4, <1>5, <1>8, <2>1 DEF NamesOK, Named
    <2>4. ~ValidRequest
      BY <1>1, <1>4, <1>10, ValidDistinct
    <2>5. Ren!ValidRequestSucceeds'
      BY <1>5, <2>4, ValidNext
    <2> QED BY <1>7, <2>2, <2>3, <2>5 DEF RenInv
  <1> QED BY <1>9, <1>10

-----------------------------------------------------------------------------
\* An entry of .dynamic: a string is placed, another entry is left alone.
LEMMA RewriteDynamicKeeps == ASSUME RenInv, Ren!RewriteDynamic PROVE RenInv'
  <1> DEFINE n == next
             N == Len(original.dyn)
             d == object.dyn[n]
             s == Ren!OldStr(d.val)
             b == Ren!Add(strtab_builder, mapping, s)
             w == Ren!Renamed(mapping, s)
             p == Ren!GetPos(b, mapping, s)
  <1>1. /\ renamer_pc = "dynamic"
        /\ UNCHANGED <<original, lines, mapping, tos, sym_names, layout, gnu_hash>>
        /\ IF n > Len(object.dyn)
           THEN renamer_pc' = "verneed" /\ next' = 1 /\ UNCHANGED <<object, strtab_builder>>
           ELSE /\ IF Ren!IsRewritten(d.tag)
                   THEN strtab_builder' = b /\ object' = [object EXCEPT !.dyn[n].val = p]
                   ELSE UNCHANGED <<object, strtab_builder>>
                /\ next' = n + 1 /\ renamer_pc' = renamer_pc
    BY DEF Ren!RewriteDynamic, Ren!read
  <1>2. /\ Ren!NSyms = SymCount /\ Len(sym_names) = SymCount /\ n \in Nat \ {0} /\ n <= N + 1
        /\ original \in Objects /\ original \in Ren!Images
        /\ object \in Ren!Images /\ SameFile(original, object) /\ Len(object.dyn) = N
        /\ strtab_builder \in GoodTables /\ mapping \in Maps
        /\ \A k \in 1..N : object.dyn[k].tag = original.dyn[k].tag
        /\ \A k \in 1..N : Ren!IsRewritten(original.dyn[k].tag) => EntryOK(k)
        /\ \A j, k \in 1..SymCount : sym_names[j] = sym_names[k] => j = k
    BY <1>1, InputGiven DEF RenInv, Passes, RenTyped, Named, DynamicOK, NamesOK
  <1>3. N \in Nat /\ SymCount \in Nat
    BY <1>2, ImageTyped, InputGiven
  <1>4. UNCHANGED <<original, lines>> /\ SymCount' = SymCount /\ OrigNames' = OrigNames /\ DynNames' = DynNames
        /\ NeedNames' = NeedNames /\ Ren!VersionedSyms' = Ren!VersionedSyms
    BY <1>1, ReadStays
  <1>5. EntriesDone = n - 1
    BY <1>1 DEF EntriesDone
  <1>6. MappingOK'
    <2>1. renamer_pc' # "mapping"
      BY <1>1
    <2> QED BY <1>1, <2>1 DEF RenInv, MappingOK, LinesRead
  <1>7. renamer_pc' # "aborted" /\ renamer_pc' \in {"dynamic", "verneed"}
    BY <1>1
  <1>8. Ren!ValidRequestSucceeds'
    BY <1>4, <1>7, ValidNext
  <1>9. CASE n > N
    <2>1. renamer_pc' = "verneed" /\ next' = 1 /\ UNCHANGED <<object, strtab_builder>>
      BY <1>1, <1>2, <1>9
    <2>2. RenTyped' /\ Passes'
      <3>1. Ren!NSyms' = Ren!NSyms
        BY <2>1 DEF Ren!NSyms
      <3> QED BY <1>1, <1>2, <1>3, <1>4, <2>1, <3>1 DEF RenInv, RenTyped, RenPhases, Passes, Named
    <2>3. NamesOK'
      BY <1>1, <1>2, <1>4, <2>1 DEF RenInv, NamesOK
    <2>4. DynamicOK'
      <3>1. EntriesDone = N /\ EntriesDone' = N
        <4>1. EntriesDone' = Len(original'.dyn)
          BY <2>1 DEF EntriesDone
        <4> QED BY <1>2, <1>3, <1>4, <1>5, <1>9, <4>1
      <3> QED BY <1>1, <1>2, <1>4, <2>1, <3>1 DEF DynamicOK, EntryOK
    <2>5. VerneedOK'
      <3>1. \A x \in Ren!VersionedSyms : x \in Nat \ {0}
        <4>1. original.versym \in Seq(Nat)
          BY <1>2, ImageTyped
        <4> QED BY <4>1 DEF Ren!VersionedSyms
      <3>2. \A x \in Ren!VersionedSyms : ~(1 > x)
        BY <3>1
      <3> QED BY <1>1, <1>4, <2>1, <3>2 DEF RenInv, VerneedOK
    <2>6. SegmentOK'
      BY <1>1, <2>1 DEF RenInv, SegmentOK
    <2> QED BY <1>6, <1>8, <2>2, <2>3, <2>4, <2>5, <2>6 DEF RenInv
  <1>10. ASSUME ~(n > N), Ren!IsRewritten(d.tag) PROVE RenInv'
    <2>1. n \in 1..N
      BY <1>2, <1>3, <1>10
    <2>2. /\ strtab_builder' = b /\ object' = [object EXCEPT !.dyn[n].val = p]
          /\ next' = n + 1 /\ renamer_pc' = "dynamic"
      BY <1>1, <1>2, <1>10
    <2>3. s = DynNames[n] /\ s \in Words
      <3>1. Ren!IsRewritten(original.dyn[n].tag)
        BY <1>2, <1>10, <2>1
      <3>2. EntryOK(n) /\ ~(n <= n - 1)
        BY <1>2, <2>1, <3>1
      <3>3. d.val = original.dyn[n].val
        BY <1>5, <3>2 DEF EntryOK
      <3>4. s = Ren!OrigStr(original.dyn[n].val)
        BY <1>2, <3>3 DEF SameFile, Ren!OldStr, Ren!OrigStr
      <3> QED BY <1>2, <2>1, <3>1, <3>4, NamesGiven
    <2>4. w \in Words
      BY <1>2, <2>3, RenamedTyped
    <2>5. b \in GoodTables /\ Keeps(strtab_builder, b) /\ w \in DOMAIN b.cache /\ p = b.cache[w] /\ p \in Nat
      BY <1>2, <2>4, AddGives
    <2>6. n \in 1..Len(object.dyn)
      BY <1>2, <2>1
    <2>7. /\ object' \in Ren!Images /\ SameFile(object, object')
          /\ object'.syms = object.syms /\ object'.verneed = object.verneed /\ object'.phdrs = object.phdrs
          /\ Len(object'.dyn) = Len(object.dyn) /\ object'.dyn[n].val = p
          /\ \A j \in 1..Len(object.dyn) : object'.dyn[j].tag = object.dyn[j].tag /\ (j # n => object'.dyn[j] = object.dyn[j])
      <3> HIDE DEF s, b, w, p, d
      <3>1. object \in Ren!Images /\ n \in 1..Len(object.dyn) /\ p \in Nat
        BY <1>2, <2>5, <2>6
      <3>2. object' = [object EXCEPT !.dyn[n].val = p]
        BY <2>2
      <3> QED BY <3>1, <3>2, DynSet
    <2> HIDE DEF s, b, w, p, d
    <2>8. SameFile(original, object')
      BY <1>2, <2>7 DEF SameFile
    <2>9. RenTyped'
      BY <1>1, <1>2, <1>4, <2>2, <2>5, <2>7, <2>8 DEF RenInv, RenTyped, RenPhases
    <2>10. Passes'
      <3>1. Ren!NSyms' = Ren!NSyms
        BY <2>7 DEF Ren!NSyms, SameFile
      <3> QED BY <1>1, <1>2, <1>3, <1>4, <2>1, <2>2, <3>1 DEF Passes, Named
    <2>11. NamesOK'
      <3>1. AllPlaced(b, mapping, OrigNames, object.syms, Len(sym_names))
        BY <2>5, PlacedKept DEF RenInv, NamesOK
      <3> QED BY <1>1, <1>2, <1>4, <2>2, <2>7, <3>1 DEF RenInv, NamesOK
    <2>12. DynamicOK'
      <3>1. EntriesDone' = n
        <4>1. EntriesDone' = next' - 1
          BY <2>2 DEF EntriesDone
        <4> QED BY <1>2, <2>2, <4>1
      <3>2. SUFFICES ASSUME NEW k \in 1..N, Ren!IsRewritten(original.dyn[k].tag) PROVE EntryOK(k)'
        BY <1>4 DEF DynamicOK
      <3>3. CASE k = n
        <4>1. PlacedAt(b, mapping, DynNames[n], p)
          BY <2>3, <2>5 DEF PlacedAt, w
        <4>2. k <= EntriesDone'
          BY <1>2, <3>1, <3>3
        <4> QED BY <1>1, <1>4, <2>2, <2>7, <3>3, <4>1, <4>2 DEF EntryOK
      <3>4. CASE k # n
        <4>1. object'.dyn[k] = object.dyn[k] /\ EntryOK(k)
          BY <1>2, <2>7, <3>2, <3>4
        <4>2. (k <= EntriesDone') <=> (k <= EntriesDone)
          BY <1>2, <1>3, <1>5, <3>1, <3>4
        <4> QED BY <1>1, <1>4, <2>2, <2>5, <4>1, <4>2 DEF EntryOK, PlacedAt, Keeps
      <3> QED BY <3>3, <3>4
    <2>13. VerneedOK'
      BY <1>1, <1>4, <2>2, <2>7 DEF RenInv, VerneedOK
    <2>14. SegmentOK'
      BY <1>1, <2>2, <2>5, <2>7 DEF RenInv, SegmentOK, Keeps
    <2> QED BY <1>6, <1>8, <2>9, <2>10, <2>11, <2>12, <2>13, <2>14 DEF RenInv
  <1>11. ASSUME ~(n > N), ~Ren!IsRewritten(d.tag) PROVE RenInv'
    <2>1. n \in 1..N
      BY <1>2, <1>3, <1>11
    <2>2. UNCHANGED <<object, strtab_builder>> /\ next' = n + 1 /\ renamer_pc' = "dynamic"
      BY <1>1, <1>2, <1>11
    <2>3. RenTyped' /\ Passes'
      <3>1. Ren!NSyms' = Ren!NSyms
        BY <2>2 DEF Ren!NSyms
      <3> QED BY <1>1, <1>2, <1>3, <1>4, <2>1, <2>2, <3>1 DEF RenInv, RenTyped, RenPhases, Passes, Named
    <2>4. NamesOK'
      BY <1>1, <1>2, <1>4, <2>2 DEF RenInv, NamesOK
    <2>5. DynamicOK'
      <3>1. EntriesDone' = n
        <4>1. EntriesDone' = next' - 1
          BY <2>2 DEF EntriesDone
        <4> QED BY <1>2, <2>2, <4>1
      <3>2. SUFFICES ASSUME NEW k \in 1..N, Ren!IsRewritten(original.dyn[k].tag) PROVE EntryOK(k)'
        BY <1>4 DEF DynamicOK
      <3>3. k # n
        BY <1>2, <1>11, <2>1, <3>2
      <3>4. EntryOK(k)
        BY <1>2, <3>2
      <3>5. (k <= EntriesDone') <=> (k <= EntriesDone)
        BY <1>2, <1>3, <1>5, <3>1, <3>3
      <3> QED BY <1>1, <1>4, <2>2, <3>4, <3>5 DEF EntryOK
    <2>6. VerneedOK'
      BY <1>1, <1>4, <2>2 DEF RenInv, VerneedOK
    <2>7. SegmentOK'
      BY <1>1, <2>2 DEF RenInv, SegmentOK
    <2> QED BY <1>6, <1>8, <2>3, <2>4, <2>5, <2>6, <2>7 DEF RenInv
  <1> QED BY <1>9, <1>10, <1>11

-----------------------------------------------------------------------------
\* What is read at the offsets are words, and inside the file those of the file.
LEMMA ReadingsGive ==
    ASSUME RenTyped, NEW offsets \in Seq(Nat), NEW strings \in Ren!Readings(offsets)
    PROVE  /\ strings \in Seq(Words) /\ Len(strings) = Len(offsets)
           /\ \A k \in 1..Len(offsets) :
                 offsets[k] < Len(original.strtab) => strings[k] = Ren!OrigStr(offsets[k])
  <1> DEFINE n == Len(offsets)
             Read(stray, k) == IF Ren!PastEnd(offsets[k]) THEN stray[k] ELSE Ren!OldStr(offsets[k])
  <1>1. n \in Nat /\ DOMAIN offsets = 1..n /\ \A k \in 1..n : offsets[k] \in Nat
    OBVIOUS
  <1>2. PICK stray \in [1..n -> Strays] : strings = [k \in 1..n |-> Read(stray, k)]
    BY <1>1 DEF Ren!Readings
  <1>3. original.strtab \in Seq(Nat) /\ object.strtab = original.strtab /\ Len(original.strtab) \in Nat
    <2>1. original \in Ren!Images
      BY InputGiven DEF RenTyped
    <2>2. original.strtab \in Seq(Nat)
      BY <2>1, ImageTyped
    <2> QED BY <2>2 DEF RenTyped, SameFile
  <1>4. \A k \in 1..n : /\ Ren!PastEnd(offsets[k]) <=> ~(offsets[k] < Len(original.strtab))
                        /\ Ren!OldStr(offsets[k]) = Ren!OrigStr(offsets[k])
    BY <1>1, <1>3 DEF Ren!PastEnd, Ren!OldStr, Ren!OrigStr
  <1>5. \A k \in 1..n : stray[k] \in Words
    BY OutputUseAssumption DEF Ren!StraysAssumption, Words
  <1>6. \A k \in 1..n : Read(stray, k) \in Words
    <2>1. TAKE k \in 1..n
    <2>2. CASE Ren!PastEnd(offsets[k])
      BY <1>5, <2>2
    <2>3. CASE ~Ren!PastEnd(offsets[k])
      <3>1. offsets[k] \in Nat /\ offsets[k] < Len(original.strtab)
        BY <1>1, <1>4, <2>3
      <3>2. Ren!OrigStr(offsets[k]) \in Words
        BY <1>3, <3>1, StrTyped DEF Ren!OrigStr
      <3> QED BY <1>4, <2>3, <3>2
    <2> QED BY <2>2, <2>3
  <1>7. \A k \in 1..n : strings[k] = Read(stray, k)
    BY <1>2
  <1>8. \A k \in 1..n : offsets[k] < Len(original.strtab) => strings[k] = Ren!OrigStr(offsets[k])
    BY <1>4, <1>7
  <1>9. strings \in [1..n -> Words]
    <2> HIDE DEF Read
    <2> QED BY <1>2, <1>6
  <1> HIDE DEF Read
  <1> QED BY <1>1, <1>8, <1>9, TupleIsSeq

\* The versioned symbols are among the symbols.
LEMMA VersionedIs ==
    ASSUME RenTyped, NEW n \in 1..SymCount
    PROVE  /\ Ren!VersionedSyms \subseteq Nat \ {0}
           /\ Ren!IsVersioned(object, n) => n \in Ren!VersionedSyms
           /\ n \in Ren!VersionedSyms /\ ~Ren!IsVersioned(object, n) => Len(object.verneed) = 0
  <1>1. original \in Objects /\ object.versym = original.versym /\ object \in Ren!Images /\ original \in Ren!Images
    BY InputGiven DEF RenTyped, SameFile
  <1>2. original.versym \in Seq(Nat) /\ object.verneed \in Seq(Nat) /\ Len(original.versym) \in {0, SymCount}
    BY <1>1, InputGiven, ImageTyped
  <1>3. DOMAIN original.versym = 1..Len(original.versym)
    BY <1>2
  <1>4. Ren!VersionedSyms \subseteq Nat \ {0}
    BY <1>3 DEF Ren!VersionedSyms
  <1>5. Ren!IsVersioned(object, n) => n \in Ren!VersionedSyms
    <2>1. SUFFICES ASSUME Ren!IsVersioned(object, n) PROVE n \in Ren!VersionedSyms
      OBVIOUS
    <2>2. original.versym # <<>> /\ ~Ren!IsSpecial(original.versym[n])
      BY <1>1, <2>1 DEF Ren!IsVersioned
    <2>3. Len(original.versym) # 0
      BY <1>2, <2>2
    <2> QED BY <1>2, <1>3, <2>2, <2>3 DEF Ren!VersionedSyms
  <1>6. n \in Ren!VersionedSyms /\ ~Ren!IsVersioned(object, n) => Len(object.verneed) = 0
    <2>1. SUFFICES ASSUME n \in Ren!VersionedSyms, ~Ren!IsVersioned(object, n) PROVE Len(object.verneed) = 0
      OBVIOUS
    <2>2. n \in DOMAIN original.versym /\ ~Ren!IsSpecial(object.versym[n])
      BY <1>1, <2>1 DEF Ren!VersionedSyms
    <2>3. object.versym # <<>>
      BY <1>1, <1>3, <2>2
    <2>4. object.verneed = <<>>
      BY <2>1, <2>2, <2>3 DEF Ren!IsVersioned
    <2> QED BY <2>4
  <1> QED BY <1>4, <1>5, <1>6

\* A versioned symbol: with only one, the strings read are those of the input.
LEMMA RewriteVerneedKeeps == ASSUME RenInv, Ren!RewriteVerneed PROVE RenInv'
  <1> DEFINE n == next
             N == Len(original.verneed)
  <1>1. /\ renamer_pc = "verneed" /\ n <= Ren!NSyms
        /\ UNCHANGED <<original, lines, mapping, tos, sym_names, layout, gnu_hash, renamer_pc>>
        /\ next' = n + 1
        /\ IF Ren!IsVersioned(object, n)
           THEN \E strings \in Ren!Readings(object.verneed) :
                   /\ object' = [object EXCEPT !.verneed = Ren!Rewritten(strings).offsets]
                   /\ strtab_builder' = Ren!Rewritten(strings).tab
           ELSE UNCHANGED <<object, strtab_builder>>
    BY DEF Ren!RewriteVerneed, Ren!read
  <1>2. /\ Ren!NSyms = SymCount /\ Len(sym_names) = SymCount /\ n \in Nat \ {0} /\ n <= SymCount + 1
        /\ original \in Objects /\ original \in Ren!Images /\ RenTyped
        /\ object \in Ren!Images /\ SameFile(original, object) /\ Len(object.verneed) = N
        /\ strtab_builder \in GoodTables /\ mapping \in Maps
        /\ \A k \in 1..Len(original.dyn) : Ren!IsRewritten(original.dyn[k].tag) => EntryOK(k)
    BY <1>1, InputGiven DEF RenInv, Passes, RenTyped, Named, DynamicOK
  <1>3. SymCount \in Nat /\ n \in 1..SymCount
    BY <1>1, <1>2, InputGiven
  <1>4. UNCHANGED <<original, lines>> /\ SymCount' = SymCount /\ OrigNames' = OrigNames /\ DynNames' = DynNames
        /\ NeedNames' = NeedNames /\ Ren!VersionedSyms' = Ren!VersionedSyms
    BY <1>1, ReadStays
  <1>5. MappingOK'
    <2>1. renamer_pc' # "mapping"
      BY <1>1
    <2> QED BY <1>1, <2>1 DEF RenInv, MappingOK, LinesRead
  <1>6. Ren!ValidRequestSucceeds'
    BY <1>1, <1>4, ValidNext
  <1>7. EntriesDone = Len(original.dyn) /\ EntriesDone' = Len(original.dyn)
    BY <1>1 DEF EntriesDone
  <1>8. CASE ~Ren!IsVersioned(object, n)
    <2>1. UNCHANGED <<object, strtab_builder>>
      BY <1>1, <1>8
    <2>2. RenTyped' /\ Passes'
      <3>1. Ren!NSyms' = Ren!NSyms
        BY <2>1 DEF Ren!NSyms
      <3> QED BY <1>1, <1>2, <1>3, <1>4, <2>1, <3>1 DEF RenInv, RenTyped, RenPhases, Passes, Named
    <2>3. NamesOK'
      BY <1>1, <1>2, <1>4, <2>1 DEF RenInv, NamesOK
    <2>4. DynamicOK'
      BY <1>1, <1>2, <1>4, <1>7, <2>1 DEF DynamicOK, EntryOK
    <2>5. VerneedOK'
      <3>1. SUFFICES ASSUME NEW x \in Ren!VersionedSyms, Ren!VersionedSyms = {x}
                     PROVE  /\ n + 1 <= x => object.verneed = original.verneed
                            /\ n + 1 > x => AllPlaced(strtab_builder, mapping, NeedNames, object.verneed, N)
        BY <1>1, <1>4, <2>1 DEF VerneedOK
      <3>2. /\ n <= x => object.verneed = original.verneed
            /\ n > x => AllPlaced(strtab_builder, mapping, NeedNames, object.verneed, N)
        BY <1>1, <3>1 DEF RenInv, VerneedOK
      <3>3. x \in Nat
        BY <1>2, <1>3, <3>1, VersionedIs
      <3>4. n + 1 <= x => n <= x
        BY <1>2, <3>3
      <3>5. CASE n = x
        <4>1. N = 0
          BY <1>2, <1>3, <1>8, <3>1, <3>5, VersionedIs
        <4>2. AllPlaced(strtab_builder, mapping, NeedNames, object.verneed, N)
          BY <4>1 DEF AllPlaced
        <4> QED BY <3>2, <3>4, <4>2
      <3>6. CASE n # x
        <4>1. n + 1 > x => n > x
          BY <1>2, <3>3, <3>6
        <4> QED BY <3>2, <3>4, <4>1
      <3> QED BY <3>5, <3>6
    <2>6. SegmentOK'
      BY <1>1, <2>1 DEF RenInv, SegmentOK
    <2> QED BY <1>5, <1>6, <2>2, <2>3, <2>4, <2>5, <2>6 DEF RenInv
  <1>9. CASE Ren!IsVersioned(object, n)
    <2>1. PICK strings \in Ren!Readings(object.verneed) :
             /\ object' = [object EXCEPT !.verneed = Ren!Rewritten(strings).offsets]
             /\ strtab_builder' = Ren!Rewritten(strings).tab
      BY <1>1, <1>9
    <2>2. object.verneed \in Seq(Nat)
      BY <1>2, ImageTyped
    <2>3. /\ strings \in Seq(Words) /\ Len(strings) = N
          /\ \A k \in 1..N : object.verneed[k] < Len(original.strtab) => strings[k] = Ren!OrigStr(object.verneed[k])
      <3>1. RenTyped /\ object.verneed \in Seq(Nat) /\ Len(object.verneed) = N
        BY <1>2, <2>2
      <3> QED BY <3>1, ReadingsGive
    <2> DEFINE offsets == Ren!Rewritten(strings).offsets
               tab == Ren!Rewritten(strings).tab
    <2>4. /\ tab \in GoodTables /\ Keeps(strtab_builder, tab) /\ offsets \in Seq(Nat) /\ Len(offsets) = N
          /\ AllPlaced(tab, mapping, strings, offsets, N)
      <3>1. strtab_builder \in GoodTables /\ mapping \in Maps /\ strings \in Seq(Words)
        BY <1>2, <2>3
      <3> QED BY <2>3, <3>1, RewrittenGives
    <2>5. object' = [object EXCEPT !.verneed = offsets] /\ strtab_builder' = tab
      BY <2>1
    <2> HIDE DEF offsets, tab
    <2>6. /\ object' \in Ren!Images /\ SameFile(object, object')
          /\ object'.syms = object.syms /\ object'.dyn = object.dyn /\ object'.phdrs = object.phdrs
          /\ object'.verneed = offsets
      <3>1. object \in Ren!Images /\ offsets \in Seq(Nat)
        BY <1>2, <2>4
      <3> QED BY <2>5, <3>1, VerneedSet
    <2>7. SameFile(original, object')
      BY <1>2, <2>6 DEF SameFile
    <2>8. RenTyped'
      BY <1>1, <1>2, <1>4, <2>4, <2>5, <2>6, <2>7 DEF RenTyped
    <2>9. Passes'
      <3>1. Ren!NSyms' = Ren!NSyms
        BY <2>6 DEF Ren!NSyms, SameFile
      <3> QED BY <1>1, <1>2, <1>3, <1>4, <3>1 DEF Passes, Named
    <2>10. NamesOK'
      <3>1. AllPlaced(tab, mapping, OrigNames, object.syms, Len(sym_names))
        BY <2>4, PlacedKept DEF RenInv, NamesOK
      <3> QED BY <1>1, <1>2, <1>4, <2>5, <2>6, <3>1 DEF RenInv, NamesOK
    <2>11. DynamicOK'
      <3>1. SUFFICES ASSUME NEW k \in 1..Len(original.dyn), Ren!IsRewritten(original.dyn[k].tag) PROVE EntryOK(k)'
        BY <1>4 DEF DynamicOK
      <3>2. EntryOK(k)
        BY <1>2, <3>1
      <3> QED BY <1>1, <1>4, <1>7, <2>4, <2>5, <2>6, <3>2 DEF EntryOK, PlacedAt, Keeps
    <2>12. VerneedOK'
      <3>1. SUFFICES ASSUME NEW x \in Ren!VersionedSyms, Ren!VersionedSyms = {x}
                     PROVE  /\ n + 1 <= x => offsets = original.verneed
                            /\ n + 1 > x => AllPlaced(tab, mapping, NeedNames, offsets, N)
        BY <1>1, <1>4, <2>5, <2>6 DEF VerneedOK
      <3>2. n = x
        BY <1>2, <1>3, <1>9, <3>1, VersionedIs
      <3>3. ~(n + 1 <= x)
        BY <1>2, <3>2
      <3>4. object.verneed = original.verneed
        BY <1>1, <1>2, <3>1, <3>2 DEF RenInv, VerneedOK
      <3>5. \A k \in 1..N : original.verneed[k] < Len(original.strtab) /\ NeedNames[k] = Ren!OrigStr(original.verneed[k])
        BY <1>2, InputGiven, NamesGiven
      <3>6. \A k \in 1..N : strings[k] = NeedNames[k]
        BY <2>3, <3>4, <3>5
      <3>7. AllPlaced(tab, mapping, NeedNames, offsets, N)
        BY <2>4, <3>6 DEF AllPlaced
      <3> QED BY <3>3, <3>7
    <2>13. SegmentOK'
      BY <1>1, <2>4, <2>5, <2>6 DEF RenInv, SegmentOK, Keeps
    <2> QED BY <1>5, <1>6, <2>8, <2>9, <2>10, <2>11, <2>12, <2>13 DEF RenInv
  <1> QED BY <1>8, <1>9

\* A read past the end ends the program.
LEMMA ReadNothingKeeps == ASSUME RenInv, Ren!ReadNothing PROVE RenInv'
  <1>1. /\ renamer_pc = "verneed" /\ renamer_pc' = "killed"
        /\ UNCHANGED <<original, lines, object, mapping, tos, strtab_builder, sym_names, layout, gnu_hash, next>>
    BY DEF Ren!ReadNothing, Ren!read
  <1>2. UNCHANGED <<original, lines>> /\ SymCount' = SymCount /\ OrigNames' = OrigNames /\ DynNames' = DynNames
        /\ NeedNames' = NeedNames /\ Ren!VersionedSyms' = Ren!VersionedSyms /\ Ren!NSyms' = Ren!NSyms
    BY <1>1, ReadStays DEF Ren!NSyms
  <1>3. RenTyped'
    BY <1>1, <1>2 DEF RenInv, RenTyped, RenPhases
  <1>4. MappingOK'
    BY <1>1 DEF RenInv, MappingOK, LinesRead
  <1>5. Passes' /\ DynamicOK' /\ VerneedOK' /\ SegmentOK'
    BY <1>1, <1>2 DEF RenInv, Passes, DynamicOK, VerneedOK, SegmentOK, Named
  <1>6. NamesOK'
    BY <1>1, <1>2 DEF RenInv, NamesOK, Named
  <1>7. Ren!ValidRequestSucceeds'
    BY <1>1, <1>2, ValidNext
  <1> QED BY <1>3, <1>4, <1>5, <1>6, <1>7 DEF RenInv

-----------------------------------------------------------------------------
\* Where the new segment goes: behind all others, and it has room for both tables.
LEMMA LayoutGives ==
    ASSUME original \in Objects, strtab_builder \in GoodTables, sym_names \in Seq(Words)
    PROVE  LET l == Ren!Layout(original)
           IN  /\ l # <<>> /\ l.strtab_vaddr \in Nat /\ l.gnu_hash_vaddr \in Nat
               /\ l.strtab_fileoffset \in Nat /\ l.strs_size \in Nat
               /\ \A k \in 1..Len(original.phdrs) :
                     original.phdrs[k].vaddr + original.phdrs[k].memsz <= l.strtab_vaddr
               /\ l.strtab_fileoffset >= original.filesize
               /\ (l.strtab_vaddr - l.strtab_fileoffset) % Page = 0
               /\ l.gnu_hash_vaddr = l.strtab_vaddr + Len(strtab_builder.strtab)
               /\ Len(strtab_builder.strtab) + (24 + 4 * Len(sym_names)) <= l.strs_size
  <1> DEFINE P == original.phdrs
             n == Len(P)
             End(k) == P[k].vaddr + P[k].memsz
             S == {Ren!AlignNext(End(k)) : k \in DOMAIN P}
             v == Ren!StrtabVaddr(P)
             T == Len(strtab_builder.strtab)
             l == Ren!Layout(original)
  <1>1. original \in Ren!Images /\ P \in Seq(Phdrs) /\ original.filesize \in Nat
    BY InputGiven, ImageTyped
  <1>2. n \in Nat /\ DOMAIN P = 1..n /\ \A k \in 1..n : P[k] \in Phdrs
    BY <1>1
  <1>3. \A k \in 1..n : End(k) \in Nat
    BY <1>2 DEF Phdrs
  <1>4. S # {}
    <2>1. PICK k \in 1..n : P[k].type = "PT_DYNAMIC"
      BY <1>2, InputGiven
    <2>2. Ren!AlignNext(End(k)) \in S
      BY <1>2, <2>1
    <2> QED BY <2>2
  <1>5. \A k \in 1..n : Ren!AlignNext(End(k)) \in Nat /\ End(k) <= Ren!AlignNext(End(k))
    <2> HIDE DEF End
    <2> QED BY <1>3, AlignNextGives
  <1>6. PICK b \in Nat : \A y \in S : y <= b
    <2> DEFINE f == [k \in 1..n |-> Ren!AlignNext(End(k))]
    <2>1. f \in [1..n -> Nat]
      BY <1>5
    <2>2. \A k \in 1..n : f[k] = Ren!AlignNext(End(k))
      OBVIOUS
    <2> HIDE DEF f
    <2>3. PICK b \in Nat : \A k \in 1..n : f[k] <= b
      BY <1>2, <2>1, BoundExists
    <2> QED BY <1>2, <2>2, <2>3
  <1>7. S \subseteq Nat
    BY <1>2, <1>5
  <1>8. v = Ren!Largest(S)
    BY DEF Ren!StrtabVaddr
  <1>9. v \in S /\ \A y \in S : y <= v
    <2> HIDE DEF S, v
    <2> QED BY <1>4, <1>6, <1>7, <1>8, LargestGives
  <1>10. v \in Nat
    BY <1>7, <1>9
  <1>11. \A k \in 1..n : End(k) <= v
    <2>1. TAKE k \in 1..n
    <2>2. Ren!AlignNext(End(k)) \in S
      BY <1>2
    <2> HIDE DEF v, S, End
    <2> QED BY <1>3, <1>5, <1>9, <1>10, <2>2
  <1>12. PICK k \in 1..n : v = Ren!AlignNext(End(k))
    BY <1>2, <1>9
  <1>13. T \in Nat /\ Len(sym_names) \in Nat
    BY TableTyped
  <1>14. Ren!GnuHashSize = 24 + 4 * Len(sym_names)
    BY <1>13 DEF Ren!GnuHashSize
  <1>15. /\ l.strtab_vaddr = v /\ l.gnu_hash_vaddr = v + T
         /\ l.strtab_fileoffset = Ren!AlignNext(original.filesize)
         /\ l.strs_size = Ren!AlignNext(T + Ren!GnuHashSize)
    BY DEF Ren!Layout, Ren!GnuHashAt
  <1>16. l # <<>>
    <2>1. "strtab_vaddr" \in DOMAIN l
      BY DEF Ren!Layout
    <2>2. DOMAIN <<>> = {}
      OBVIOUS
    <2> QED BY <2>1, <2>2
  <1> HIDE DEF l, v, T, End, n, S
  <1>17. (v - l.strtab_fileoffset) % Page = 0
    BY <1>1, <1>3, <1>12, <1>15, AlignedApart
  <1>18. l.strtab_fileoffset \in Nat /\ original.filesize <= l.strtab_fileoffset
    BY <1>1, <1>15, AlignNextGives
  <1>19. T + Ren!GnuHashSize \in Nat
    BY <1>13, <1>14
  <1>20. l.strs_size \in Nat /\ T + Ren!GnuHashSize <= l.strs_size
    BY <1>15, <1>19, AlignNextGives
  <1>21. v + T \in Nat /\ l.strtab_fileoffset >= original.filesize
    BY <1>1, <1>10, <1>13, <1>18
  <1>22. \A j \in 1..Len(original.phdrs) : original.phdrs[j].vaddr + original.phdrs[j].memsz <= l.strtab_vaddr
    BY <1>11, <1>15 DEF End, n
  <1> QED BY <1>10, <1>14, <1>15, <1>16, <1>17, <1>18, <1>20, <1>21, <1>22 DEF l, T

\* The last note is one of the program headers.
LEMMA VictimGives ==
    ASSUME original \in Objects, Ren!Notes(original) # {}
    PROVE  LET v == Ren!VictimNote(original)
           IN  /\ v \in 1..Len(original.phdrs) /\ original.phdrs[v].type = "PT_NOTE"
               /\ \A k \in Ren!Notes(original) : k <= v
  <1> DEFINE S == Ren!Notes(original)
             n == Len(original.phdrs)
  <1>1. original.phdrs \in Seq(Phdrs)
    BY InputGiven, ImageTyped
  <1>2. n \in Nat /\ DOMAIN original.phdrs = 1..n
    BY <1>1
  <1>3. S \subseteq 1..n /\ \A k \in S : original.phdrs[k].type = "PT_NOTE"
    BY <1>2 DEF Ren!Notes
  <1> HIDE DEF S, n
  <1>4. S \subseteq Nat /\ \A y \in S : y <= n
    BY <1>2, <1>3
  <1>5. S # {}
    BY DEF S
  <1>6. Ren!Largest(S) \in S /\ \A y \in S : y <= Ren!Largest(S)
    BY <1>2, <1>4, <1>5, LargestGives
  <1> QED BY <1>3, <1>6 DEF S, n, Ren!VictimNote

\* The last note becomes the new segment.
LEMMA ReplaceNoteKeeps == ASSUME RenInv, Ren!ReplaceNote PROVE RenInv'
  <1> DEFINE n == next
             v == Ren!VictimNote(original)
             l == Ren!Layout(original)
  <1>1. /\ renamer_pc = "verneed" /\ n > Ren!NSyms
        /\ UNCHANGED <<original, lines, mapping, tos, sym_names, gnu_hash>>
        /\ strtab_builder' = Ren!Freeze(strtab_builder) /\ layout' = Ren!Layout(object)
        /\ IF Ren!Notes(object) = {} THEN Ren!Abort /\ UNCHANGED object
           ELSE /\ object' = [object EXCEPT !.phdrs[Ren!VictimNote(object)] = Ren!StrPhdr(layout')]
                /\ renamer_pc' = "phdrs" /\ next' = 1
    BY DEF Ren!ReplaceNote, Ren!read
  <1>2. /\ Ren!NSyms = SymCount /\ Len(sym_names) = SymCount /\ n \in Nat \ {0} /\ n <= SymCount + 1
        /\ original \in Objects /\ original \in Ren!Images /\ RenTyped
        /\ object \in Ren!Images /\ SameFile(original, object) /\ object.phdrs = original.phdrs
        /\ strtab_builder \in GoodTables /\ mapping \in Maps /\ sym_names \in Seq(Words)
        /\ \A k \in 1..Len(original.dyn) : Ren!IsRewritten(original.dyn[k].tag) => EntryOK(k)
        /\ Len(object.verneed) = Len(original.verneed)
    BY <1>1, InputGiven DEF RenInv, Passes, RenTyped, Named, DynamicOK, SegmentOK
  <1>3. SymCount \in Nat /\ n = SymCount + 1
    BY <1>1, <1>2, InputGiven
  <1>4. UNCHANGED <<original, lines>> /\ SymCount' = SymCount /\ OrigNames' = OrigNames /\ DynNames' = DynNames
        /\ NeedNames' = NeedNames /\ Ren!VersionedSyms' = Ren!VersionedSyms
    BY <1>1, ReadStays
  <1>5. /\ strtab_builder' \in GoodTables /\ strtab_builder'.is_freezed
        /\ strtab_builder'.cache = strtab_builder.cache /\ strtab_builder'.strtab = strtab_builder.strtab
    BY <1>1, <1>2, FreezeGives
  <1>6. layout' = l /\ Ren!Layout(original)' = l
    <2>1. Ren!Layout(object) = Ren!Layout(original)
      BY <1>2 DEF Ren!Layout, SameFile
    <2>2. Ren!Layout(original)' = Ren!Layout(original)
      BY <1>1, <1>5 DEF Ren!Layout, Ren!GnuHashAt, Ren!GnuHashSize
    <2> QED BY <1>1, <2>1, <2>2
  <1>7. /\ l # <<>> /\ l.strtab_vaddr \in Nat /\ l.strtab_fileoffset \in Nat /\ l.strs_size \in Nat
    BY <1>2, LayoutGives
  <1>8. Ren!Notes(object) = Ren!Notes(original) /\ Ren!VictimNote(object) = v
    BY <1>2 DEF Ren!Notes, Ren!VictimNote
  <1> HIDE DEF l, v
  <1>9. AllPlaced(strtab_builder', mapping, OrigNames, object.syms, Len(sym_names))
    BY <1>5 DEF RenInv, NamesOK, AllPlaced, PlacedAt
  <1>10. MappingOK'
    <2>1. LinesRead(Len(lines)) /\ tos = {mapping[s] : s \in DOMAIN mapping}
      BY <1>1 DEF RenInv, MappingOK
    <2>2. renamer_pc' # "mapping"
      BY <1>1 DEF Ren!Abort
    <2> QED BY <1>1, <2>1, <2>2 DEF MappingOK, LinesRead
  <1>11. \A k \in 1..SymCount : k <= Len(sym_names) /\ sym_names[k] = Ren!Renamed(mapping, OrigNames[k])
    BY <1>2, <1>3 DEF RenInv, NamesOK
  <1>12. \A j, k \in 1..SymCount : sym_names[j] = sym_names[k] => j = k
    BY <1>1 DEF RenInv, NamesOK, Named
  <1>13. CASE Ren!Notes(original) = {}
    <2>1. renamer_pc' = "aborted" /\ next' = next /\ object' = object
      BY <1>1, <1>8, <1>13 DEF Ren!Abort
    <2>2. Passes' /\ DynamicOK' /\ VerneedOK'
      <3>1. Ren!NSyms' = Ren!NSyms
        BY <2>1 DEF Ren!NSyms
      <3> QED BY <1>1, <2>1, <3>1 DEF RenInv, Passes, DynamicOK, VerneedOK, Named
    <2>3. RenTyped'
      BY <1>1, <1>2, <1>4, <1>5, <2>1 DEF RenTyped, RenPhases
    <2>4. NamesOK'
      BY <1>1, <1>4, <1>9, <1>11, <2>1 DEF NamesOK, Named
    <2>5. SegmentOK'
      BY <1>5, <1>6, <1>7, <2>1 DEF SegmentOK
    <2>6. ~ValidRequest
      BY <1>13 DEF ValidRequest
    <2>7. Ren!ValidRequestSucceeds'
      BY <1>4, <2>6, ValidNext
    <2> QED BY <1>10, <2>2, <2>3, <2>4, <2>5, <2>7 DEF RenInv
  <1>14. CASE Ren!Notes(original) # {}
    <2> DEFINE q == Ren!StrPhdr(l)
    <2>1. object' = [object EXCEPT !.phdrs[v] = q] /\ renamer_pc' = "phdrs" /\ next' = 1
      BY <1>1, <1>6, <1>8, <1>14
    <2>2. v \in 1..Len(object.phdrs)
      BY <1>2, <1>14, VictimGives DEF v
    <2>3. q \in Phdrs
      <3>1. q = [type |-> "PT_LOAD", offset |-> l.strtab_fileoffset, vaddr |-> l.strtab_vaddr,
                 filesz |-> l.strs_size, memsz |-> l.strs_size]
        BY Zenon DEF Ren!StrPhdr
      <3>2. "PT_LOAD" \in Ren!Types
        BY DEF Ren!Types
      <3> QED BY <1>7, <3>1, <3>2 DEF Phdrs
    <2> HIDE DEF q
    <2>4. /\ object' \in Ren!Images /\ SameFile(object, object')
          /\ object'.syms = object.syms /\ object'.dyn = object.dyn /\ object'.verneed = object.verneed
          /\ object'.phdrs = [object.phdrs EXCEPT ![v] = q]
      <3>1. object \in Ren!Images
        BY <1>2
      <3> QED BY <2>1, <2>2, <2>3, <3>1, PhdrSet
    <2>5. SameFile(original, object')
      BY <1>2, <2>4 DEF SameFile
    <2>6. RenTyped'
      BY <1>1, <1>2, <1>4, <1>5, <2>1, <2>4, <2>5 DEF RenTyped, RenPhases
    <2>7. Passes'
      <3>1. Ren!NSyms' = Ren!NSyms
        BY <2>4 DEF Ren!NSyms, SameFile
      <3>2. 1 <= Len(original.phdrs) + 1
        BY <1>2, ImageTyped
      <3> QED BY <1>1, <1>2, <1>3, <1>4, <2>1, <3>1, <3>2 DEF Passes, Named
    <2>8. NamesOK'
      BY <1>1, <1>4, <1>9, <1>11, <1>12, <2>4 DEF NamesOK
    <2>9. DynamicOK'
      <3>1. EntriesDone = Len(original.dyn) /\ EntriesDone' = Len(original.dyn)
        BY <1>1, <2>1 DEF EntriesDone
      <3> QED BY <1>1, <1>2, <1>4, <1>5, <2>4, <3>1 DEF DynamicOK, EntryOK, PlacedAt
    <2>10. VerneedOK'
      <3>1. SUFFICES ASSUME NEW x \in Ren!VersionedSyms, Ren!VersionedSyms = {x}
                     PROVE  AllPlaced(strtab_builder', mapping, NeedNames, object.verneed, Len(original.verneed))
        BY <1>1, <1>4, <2>1, <2>4 DEF VerneedOK
      <3>2. n > x
        <4>1. original.versym \in Seq(Nat) /\ Len(original.versym) \in {0, SymCount}
          BY <1>2, InputGiven, ImageTyped
        <4>2. x \in 1..Len(original.versym)
          BY <3>1, <4>1 DEF Ren!VersionedSyms
        <4> QED BY <1>3, <4>1, <4>2
      <3>3. AllPlaced(strtab_builder, mapping, NeedNames, object.verneed, Len(original.verneed))
        BY <1>1, <3>1, <3>2 DEF RenInv, VerneedOK
      <3> QED BY <1>5, <3>3 DEF AllPlaced, PlacedAt
    <2>11. SegmentOK'
      <3>1. \A k \in 1..(1 - 1) : FALSE
        OBVIOUS
      <3>2. object'.phdrs = [original'.phdrs EXCEPT ![Ren!VictimNote(original)'] = Ren!StrPhdr(layout)']
        <4>1. Ren!VictimNote(original)' = v /\ Ren!StrPhdr(layout)' = q
          BY <1>1, <1>6 DEF Ren!VictimNote, Ren!Notes, Ren!StrPhdr, q, v
        <4> QED BY <1>1, <1>2, <2>4, <4>1
      <3>3. Ren!Notes(original)' # {}
        BY <1>1, <1>14 DEF Ren!Notes
      <3> QED BY <1>5, <1>6, <1>7, <2>1, <3>1, <3>2, <3>3 DEF SegmentOK
    <2>12. Ren!ValidRequestSucceeds'
      BY <1>4, <2>1, ValidNext
    <2> QED BY <1>10, <2>6, <2>7, <2>8, <2>9, <2>10, <2>11, <2>12 DEF RenInv
  <1> QED BY <1>13, <1>14

-----------------------------------------------------------------------------
\* A program header is written; with PT_DYNAMIC the two addresses are.
LEMMA WritePhdrKeeps == ASSUME RenInv, Ren!WritePhdr PROVE RenInv'
  <1> DEFINE n == next
             v == Ren!VictimNote(original)
             N == Len(original.phdrs)
             D == Len(original.dyn)
  <1>1. /\ renamer_pc = "phdrs" /\ n <= Len(object.phdrs)
        /\ UNCHANGED <<original, lines, mapping, tos, strtab_builder, sym_names, layout, gnu_hash>>
        /\ IF object.phdrs[n].type # "PT_DYNAMIC" THEN next' = n + 1 /\ UNCHANGED <<object, renamer_pc>>
           ELSE IF \E k \in DOMAIN object.dyn : object.dyn[k].tag = "DT_HASH"
           THEN Ren!Abort /\ UNCHANGED object
           ELSE /\ object' = [object EXCEPT !.dyn = [k \in DOMAIN @ |-> Ren!Patched(@[k])]]
                /\ next' = n + 1 /\ UNCHANGED renamer_pc
    BY DEF Ren!WritePhdr, Ren!read
  <1>2. /\ Ren!NSyms = SymCount /\ Len(sym_names) = SymCount /\ n \in Nat \ {0}
        /\ original \in Objects /\ original \in Ren!Images /\ RenTyped
        /\ object \in Ren!Images /\ SameFile(original, object) /\ Len(object.dyn) = D
        /\ \A k \in 1..D : object.dyn[k].tag = original.dyn[k].tag
        /\ strtab_builder \in GoodTables /\ sym_names \in Seq(Words)
        /\ \A k \in 1..D : Ren!IsRewritten(original.dyn[k].tag) => EntryOK(k)
    BY <1>1, InputGiven DEF RenInv, Passes, RenTyped, Named, DynamicOK
  <1>3. /\ strtab_builder.is_freezed /\ layout # <<>> /\ Ren!Notes(original) # {}
        /\ layout = Ren!Layout(original)
        /\ object.phdrs = [original.phdrs EXCEPT ![v] = Ren!StrPhdr(layout)]
        /\ \A k \in 1..(n - 1) : original.phdrs[k].type = "PT_DYNAMIC" => AddressesOK
    BY <1>1 DEF RenInv, SegmentOK
  <1>4. SymCount \in Nat /\ original.phdrs \in Seq(Phdrs) /\ N \in Nat
    BY <1>2, InputGiven, ImageTyped
  <1>5. v \in 1..N /\ original.phdrs[v].type = "PT_NOTE"
    BY <1>2, <1>3, VictimGives
  <1> HIDE DEF v
  <1>6. Len(object.phdrs) = N /\ n \in 1..N
    BY <1>1, <1>2, <1>3, <1>4
  <1>7. object.phdrs[n].type = "PT_DYNAMIC" <=> original.phdrs[n].type = "PT_DYNAMIC"
    <2>1. CASE n = v
      <3>1. object.phdrs[n].type = "PT_LOAD"
        BY <1>3, <1>4, <1>6, <2>1 DEF Ren!StrPhdr
      <3> QED BY <1>5, <2>1, <3>1
    <2>2. CASE n # v
      BY <1>3, <1>4, <1>6, <2>2
    <2> QED BY <2>1, <2>2
  <1>8. UNCHANGED <<original, lines>> /\ SymCount' = SymCount /\ OrigNames' = OrigNames /\ DynNames' = DynNames
        /\ NeedNames' = NeedNames /\ Ren!VersionedSyms' = Ren!VersionedSyms
    BY <1>1, ReadStays
  <1>9. Ren!Layout(original)' = Ren!Layout(original) /\ Ren!VictimNote(original)' = v
        /\ Ren!StrPhdr(layout)' = Ren!StrPhdr(layout) /\ Ren!Notes(original)' = Ren!Notes(original)
    BY <1>1 DEF Ren!Layout, Ren!GnuHashAt, Ren!GnuHashSize, Ren!VictimNote, Ren!Notes, Ren!StrPhdr, v
  <1>10. MappingOK'
    <2>1. LinesRead(Len(lines)) /\ tos = {mapping[s] : s \in DOMAIN mapping}
      BY <1>1 DEF RenInv, MappingOK
    <2>2. renamer_pc' # "mapping"
      BY <1>1 DEF Ren!Abort
    <2> QED BY <1>1, <2>1, <2>2 DEF MappingOK, LinesRead
  <1>11. CASE original.phdrs[n].type # "PT_DYNAMIC"
    <2>1. next' = n + 1 /\ object' = object /\ renamer_pc' = "phdrs"
      BY <1>1, <1>7, <1>11
    <2>2. RenTyped' /\ Passes'
      <3>1. Ren!NSyms' = Ren!NSyms
        BY <2>1 DEF Ren!NSyms
      <3> QED BY <1>1, <1>2, <1>4, <1>6, <1>8, <2>1, <3>1 DEF RenTyped, Passes, Named
    <2>3. NamesOK' /\ DynamicOK' /\ VerneedOK'
      BY <1>1, <1>8, <2>1 DEF RenInv, NamesOK, DynamicOK, EntryOK, EntriesDone, VerneedOK
    <2>4. SegmentOK'
      <3>1. \A k \in 1..(next' - 1) : original.phdrs[k].type = "PT_DYNAMIC" => k \in 1..(n - 1)
        BY <1>2, <1>11, <2>1
      <3>2. AddressesOK => AddressesOK'
        BY <1>1, <2>1 DEF AddressesOK
      <3>3. \A k \in 1..(next' - 1) : original.phdrs[k].type = "PT_DYNAMIC" => AddressesOK'
        BY <1>3, <3>1, <3>2
      <3> QED BY <1>1, <1>3, <1>9, <2>1, <3>3 DEF SegmentOK
    <2>5. Ren!ValidRequestSucceeds'
      BY <1>8, <2>1, ValidNext
    <2> QED BY <1>10, <2>2, <2>3, <2>4, <2>5 DEF RenInv
  <1>12. ASSUME original.phdrs[n].type = "PT_DYNAMIC", \E k \in DOMAIN object.dyn : object.dyn[k].tag = "DT_HASH"
         PROVE  RenInv'
    <2>1. renamer_pc' = "aborted" /\ next' = next /\ object' = object
      BY <1>1, <1>7, <1>12 DEF Ren!Abort
    <2>2. RenTyped' /\ Passes'
      <3>1. Ren!NSyms' = Ren!NSyms
        BY <2>1 DEF Ren!NSyms
      <3> QED BY <1>1, <1>2, <1>8, <2>1, <3>1 DEF RenInv, RenTyped, RenPhases, Passes, Named
    <2>3. NamesOK'
      BY <1>1, <1>8, <2>1 DEF RenInv, NamesOK, Named
    <2>4. DynamicOK' /\ VerneedOK'
      BY <1>1, <2>1 DEF DynamicOK, VerneedOK, Named
    <2>5. SegmentOK'
      BY <1>1, <1>3, <2>1 DEF SegmentOK
    <2>6. ~ValidRequest
      <3>1. original.dyn \in Seq(Dyns) /\ object.dyn \in Seq(Dyns)
        BY <1>2, ImageTyped
      <3>2. DOMAIN original.dyn = 1..D /\ DOMAIN object.dyn = 1..D
        BY <1>2, <3>1
      <3>3. \E k \in DOMAIN original.dyn : original.dyn[k].tag = "DT_HASH"
        BY <1>2, <1>12, <3>2
      <3> QED BY <3>3 DEF ValidRequest
    <2>7. Ren!ValidRequestSucceeds'
      BY <1>8, <2>6, ValidNext
    <2> QED BY <1>10, <2>2, <2>3, <2>4, <2>5, <2>7 DEF RenInv
  <1>13. ASSUME original.phdrs[n].type = "PT_DYNAMIC", ~\E k \in DOMAIN object.dyn : object.dyn[k].tag = "DT_HASH"
         PROVE  RenInv'
    <2>1. /\ object' = [object EXCEPT !.dyn = [k \in DOMAIN @ |-> Ren!Patched(@[k])]]
          /\ next' = n + 1 /\ renamer_pc' = "phdrs"
      BY <1>1, <1>7, <1>13
    <2>2. layout.strtab_vaddr \in Nat /\ layout.gnu_hash_vaddr \in Nat
      BY <1>2, <1>3, LayoutGives
    <2>3. /\ object' \in Ren!Images /\ SameFile(object, object')
          /\ object'.syms = object.syms /\ object'.verneed = object.verneed /\ object'.phdrs = object.phdrs
          /\ Len(object'.dyn) = Len(object.dyn)
          /\ \A j \in 1..Len(object.dyn) :
                /\ object'.dyn[j].tag = object.dyn[j].tag
                /\ object.dyn[j].tag \notin {"DT_STRTAB", "DT_GNU_HASH"} => object'.dyn[j] = object.dyn[j]
                /\ object.dyn[j].tag = "DT_STRTAB" => object'.dyn[j].val = layout.strtab_vaddr
                /\ object.dyn[j].tag = "DT_GNU_HASH" => object'.dyn[j].val = layout.gnu_hash_vaddr
      <3>1. object \in Ren!Images
        BY <1>2
      <3> QED BY <2>1, <2>2, <3>1, DynPatched
    <2>4. SameFile(original, object')
      BY <1>2, <2>3 DEF SameFile
    <2>5. RenTyped'
      <3>1. \A k \in 1..D : object'.dyn[k].tag = original.dyn[k].tag
        BY <1>2, <2>3
      <3>2. Len(object'.syms) = SymCount /\ Len(object'.dyn) = D /\ Len(object'.verneed) = Len(original.verneed)
        BY <1>2, <2>3 DEF RenTyped
      <3>3. object' \in Ren!Images /\ renamer_pc' \in RenPhases /\ next' \in Nat \ {0}
        BY <1>2, <2>1, <2>3 DEF RenPhases
      <3>4. mapping \in Maps /\ lines \in MappingFiles
        BY <1>2 DEF RenTyped
      <3> QED BY <1>1, <1>2, <1>8, <2>4, <3>1, <3>2, <3>3, <3>4 DEF RenTyped
    <2>6. Passes'
      <3>1. Ren!NSyms' = Ren!NSyms
        BY <2>3 DEF Ren!NSyms, SameFile
      <3> QED BY <1>1, <1>2, <1>4, <1>6, <1>8, <2>1, <3>1 DEF Passes, Named
    <2>7. NamesOK' /\ VerneedOK'
      BY <1>1, <1>8, <2>1, <2>3 DEF RenInv, NamesOK, VerneedOK
    <2>8. DynamicOK'
      <3>1. EntriesDone = D /\ EntriesDone' = D
        BY <1>1, <2>1 DEF EntriesDone
      <3>2. SUFFICES ASSUME NEW k \in 1..D, Ren!IsRewritten(original.dyn[k].tag) PROVE EntryOK(k)'
        BY <1>8 DEF DynamicOK
      <3>3. object'.dyn[k] = object.dyn[k]
        BY <1>2, <2>3, <3>2 DEF Ren!IsRewritten
      <3>4. EntryOK(k)
        BY <1>2, <3>2
      <3> QED BY <1>1, <1>8, <3>1, <3>3, <3>4 DEF EntryOK
    <2>9. AddressesOK'
      <3>1. object.dyn \in Seq(Dyns)
        BY <1>2, ImageTyped
      <3>2. \A k \in 1..D : original.dyn[k].tag # "DT_HASH"
        BY <1>2, <1>13, <3>1
      <3> QED BY <1>1, <1>2, <2>3, <3>2 DEF AddressesOK
    <2>10. SegmentOK'
      BY <1>1, <1>3, <1>9, <2>1, <2>3, <2>9 DEF SegmentOK
    <2>11. Ren!ValidRequestSucceeds'
      BY <1>8, <2>1, ValidNext
    <2> QED BY <1>10, <2>5, <2>6, <2>7, <2>8, <2>10, <2>11 DEF RenInv
  <1> QED BY <1>11, <1>12, <1>13

\* Behind the headers the addresses are in place.
LEMMA WriteStringsKeeps == ASSUME RenInv, Ren!WriteStrings PROVE RenInv'
  <1> DEFINE v == Ren!VictimNote(original)
  <1>1. /\ renamer_pc = "phdrs" /\ next > Len(object.phdrs) /\ renamer_pc' = "done"
        /\ gnu_hash' = Ren!EmitGnuHash(sym_names)
        /\ UNCHANGED <<original, lines, object, mapping, tos, strtab_builder, sym_names, layout, next>>
    BY DEF Ren!WriteStrings, Ren!read
  <1>2. UNCHANGED <<original, lines>> /\ SymCount' = SymCount /\ OrigNames' = OrigNames /\ DynNames' = DynNames
        /\ NeedNames' = NeedNames /\ Ren!VersionedSyms' = Ren!VersionedSyms /\ Ren!NSyms' = Ren!NSyms
    BY <1>1, ReadStays DEF Ren!NSyms
  <1>3. /\ strtab_builder.is_freezed /\ layout # <<>> /\ Ren!Notes(original) # {}
        /\ layout = Ren!Layout(original)
        /\ object.phdrs = [original.phdrs EXCEPT ![v] = Ren!StrPhdr(layout)]
        /\ \A k \in 1..(next - 1) : original.phdrs[k].type = "PT_DYNAMIC" => AddressesOK
        /\ original \in Objects /\ original \in Ren!Images /\ next \in Nat \ {0}
    BY <1>1, InputGiven DEF RenInv, RenTyped, SegmentOK
  <1>4. AddressesOK
    <2>1. original.phdrs \in Seq(Phdrs)
      BY <1>3, ImageTyped
    <2>2. Len(object.phdrs) = Len(original.phdrs) /\ Len(original.phdrs) \in Nat
      BY <1>3, <2>1
    <2>3. PICK k \in 1..Len(original.phdrs) : original.phdrs[k].type = "PT_DYNAMIC"
      BY <1>3, InputGiven
    <2>4. k \in 1..(next - 1)
      BY <1>1, <1>3, <2>2
    <2> QED BY <1>3, <2>3, <2>4
  <1>5. RenTyped' /\ Passes'
    BY <1>1, <1>2 DEF RenInv, RenTyped, RenPhases, Passes, Named
  <1>6. MappingOK'
    <2>1. LinesRead(Len(lines)) /\ tos = {mapping[s] : s \in DOMAIN mapping}
      BY <1>1 DEF RenInv, MappingOK
    <2> QED BY <1>1, <2>1 DEF MappingOK, LinesRead
  <1>7. NamesOK'
    BY <1>1, <1>2 DEF RenInv, NamesOK, Named
  <1>8. DynamicOK'
    <2>1. EntriesDone = Len(original.dyn) /\ EntriesDone' = Len(original.dyn)
      BY <1>1 DEF EntriesDone
    <2>2. renamer_pc \in Named
      BY <1>1 DEF Named
    <2> QED BY <1>1, <1>2, <2>1, <2>2 DEF RenInv, DynamicOK, EntryOK
  <1>9. VerneedOK'
    BY <1>1, <1>2 DEF RenInv, VerneedOK
  <1>10. Ren!Layout(original)' = Ren!Layout(original) /\ Ren!VictimNote(original)' = v
         /\ Ren!StrPhdr(layout)' = Ren!StrPhdr(layout) /\ Ren!Notes(original)' = Ren!Notes(original)
    BY <1>1 DEF Ren!Layout, Ren!GnuHashAt, Ren!GnuHashSize, Ren!VictimNote, Ren!Notes, Ren!StrPhdr, v
  <1>11. SegmentOK'
    <2>1. AddressesOK'
      BY <1>1, <1>4 DEF AddressesOK
    <2> QED BY <1>1, <1>3, <1>10, <2>1 DEF SegmentOK
  <1>12. Ren!ValidRequestSucceeds'
    BY <1>1, <1>2, ValidNext
  <1> QED BY <1>5, <1>6, <1>7, <1>8, <1>9, <1>11, <1>12 DEF RenInv

-----------------------------------------------------------------------------
\* Nothing has been renamed.
LEMMA RenStarts == ASSUME Ren!Init PROVE RenInv
  <1>1. /\ original \in Objects /\ object = original /\ lines \in MappingFiles
        /\ mapping = <<>> /\ tos = {} /\ strtab_builder = Ren!NewStrtab /\ sym_names = <<>>
        /\ layout = <<>> /\ renamer_pc = "mapping" /\ next = 1
    BY DEF Ren!Init
  <1>2. original \in Ren!Images /\ \A k \in 1..SymCount : object.syms[k] = original.syms[k]
    BY <1>1, InputGiven
  <1>3. DOMAIN mapping = {} /\ mapping \in [{} -> Words]
    BY <1>1
  <1>4. mapping \in Maps
    BY <1>3, {} \in SUBSET Words DEF Maps
  <1>5. sym_names \in Seq(Words) /\ Len(sym_names) = 0
    BY <1>1
  <1>6. RenTyped
    <2>1. SameFile(original, object)
      BY <1>1 DEF SameFile
    <2>2. strtab_builder \in GoodTables
      BY <1>1, NewTable
    <2> QED BY <1>1, <1>2, <1>4, <1>5, <2>1, <2>2 DEF RenTyped, RenPhases, SymCount
  <1>7. Passes
    <2>1. Len(lines) \in Nat
      BY <1>1, LineTyped
    <2>2. Ren!NSyms \in Nat
      BY <1>1, AllKnown DEF Ren!NSyms
    <2> QED BY <1>1, <1>5, <2>1, <2>2 DEF Passes, Named
  <1>8. MappingOK
    <2>1. \A k \in 1..0 : FALSE
      OBVIOUS
    <2>2. LinesRead(0)
      BY <1>3, <2>1 DEF LinesRead
    <2>3. next - 1 = 0
      BY <1>1
    <2> QED BY <1>1, <1>3, <2>2, <2>3 DEF MappingOK
  <1>9. NamesOK
    BY <1>1, <1>2, <1>5 DEF NamesOK, AllPlaced, Named
  <1>10. DynamicOK
    <2>1. EntriesDone = 0
      BY <1>1 DEF EntriesDone
    <2> QED BY <1>1, <2>1 DEF DynamicOK, EntryOK
  <1>11. VerneedOK
    BY <1>1 DEF VerneedOK
  <1>12. SegmentOK
    BY <1>1, NewTable DEF SegmentOK
  <1>13. Ren!ValidRequestSucceeds
    BY <1>1, ValidIs
  <1> QED BY <1>6, <1>7, <1>8, <1>9, <1>10, <1>11, <1>12, <1>13 DEF RenInv

\* A step of another part changes nothing.
LEMMA RenStays == ASSUME RenInv, UNCHANGED Ren!vars PROVE RenInv'
  <1>1. /\ UNCHANGED <<original, lines, object, mapping, tos, strtab_builder, sym_names, layout, gnu_hash>>
        /\ UNCHANGED <<renamer_pc, next>>
    BY DEF Ren!vars
  <1>2. UNCHANGED <<original, lines>> /\ SymCount' = SymCount /\ OrigNames' = OrigNames /\ DynNames' = DynNames
        /\ NeedNames' = NeedNames /\ Ren!VersionedSyms' = Ren!VersionedSyms /\ Ren!NSyms' = Ren!NSyms
    BY <1>1, ReadStays DEF Ren!NSyms
  <1>3. RenTyped' /\ Passes'
    BY <1>1, <1>2 DEF RenInv, RenTyped, Passes
  <1>4. MappingOK'
    BY <1>1 DEF RenInv, MappingOK, LinesRead
  <1>5. NamesOK' /\ DynamicOK' /\ VerneedOK'
    BY <1>1, <1>2 DEF RenInv, NamesOK, DynamicOK, EntryOK, EntriesDone, VerneedOK
  <1>6. Ren!Layout(original)' = Ren!Layout(original) /\ Ren!VictimNote(original)' = Ren!VictimNote(original)
        /\ Ren!StrPhdr(layout)' = Ren!StrPhdr(layout) /\ Ren!Notes(original)' = Ren!Notes(original)
    BY <1>1 DEF Ren!Layout, Ren!GnuHashAt, Ren!GnuHashSize, Ren!VictimNote, Ren!Notes, Ren!StrPhdr
  <1>7. SegmentOK'
    <2>1. AddressesOK => AddressesOK'
      BY <1>1 DEF AddressesOK
    <2> QED BY <1>1, <1>6, <2>1 DEF RenInv, SegmentOK
  <1>8. Ren!ValidRequestSucceeds'
    <2>1. ~ValidRequest \/ renamer_pc' # "aborted"
      BY <1>1, ValidIs DEF RenInv
    <2> QED BY <1>2, <2>1, ValidNext
  <1> QED BY <1>3, <1>4, <1>5, <1>7, <1>8 DEF RenInv

-----------------------------------------------------------------------------
(***************************************************************************)
(* What it means for the properties.                                       *)
(***************************************************************************)
LEMMA RenTypes == ASSUME RenInv PROVE Ren!TypeOK
  <1>1. DOMAIN object = DOMAIN original /\ object.strtab = original.strtab
    <2>1. object \in Ren!Images /\ original \in Ren!Images
      BY InputGiven DEF RenInv, RenTyped
    <2>2. DOMAIN object = DOMAIN original
      BY <2>1 DEF Ren!Images
    <2> QED BY <2>2 DEF RenInv, RenTyped, SameFile
  <1>2. strtab_builder.is_freezed <=> (renamer_pc \in {"phdrs", "done"} \/ layout # <<>>)
    BY DEF RenInv, SegmentOK
  <1>3. renamer_pc \in RenPhases /\ next \in Nat \ {0} /\ tos = {mapping[s] : s \in DOMAIN mapping}
        /\ Len(sym_names) <= Ren!NSyms
    BY DEF RenInv, RenTyped, MappingOK, Passes
  <1> QED BY <1>1, <1>2, <1>3 DEF Ren!TypeOK, RenPhases

\* Every string is where the builder says.
LEMMA AgreeMeans == ASSUME strtab_builder \in GoodTables PROVE Ren!StringsAgree
  BY PlaceHolds DEF Ren!StringsAgree, Ren!CacheAgrees

\* What is placed is held.
LEMMA PlacedHolds ==
    ASSUME strtab_builder \in GoodTables, NEW s, NEW p, PlacedAt(strtab_builder, mapping, s, p)
    PROVE  Ren!Holds(p, Ren!Renamed(mapping, s))
  <1> DEFINE w == Ren!Renamed(mapping, s)
  <1>1. w \in DOMAIN strtab_builder.cache /\ strtab_builder.cache[w] = p
    BY DEF PlacedAt
  <1> HIDE DEF w
  <1>2. p < Len(strtab_builder.strtab) /\ Ren!Str(strtab_builder.strtab, p) = w
    BY <1>1, PlaceHolds
  <1> QED BY <1>2 DEF w, Ren!Holds, Ren!OutTab

\* What is known at the end.
LEMMA AtTheEnd ==
    ASSUME RenInv, renamer_pc = "done"
    PROVE  /\ original \in Objects /\ object \in Ren!Images /\ original \in Ren!Images
           /\ strtab_builder \in GoodTables /\ mapping \in Maps /\ sym_names \in Seq(Words)
           /\ Len(sym_names) = SymCount /\ SymCount \in Nat \ {0}
           /\ DOMAIN object.syms = 1..SymCount /\ DOMAIN object.dyn = 1..Len(original.dyn)
           /\ DOMAIN object.verneed = 1..Len(original.verneed) /\ DOMAIN original.phdrs = 1..Len(original.phdrs)
           /\ \A k \in 1..SymCount : Ren!Holds(object.syms[k], sym_names[k])
           /\ \A k \in 1..SymCount : sym_names[k] = Ren!Renamed(mapping, Ren!OrigName(k))
           /\ \A j, k \in 1..SymCount : sym_names[j] = sym_names[k] => j = k
           /\ \A k \in 1..Len(original.dyn) : object.dyn[k].tag = original.dyn[k].tag
           /\ AddressesOK /\ gnu_hash = Ren!EmitGnuHash(sym_names)
  <1>1. /\ original \in Objects /\ object \in Ren!Images /\ original \in Ren!Images
        /\ strtab_builder \in GoodTables /\ mapping \in Maps /\ sym_names \in Seq(Words)
        /\ Len(object.syms) = SymCount /\ Len(object.dyn) = Len(original.dyn)
        /\ Len(object.verneed) = Len(original.verneed)
        /\ \A k \in 1..Len(original.dyn) : object.dyn[k].tag = original.dyn[k].tag
    BY InputGiven DEF RenInv, RenTyped
  <1>2. Len(sym_names) = SymCount /\ SymCount \in Nat \ {0}
    BY <1>1, InputGiven DEF RenInv, Passes, Named
  <1>3. /\ DOMAIN object.syms = 1..SymCount /\ DOMAIN object.dyn = 1..Len(original.dyn)
        /\ DOMAIN object.verneed = 1..Len(original.verneed) /\ DOMAIN original.phdrs = 1..Len(original.phdrs)
    <2>1. object.syms \in Seq(Nat) /\ object.dyn \in Seq(Dyns) /\ object.verneed \in Seq(Nat)
          /\ original.phdrs \in Seq(Phdrs)
      BY <1>1, ImageTyped
    <2> QED BY <1>1, <2>1
  <1>4. AddressesOK /\ gnu_hash = Ren!EmitGnuHash(sym_names)
    BY DEF RenInv, SegmentOK
  <1>5. \A j, k \in 1..SymCount : sym_names[j] = sym_names[k] => j = k
    BY DEF RenInv, NamesOK, Named
  <1>6. \A k \in 1..SymCount : sym_names[k] = Ren!Renamed(mapping, OrigNames[k])
                               /\ PlacedAt(strtab_builder, mapping, OrigNames[k], object.syms[k])
    BY <1>2 DEF RenInv, NamesOK, AllPlaced
  <1>7. \A k \in 1..SymCount : Ren!Holds(object.syms[k], sym_names[k])
    BY <1>1, <1>6, PlacedHolds
  <1>8. \A k \in 1..SymCount : OrigNames[k] = Ren!OrigName(k)
    BY <1>1, NamesGiven
  <1>9. \A k \in 1..SymCount : sym_names[k] = Ren!Renamed(mapping, Ren!OrigName(k))
    BY <1>6, <1>8
  <1> QED BY <1>1, <1>2, <1>3, <1>4, <1>5, <1>7, <1>9

\* Every symbol has its new name,
LEMMA NamesMeans == ASSUME RenInv PROVE Ren!NamesRenamed
  BY AtTheEnd DEF Ren!NamesRenamed, Ren!Done

\* and is found under it.
LEMMA LookupMeans == ASSUME RenInv PROVE Ren!LookupFinds
  <1>1. SUFFICES ASSUME renamer_pc = "done" PROVE Ren!LookupFinds
    BY DEF Ren!LookupFinds, Ren!Done
  <1> DEFINE n == SymCount
             Names == [k \in DOMAIN object.syms |-> Ren!Str(Ren!OutTab, object.syms[k])]
  <1>2. /\ sym_names \in Seq(Words) /\ Len(sym_names) = n /\ n \in Nat \ {0} /\ DOMAIN object.syms = 1..n
        /\ \A j, k \in 1..n : sym_names[j] = sym_names[k] => j = k
        /\ \A k \in 1..n : Ren!Str(Ren!OutTab, object.syms[k]) = sym_names[k]
        /\ gnu_hash = Ren!EmitGnuHash(sym_names) /\ mapping \in Maps
    BY <1>1, AtTheEnd DEF Ren!Holds
  <1>3. sym_names = [k \in 1..n |-> sym_names[k]]
    BY <1>2
  <1>4. Names = sym_names
    BY <1>2, <1>3
  <1> HIDE DEF n
  <1>5. /\ \A k \in 2..n : Ren!Lookup(gnu_hash, sym_names, sym_names[k]) = k - 1
        /\ \A s \in Words : (\A k \in 1..n : sym_names[k] # s) => Ren!Lookup(gnu_hash, sym_names, s) = 0
    BY <1>2, LookupGives
  <1>6. DOMAIN Names = 1..n /\ DOMAIN mapping \subseteq Words
    BY <1>2, MapTyped
  <1> HIDE DEF Names
  <1>7. \A k \in DOMAIN Names : k > 1 => Ren!Lookup(gnu_hash, Names, Names[k]) = k - 1
    BY <1>2, <1>4, <1>5, <1>6
  <1>8. \A s \in DOMAIN mapping : (\A k \in DOMAIN Names : Names[k] # s) => Ren!Lookup(gnu_hash, Names, s) = 0
    BY <1>4, <1>5, <1>6
  <1> QED BY <1>7, <1>8 DEF Ren!LookupFinds, Names

\* The strings of .dynamic,
LEMMA DynamicMeans == ASSUME RenInv PROVE Ren!DynamicStringsFound
  <1>1. SUFFICES ASSUME renamer_pc = "done", NEW k \in DOMAIN object.dyn,
                        object.dyn[k].tag \in {"DT_NEEDED", "DT_SONAME"}
                 PROVE  Ren!Holds(object.dyn[k].val, Ren!Renamed(mapping, Ren!OrigStr(original.dyn[k].val)))
    BY DEF Ren!DynamicStringsFound, Ren!Done
  <1>2. /\ k \in 1..Len(original.dyn) /\ Ren!IsRewritten(original.dyn[k].tag) /\ original \in Objects
        /\ strtab_builder \in GoodTables /\ Len(original.dyn) \in Nat
    <2>1. k \in 1..Len(original.dyn) /\ original \in Objects /\ original \in Ren!Images
          /\ strtab_builder \in GoodTables /\ object.dyn[k].tag = original.dyn[k].tag
      BY <1>1, AtTheEnd
    <2> QED BY <1>1, <2>1, ImageTyped DEF Ren!IsRewritten
  <1>3. EntriesDone = Len(original.dyn)
    BY <1>1 DEF EntriesDone
  <1>4. EntryOK(k)
    BY <1>1, <1>2 DEF RenInv, DynamicOK, Named
  <1>5. k <= EntriesDone
    BY <1>2, <1>3
  <1>6. PlacedAt(strtab_builder, mapping, DynNames[k], object.dyn[k].val)
    BY <1>4, <1>5 DEF EntryOK
  <1>7. DynNames[k] = Ren!OrigStr(original.dyn[k].val)
    BY <1>2, NamesGiven
  <1> QED BY <1>2, <1>6, <1>7, PlacedHolds

\* and of verneed with one versioned symbol.
LEMMA VersionsMeans == ASSUME RenInv PROVE Ren!VersionsKeptOnce
  <1>1. SUFFICES ASSUME renamer_pc = "done", Ren!Cardinality(Ren!VersionedSyms) = 1 PROVE Ren!VerneedHolds
    BY DEF Ren!VersionsKeptOnce, Ren!Done
  <1> DEFINE S == Ren!VersionedSyms
             m == Len(original.versym)
  <1>2. /\ original \in Objects /\ original \in Ren!Images /\ strtab_builder \in GoodTables
        /\ DOMAIN object.verneed = 1..Len(original.verneed)
    BY <1>1, AtTheEnd
  <1>3. original.versym \in Seq(Nat)
    BY <1>2, ImageTyped
  <1>4. S \subseteq 1..m /\ m \in Nat
    BY <1>3 DEF Ren!VersionedSyms
  <1>5. Cardinality(S) = 1
    BY <1>1 DEF Ren!Cardinality, Cardinality
  <1> HIDE DEF S, m
  <1>6. IsFiniteSet(S)
    <2>1. IsFiniteSet(1..m)
      BY <1>4, FS_Interval
    <2> QED BY <1>4, <2>1, FS_Subset
  <1>7. PICK x : S = {x}
    BY <1>5, <1>6, FS_Singleton
  <1>8. AllPlaced(strtab_builder, mapping, NeedNames, object.verneed, Len(original.verneed))
    BY <1>1, <1>7 DEF RenInv, VerneedOK, S
  <1>9. SUFFICES ASSUME NEW k \in 1..Len(original.verneed)
                 PROVE  Ren!Holds(object.verneed[k], Ren!Renamed(mapping, Ren!OrigStr(original.verneed[k])))
    BY <1>2 DEF Ren!VerneedHolds
  <1>10. PlacedAt(strtab_builder, mapping, NeedNames[k], object.verneed[k])
    BY <1>8 DEF AllPlaced
  <1>11. NeedNames[k] = Ren!OrigStr(original.verneed[k])
    BY <1>2, NamesGiven
  <1> QED BY <1>2, <1>10, <1>11, PlacedHolds

-----------------------------------------------------------------------------
\* The PT_LOADs of the input ascend and are no larger in the file than in memory.
LEMMA LoadsGiven ==
    ASSUME original \in Objects, NEW k \in 1..Len(original.phdrs), original.phdrs[k].type = "PT_LOAD"
    PROVE  /\ original.phdrs[k].filesz <= original.phdrs[k].memsz /\ original.phdrs[k].memsz > 0
           /\ \A j \in 1..(k - 1) :
                 original.phdrs[j].type = "PT_LOAD" => original.phdrs[j].vaddr < original.phdrs[k].vaddr
  <1>1. original.phdrs \in Seq(Phdrs)
    BY InputGiven, ImageTyped
  <1>2. k \in DOMAIN original.phdrs
    BY <1>1
  <1> QED BY <1>2, OutputUseAssumption DEF Ren!BinariesAssumption

\* The program headers at the end: the last note is the new segment.
LEMMA HeadersAre ==
    ASSUME RenInv, renamer_pc = "done"
    PROVE  LET v == Ren!VictimNote(original)
           IN  /\ layout = Ren!Layout(original) /\ DOMAIN object.phdrs = 1..Len(original.phdrs)
               /\ Len(original.phdrs) \in Nat /\ v \in 1..Len(original.phdrs)
               /\ \A k \in 1..Len(original.phdrs) :
                     IF k = v THEN object.phdrs[k] = Ren!StrPhdr(layout)
                     ELSE object.phdrs[k] = original.phdrs[k]
               /\ \A k \in 1..Len(original.phdrs) : original.phdrs[k] \in Phdrs
  <1> DEFINE v == Ren!VictimNote(original)
  <1>1. /\ layout = Ren!Layout(original) /\ Ren!Notes(original) # {}
        /\ object.phdrs = [original.phdrs EXCEPT ![v] = Ren!StrPhdr(layout)]
    BY DEF RenInv, SegmentOK
  <1>2. original \in Objects /\ original.phdrs \in Seq(Phdrs)
    BY AtTheEnd, ImageTyped
  <1>3. v \in 1..Len(original.phdrs)
    BY <1>1, <1>2, VictimGives
  <1> HIDE DEF v
  <1>4. /\ DOMAIN object.phdrs = 1..Len(original.phdrs) /\ Len(original.phdrs) \in Nat
        /\ \A k \in 1..Len(original.phdrs) :
              IF k = v THEN object.phdrs[k] = Ren!StrPhdr(layout)
              ELSE object.phdrs[k] = original.phdrs[k]
        /\ \A k \in 1..Len(original.phdrs) : original.phdrs[k] \in Phdrs
    BY <1>1, <1>2, <1>3
  <1> QED BY <1>1, <1>3, <1>4 DEF v

\* What the loader finds at an address in the new segment.
LEMMA MappedIs ==
    ASSUME RenInv, renamer_pc = "done", NEW d \in Nat, d < layout.strs_size
    PROVE  Ren!Mapped(layout.strtab_vaddr + d) = {layout.strtab_fileoffset + d}
  <1> DEFINE N == Len(original.phdrs)
             v == Ren!VictimNote(original)
             q == Ren!StrPhdr(layout)
             a == layout.strtab_vaddr + d
             H == {p \in {object.phdrs[k] : k \in DOMAIN object.phdrs} :
                     p.type = "PT_LOAD" /\ a \in p.vaddr..(p.vaddr + p.filesz - 1)}
  <1>1. /\ layout = Ren!Layout(original) /\ DOMAIN object.phdrs = 1..N /\ N \in Nat /\ v \in 1..N
        /\ \A k \in 1..N : IF k = v THEN object.phdrs[k] = q ELSE object.phdrs[k] = original.phdrs[k]
        /\ \A k \in 1..N : original.phdrs[k] \in Phdrs
    BY HeadersAre
  <1>2. original \in Objects /\ strtab_builder \in GoodTables /\ sym_names \in Seq(Words)
    BY AtTheEnd
  <1>3. /\ layout.strtab_vaddr \in Nat /\ layout.strtab_fileoffset \in Nat /\ layout.strs_size \in Nat
        /\ \A k \in 1..N : original.phdrs[k].vaddr + original.phdrs[k].memsz <= layout.strtab_vaddr
    BY <1>1, <1>2, LayoutGives
  <1>4. q.type = "PT_LOAD" /\ q.offset = layout.strtab_fileoffset /\ q.vaddr = layout.strtab_vaddr
        /\ q.filesz = layout.strs_size
    BY DEF Ren!StrPhdr
  <1> HIDE DEF v, q, N
  <1>5. q \in H
    <2>1. object.phdrs[v] = q /\ v \in DOMAIN object.phdrs
      BY <1>1
    <2>2. a \in q.vaddr..(q.vaddr + q.filesz - 1)
      BY <1>3, <1>4
    <2> QED BY <1>4, <2>1, <2>2
  <1>6. \A p \in H : p = q
    <2>1. SUFFICES ASSUME NEW k \in 1..N, object.phdrs[k].type = "PT_LOAD", k # v,
                          a \in object.phdrs[k].vaddr..(object.phdrs[k].vaddr + object.phdrs[k].filesz - 1)
                   PROVE  FALSE
      BY <1>1
    <2> DEFINE p == original.phdrs[k]
    <2>2. p \in Phdrs /\ object.phdrs[k] = p /\ p.type = "PT_LOAD" /\ p.vaddr + p.memsz <= layout.strtab_vaddr
      BY <1>1, <1>3, <2>1
    <2>3. p.vaddr \in Nat /\ p.filesz \in Nat /\ p.memsz \in Nat
      BY <2>2 DEF Phdrs
    <2>4. p.filesz <= p.memsz
      BY <1>2, <2>2, LoadsGiven DEF N
    <2>5. a <= p.vaddr + p.filesz - 1
      BY <1>3, <2>1, <2>2, <2>3
    <2> HIDE DEF p
    <2> QED BY <1>3, <2>2, <2>3, <2>4, <2>5
  <1>7. Ren!Mapped(a) = {p.offset + a - p.vaddr : p \in H}
    BY DEF Ren!Mapped
  <1>8. q.offset + a - q.vaddr = layout.strtab_fileoffset + d
    BY <1>3, <1>4
  <1> HIDE DEF H, a
  <1>9. H = {q}
    BY <1>5, <1>6
  <1>10. Ren!Mapped(a) = {layout.strtab_fileoffset + d}
    BY <1>7, <1>8, <1>9
  <1> QED BY <1>10 DEF a

\* The entries of .dynamic that have a tag, when all of them have one value.
LEMMA ValueIs ==
    ASSUME NEW dyn, NEW tag, NEW x, NEW n \in Nat, DOMAIN dyn = 1..n, \E k \in 1..n : dyn[k].tag = tag,
           \A k \in 1..n : dyn[k].tag = tag => dyn[k].val = x
    PROVE  (CHOOSE w \in {d.val : d \in {e \in {dyn[k] : k \in DOMAIN dyn} : e.tag = tag}} : TRUE) = x
  <1> DEFINE S == {d.val : d \in {e \in {dyn[k] : k \in DOMAIN dyn} : e.tag = tag}}
  <1>1. S = {x}
    OBVIOUS
  <1> HIDE DEF S
  <1>2. (CHOOSE w \in S : TRUE) = x
    BY <1>1
  <1> QED BY <1>2 DEF S

\* The new segment is apart from all others, and the addresses lead into it.
LEMMA SegmentMeans == ASSUME RenInv PROVE Ren!NewSegmentApart
  <1>1. SUFFICES ASSUME renamer_pc = "done" PROVE Ren!NewSegmentApart
    BY DEF Ren!NewSegmentApart, Ren!Done
  <1> DEFINE l == layout
             T == Len(strtab_builder.strtab)
             D == Len(original.dyn)
             Value(tag) == CHOOSE w \in {d.val : d \in {e \in {object.dyn[k] : k \in DOMAIN object.dyn} : e.tag = tag}} : TRUE
  <1>2. /\ original \in Objects /\ original \in Ren!Images /\ strtab_builder \in GoodTables /\ sym_names \in Seq(Words)
        /\ Len(sym_names) = SymCount /\ SymCount \in Nat \ {0}
        /\ DOMAIN original.phdrs = 1..Len(original.phdrs) /\ DOMAIN object.dyn = 1..D
        /\ \A k \in 1..D : object.dyn[k].tag = original.dyn[k].tag
        /\ \A j, k \in 1..SymCount : sym_names[j] = sym_names[k] => j = k
        /\ AddressesOK /\ gnu_hash = Ren!EmitGnuHash(sym_names)
    BY <1>1, AtTheEnd
  <1>3. l = Ren!Layout(original)
    BY <1>1, HeadersAre
  <1>4. /\ l.strtab_vaddr \in Nat /\ l.gnu_hash_vaddr \in Nat /\ l.strtab_fileoffset \in Nat /\ l.strs_size \in Nat
        /\ \A k \in 1..Len(original.phdrs) : original.phdrs[k].vaddr + original.phdrs[k].memsz <= l.strtab_vaddr
        /\ l.strtab_fileoffset >= original.filesize
        /\ (l.strtab_vaddr - l.strtab_fileoffset) % Page = 0
        /\ l.gnu_hash_vaddr = l.strtab_vaddr + T
        /\ T + (24 + 4 * Len(sym_names)) <= l.strs_size
    BY <1>2, <1>3, LayoutGives
  <1>5. T \in Nat /\ T < l.strs_size /\ 0 < l.strs_size
    <2>1. T \in Nat
      BY <1>2, TableTyped
    <2>2. Len(sym_names) \in Nat /\ T + (24 + 4 * Len(sym_names)) <= l.strs_size /\ l.strs_size \in Nat
      BY <1>2, <1>4
    <2> HIDE DEF T
    <2> QED BY <2>1, <2>2
  <1>6. D \in Nat
    BY <1>2, ImageTyped
  <1> HIDE DEF T, D
  <1>7. Value("DT_STRTAB") = l.strtab_vaddr
    <2>1. \E k \in 1..D : object.dyn[k].tag = "DT_STRTAB"
      BY <1>2, InputGiven DEF D
    <2>2. \A k \in 1..D : object.dyn[k].tag = "DT_STRTAB" => object.dyn[k].val = l.strtab_vaddr
      BY <1>2 DEF AddressesOK, D
    <2> QED BY <1>2, <1>6, <2>1, <2>2, ValueIs
  <1>8. Value("DT_GNU_HASH") = l.gnu_hash_vaddr
    <2>1. \E k \in 1..D : object.dyn[k].tag = "DT_GNU_HASH"
      <3>1. PICK k \in 1..D : original.dyn[k].tag \in {"DT_GNU_HASH", "DT_HASH"}
        BY <1>2, InputGiven DEF D
      <3>2. original.dyn[k].tag # "DT_HASH"
        BY <1>2 DEF AddressesOK, D
      <3> QED BY <1>2, <3>1, <3>2
    <2>2. \A k \in 1..D : object.dyn[k].tag = "DT_GNU_HASH" => object.dyn[k].val = l.gnu_hash_vaddr
      BY <1>2 DEF AddressesOK, D
    <2> QED BY <1>2, <1>6, <2>1, <2>2, ValueIs
  <1> HIDE DEF Value
  <1>9. Ren!Mapped(Value("DT_STRTAB")) = {l.strtab_fileoffset}
    <2>1. Ren!Mapped(l.strtab_vaddr + 0) = {l.strtab_fileoffset + 0}
      BY <1>1, <1>5, MappedIs
    <2>2. l.strtab_vaddr + 0 = l.strtab_vaddr /\ l.strtab_fileoffset + 0 = l.strtab_fileoffset
      BY <1>4
    <2> QED BY <1>7, <2>1, <2>2
  <1>10. Ren!Mapped(Value("DT_GNU_HASH")) = {l.strtab_fileoffset + T}
    <2>1. Ren!Mapped(l.strtab_vaddr + T) = {l.strtab_fileoffset + T}
      BY <1>1, <1>5, MappedIs
    <2> QED BY <1>4, <1>8, <2>1
  <1>11. T + 28 + 4 * Len(gnu_hash.hashvals) <= l.strs_size
    <2>1. Len(gnu_hash.hashvals) = SymCount - 1
      BY <1>2, LookupGives
    <2> QED BY <1>2, <1>4, <1>5, <2>1
  <1> QED BY <1>2, <1>4, <1>9, <1>10, <1>11 DEF Ren!NewSegmentApart, Value, T, Ren!OutTab

\* PT_LOADs ascend when the note was behind them.
LEMMA AscendingMeans == ASSUME RenInv PROVE Ren!LoadsAscending
  <1> DEFINE Loads(p) == {k \in DOMAIN p : p[k].type = "PT_LOAD"}
             v == Ren!VictimNote(original)
             N == Len(original.phdrs)
  <1>1. SUFFICES ASSUME renamer_pc = "done", \A k \in Loads(original.phdrs) : k < v,
                        NEW j \in Loads(object.phdrs), NEW k \in Loads(object.phdrs), j < k
                 PROVE  object.phdrs[j].vaddr < object.phdrs[k].vaddr
    BY DEF Ren!LoadsAscending, Ren!Done, Ren!VictimNote
  <1>2. /\ layout = Ren!Layout(original) /\ DOMAIN object.phdrs = 1..N /\ N \in Nat /\ v \in 1..N
        /\ \A i \in 1..N : IF i = v THEN object.phdrs[i] = Ren!StrPhdr(layout)
                           ELSE object.phdrs[i] = original.phdrs[i]
        /\ \A i \in 1..N : original.phdrs[i] \in Phdrs
    BY <1>1, HeadersAre
  <1>3. original \in Objects /\ strtab_builder \in GoodTables /\ sym_names \in Seq(Words)
        /\ DOMAIN original.phdrs = 1..N
    BY <1>1, AtTheEnd
  <1>4. j \in 1..N /\ k \in 1..N /\ object.phdrs[j].type = "PT_LOAD" /\ object.phdrs[k].type = "PT_LOAD"
    BY <1>1, <1>2
  <1> HIDE DEF v
  <1>5. \A i \in 1..N : i # v /\ object.phdrs[i].type = "PT_LOAD" =>
             object.phdrs[i] = original.phdrs[i] /\ i \in Loads(original.phdrs) /\ i < v
    BY <1>1, <1>2, <1>3
  <1>6. j # v
    <2>1. SUFFICES ASSUME j = v PROVE FALSE
      OBVIOUS
    <2>2. k # v
      BY <1>1, <1>4, <2>1
    <2>3. k < v
      BY <1>4, <1>5, <2>2
    <2> QED BY <1>1, <1>2, <1>4, <2>1, <2>3
  <1>7. object.phdrs[j] = original.phdrs[j] /\ original.phdrs[j].type = "PT_LOAD" /\ original.phdrs[j] \in Phdrs
    BY <1>2, <1>4, <1>5, <1>6
  <1>8. CASE k = v
    <2>1. object.phdrs[k].vaddr = layout.strtab_vaddr
      BY <1>2, <1>8 DEF Ren!StrPhdr
    <2>2. original.phdrs[j].vaddr + original.phdrs[j].memsz <= layout.strtab_vaddr /\ layout.strtab_vaddr \in Nat
      BY <1>2, <1>3, <1>4, LayoutGives
    <2>3. original.phdrs[j].memsz > 0
      BY <1>3, <1>4, <1>7, LoadsGiven
    <2>4. original.phdrs[j].vaddr \in Nat /\ original.phdrs[j].memsz \in Nat
      BY <1>7 DEF Phdrs
    <2> QED BY <1>7, <2>1, <2>2, <2>3, <2>4
  <1>9. CASE k # v
    <2>1. object.phdrs[k] = original.phdrs[k] /\ original.phdrs[k].type = "PT_LOAD"
      BY <1>2, <1>4, <1>9
    <2>2. j \in 1..(k - 1)
      BY <1>1, <1>4
    <2> QED BY <1>3, <1>4, <1>7, <2>1, <2>2, LoadsGiven
  <1> QED BY <1>8, <1>9

-----------------------------------------------------------------------------
\* Every action keeps the invariant.
LEMMA RenStep == ASSUME RenInv, Ren!Next PROVE RenInv'
  BY ReadMappingLineKeeps, CollectSymbolsKeeps, RenameSymbolKeeps, CheckNamesKeeps, RewriteDynamicKeeps,
     RewriteVerneedKeeps, ReadNothingKeeps, ReplaceNoteKeeps, WritePhdrKeeps, WriteStringsKeeps DEF Ren!Next

\* The invariant implies the properties,
LEMMA RenMeans ==
    ASSUME RenInv
    PROVE  /\ Ren!TypeOK /\ Ren!StringsAgree /\ Ren!NamesRenamed /\ Ren!LookupFinds
           /\ Ren!DynamicStringsFound /\ Ren!VersionsKeptOnce
           /\ Ren!NewSegmentApart /\ Ren!LoadsAscending /\ Ren!ValidRequestSucceeds
  <1>1. Ren!StringsAgree
    BY AgreeMeans DEF RenInv, RenTyped
  <1>2. Ren!ValidRequestSucceeds
    BY DEF RenInv
  <1>3. Ren!TypeOK /\ Ren!NamesRenamed /\ Ren!LookupFinds
    BY RenTypes, NamesMeans, LookupMeans
  <1>4. Ren!DynamicStringsFound /\ Ren!VersionsKeptOnce
    BY DynamicMeans, VersionsMeans
  <1>5. Ren!NewSegmentApart /\ Ren!LoadsAscending
    BY SegmentMeans, AscendingMeans
  <1> QED BY <1>1, <1>2, <1>3, <1>4, <1>5

\* and holds at any time.
LEMMA RenamerInvariant == Spec => [](part = "rename" => RenInv)
  <1> DEFINE I == part = "rename" => RenInv
  <1>1. Init => I
    BY RenStarts DEF Init
  <1>2. I /\ [Next]_vars => I'
    <2> SUFFICES ASSUME I, [Next]_vars, part' = "rename" PROVE RenInv'
      OBVIOUS
    <2>1. part = "rename" /\ (Ren!Next \/ UNCHANGED Ren!vars)
      BY DEF Next, vars, Protect, Load, Rename, Relink, ren_vars, Ren!vars
    <2> QED BY <2>1, RenStep, RenStays
  <1> QED BY <1>1, <1>2, PTL DEF Spec

\* For any object the loader accepts and any mapping file: EverythingRenamed.
THEOREM EverythingRenamedHolds == Spec => []EverythingRenamed
  <1>1. (part = "rename" => RenInv) => EverythingRenamed
    BY RenMeans DEF EverythingRenamed
  <1> QED BY <1>1, RenamerInvariant, PTL

-----------------------------------------------------------------------------
(***************************************************************************)
(* Types, in all four parts.                                               *)
(***************************************************************************)
\* The types of a link and its check.
LEMMA CheckTypes == ASSUME CheckInv PROVE Check!TypeOK
  <1>1. /\ label \in Check!Labels /\ run \in {1, 2}
        /\ run = 1 => output = <<>> /\ label # "done"
        /\ run = 2 => output = IF label = "done" THEN <<output[1], output[2]>> ELSE <<output[1]>>
    BY DEF CheckInv, CheckStage
  <1>4. \A r \in 1..2 : \A n \in DOMAIN libraries[r] : n \in DOMAIN cmd.disk[libraries[r][n]]
    BY DEF CheckInv, Found
  <1>5. queue \in Seq(Check!Names \cup {Check!Main})
    <2>1. queue \in Seq(Known) /\ Known = Check!Names \cup {Check!Main}
      BY DEF CheckInv, Loaded, Known
    <2> QED BY <2>1
  <1>6. /\ TLSMemSize_s \in Nat /\ TLSFileSize_s \in Nat
        /\ EHFrameSize_s = 0 \/ \E k \in Nat : EHFrameSize_s = 12 + 8 * k
    BY DEF CheckInv, Sized
  <1>2. Len(output) = run - (IF label = "done" THEN 0 ELSE 1)
    <2>1. Len(<<>>) = 0
      OBVIOUS
    <2>2. CASE run = 1
      BY <1>1, <2>1, <2>2
    <2>3. CASE run = 2 /\ label = "done"
      <3>1. PICK x, y : output = <<x, y>>
        BY <1>1, <2>3
      <3>2. Len(output) = 2
        BY <3>1
      <3> QED BY <2>3, <3>2
    <2>4. CASE run = 2 /\ label # "done"
      <3>1. PICK x : output = <<x>>
        BY <1>1, <2>4
      <3>2. Len(output) = 1
        BY <3>1
      <3> QED BY <2>4, <3>2
    <2> QED BY <1>1, <2>2, <2>3, <2>4
  <1>3. EHFrameSize_s # 0 => EHFrameSize_s >= Check!HeaderSize /\ (EHFrameSize_s - Check!HeaderSize) % 8 = 0
    <2>1. SUFFICES ASSUME EHFrameSize_s # 0
                   PROVE  EHFrameSize_s >= 12 /\ (EHFrameSize_s - 12) % 8 = 0
      BY DEF Check!HeaderSize
    <2>2. PICK k \in Nat : EHFrameSize_s = 12 + 8 * k
      BY <1>6, <2>1
    <2>3. EHFrameSize_s - 12 = 8 * k /\ (8 * k) % 8 = 0
      BY <2>2
    <2> QED BY <2>2, <2>3
  <1> QED BY <1>1, <1>2, <1>3, <1>4, <1>5, <1>6 DEF Check!TypeOK

\* The four inductive invariants together.
LEMMA PartInvariants ==
    Spec => []( /\ part \in {"protect", "load", "rename", "check"}
                /\ part = "protect" => ProtectInv
                /\ part = "load" => LoadInv
                /\ part = "rename" => RenInv
                /\ part = "check" => CheckInv)
  <1> DEFINE I == /\ part \in {"protect", "load", "rename", "check"}
                  /\ part = "protect" => ProtectInv
                  /\ part = "load" => LoadInv
                  /\ part = "rename" => RenInv
                  /\ part = "check" => CheckInv
  <1>1. Init => I
    BY ProtectInit, LoadInit, RenStarts, CheckInit DEF Init
  <1>2. I /\ [Next]_vars => I'
    <2> SUFFICES ASSUME I, [Next]_vars PROVE I'
      OBVIOUS
    <2>1. CASE Protect
      BY <2>1, ProtectStep DEF Protect
    <2>2. CASE Load
      BY <2>2, LoadStep DEF Load
    <2>3. CASE Rename
      BY <2>3, RenStep DEF Rename
    <2>4. CASE Relink
      BY <2>4, CheckStep DEF Relink
    <2>5. CASE UNCHANGED vars
      <3>1. UNCHANGED <<part, relro_vars, start_vars, check_vars>> /\ UNCHANGED Ren!vars
        BY <2>5 DEF vars, ren_vars, Ren!vars
      <3> QED BY <3>1, ProtectStutter, LoadStutter, RenStays, CheckStutter
    <2> QED BY <2>1, <2>2, <2>3, <2>4, <2>5 DEF Next
  <1> QED BY <1>1, <1>2, PTL DEF Spec

\* TypeOK of all four parts, for any output, input and command line.
THEOREM TypeOKHolds == Spec => []TypeOK
  <1> DEFINE I == /\ part \in {"protect", "load", "rename", "check"}
                  /\ part = "protect" => ProtectInv
                  /\ part = "load" => LoadInv
                  /\ part = "rename" => RenInv
                  /\ part = "check" => CheckInv
  <1>1. I => TypeOK
    <2> SUFFICES ASSUME I PROVE TypeOK
      OBVIOUS
    <2>1. CASE part = "protect"
      BY <2>1, RelroTyped DEF TypeOK
    <2>2. CASE part = "load"
      BY <2>2, LoadTyped DEF TypeOK
    <2>3. CASE part = "rename"
      BY <2>3, RenMeans DEF TypeOK
    <2>4. CASE part = "check"
      BY <2>4, CheckTypes DEF TypeOK
    <2> QED BY <2>1, <2>2, <2>3, <2>4
  <1> QED BY <1>1, PartInvariants, PTL
=============================================================================
