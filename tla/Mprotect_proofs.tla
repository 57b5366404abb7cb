-------------------------- MODULE Mprotect_proofs ---------------------------
(***************************************************************************)
(* The code that protects the RELRO regions (Mprotect) does it, for any    *)
(* number of regions, wherever they are and wherever the output is mapped. *)
(*                                                                         *)
(* Part 1 is about the code: what Emit writes is ten instructions for each *)
(* region, with the immediates patched where they belong (CodeIs), 47      *)
(* bytes long each (BlocksAt), so that the jump over the trap goes to the  *)
(* next region (JumpGoes).  Part 2 runs it: X86At(i, j) says what the      *)
(* registers, the calls and the pages are before instruction j of region   *)
(* i.  An address is computed modulo the width of a register from where    *)
(* the code is, and is the address of the region (Remainders).  On aarch64 *)
(* ArmAt says that the number of the call is 10, that of another call.     *)
(***************************************************************************)
EXTENDS OutputUse, FiniteSetTheorems, SequenceTheorems, Induction_proofs, TLAPS

-----------------------------------------------------------------------------
(***************************************************************************)
(* The code that protects the RELRO regions (Mprotect).                    *)
(***************************************************************************)
\* A place behind the first a.
LEMMA Behind == ASSUME NEW a \in Nat, NEW b \in Nat, NEW j \in Nat, 1 <= j, j <= b
                PROVE  a + j \in 1..(a + b)
  OBVIOUS

\* The tens and units of a place.
LEMMA TensAndUnits == ASSUME NEW n \in Nat, NEW k \in 1..(10 * n)
                      PROVE  /\ ((k - 1) \div 10) + 1 \in 1..n /\ ((k - 1) % 10) + 1 \in 1..10
                             /\ k = 10 * ((((k - 1) \div 10) + 1) - 1) + (((k - 1) % 10) + 1)
  OBVIOUS

\* The lengths of instructions, added up.
LEMMA BeforeGrows ==
    ASSUME NEW c, NEW n \in Nat, Len(c) = n, DOMAIN c = 1..n, \A k \in 1..n : c[k].len \in Int
    PROVE  /\ Relro!Before(c, 1) = 0
           /\ \A k \in 1..n : /\ Relro!Before(c, k) \in Int
                              /\ Relro!Before(c, k + 1) = Relro!Before(c, k) + c[k].len
  <1> DEFINE v == [k \in 1..n |-> c[k].len]
  <1>1. v \in [1..n -> Int] /\ \A k \in 1..n : v[k] = c[k].len
    OBVIOUS
  <1> HIDE DEF v
  <1>2. PICK s : RunningSum(n, s, v)
    BY <1>1, RunningSumExists
  <1> DEFINE Is(f) == f = [j \in 0..Len(c) |-> IF j = 0 THEN 0 ELSE f[j - 1] + c[j].len]
             sum == CHOOSE f : Is(f)
  <1>3. \A k : Relro!Before(c, k) = sum[k - 1]
    BY Zenon DEF Relro!Before
  <1>4. Is(s)
    <2>1. s = [j \in 0..n |-> s[j]]
      BY <1>2 DEF RunningSum
    <2>2. \A j \in 0..n : s[j] = IF j = 0 THEN 0 ELSE s[j - 1] + c[j].len
      BY <1>1, <1>2 DEF RunningSum
    <2> QED BY <2>1, <2>2
  <1>5. Is(sum)
    <2> HIDE DEF Is
    <2> QED BY <1>4
  <1> HIDE DEF sum
  <1>6. sum[0] = 0 /\ \A k \in 1..n : sum[k] = sum[k - 1] + c[k].len
    BY <1>5
  <1> DEFINE T == {j \in 0..n : sum[j] \in Int}
  <1>7. 0 \in T
    BY <1>6
  <1>8. \A m \in 0..n : m \in T /\ m < n => m + 1 \in T
    <2>1. SUFFICES ASSUME NEW m \in 0..n, sum[m] \in Int, m < n PROVE sum[m + 1] \in Int
      OBVIOUS
    <2>2. m + 1 \in 1..n /\ (m + 1) - 1 = m
      BY <2>1
    <2> QED BY <1>6, <2>1, <2>2
  <1> HIDE DEF T
  <1>9. 0..n \subseteq T
    BY <1>7, <1>8, IntervalInduction
  <1>10. \A k \in 1..n : k - 1 \in 0..n /\ (k + 1) - 1 = k /\ sum[k - 1] \in Int
    BY <1>9 DEF T
  <1>11. 1 - 1 = 0
    OBVIOUS
  <1>12. Relro!Before(c, 1) = 0
    BY <1>3, <1>6, <1>11
  <1>13. ASSUME NEW k \in 1..n
         PROVE  Relro!Before(c, k) \in Int /\ Relro!Before(c, k + 1) = Relro!Before(c, k) + c[k].len
    <2>1. Relro!Before(c, k) = sum[k - 1] /\ Relro!Before(c, k + 1) = sum[(k + 1) - 1]
      BY <1>3
    <2>2. (k + 1) - 1 = k /\ sum[k - 1] \in Int /\ sum[k] = sum[k - 1] + c[k].len
      BY <1>6, <1>10
    <2> QED BY <2>1, <2>2
  <1> QED BY <1>12, <1>13

Placed(n, parts, place) ==
    place[0] = 0 /\ \A i \in 1..n : place[i] = place[i - 1] + Len(parts[i])

Follows(cat, n, V, parts, place) ==
    /\ cat \in Seq(V) /\ Len(cat) = place[n]
    /\ \A i \in 1..n : \A j \in 1..Len(parts[i]) : cat[place[i - 1] + j] = parts[i][j]

\* The parts of a concatenation, part i behind place[i - 1].
LEMMA ConcatGives ==
    ASSUME NEW n \in Nat, NEW V, NEW parts \in [1..n -> Seq(V)], NEW place \in [0..n -> Nat],
           Placed(n, parts, place)
    PROVE  Follows(Relro!Concat(parts), n, V, parts, place)
  <1>4. PICK g \in [0..n -> Seq(V)] : \A k \in 0..n : g[k] = IF k = 0 THEN <<>> ELSE g[k - 1] \o parts[k]
    <2>1. Parts(n, V, parts)
      BY DEF Parts
    <2>2. Joinable(n, V, parts)
      BY <2>1, JoiningExists
    <2> QED BY <2>2 DEF Joinable
  <1> DEFINE Is(f) == f = [k \in 0..Len(parts) |-> IF k = 0 THEN <<>> ELSE f[k - 1] \o parts[k]]
             cat == CHOOSE f : Is(f)
  <1>5. Relro!Concat(parts) = cat[Len(parts)]
    BY Zenon DEF Relro!Concat
  <1>6. Len(parts) = n
    OBVIOUS
  <1>7. Is(g)
    <2>1. g = [k \in 0..n |-> g[k]]
      OBVIOUS
    <2> QED BY <1>4, <1>6, <2>1
  <1>8. Is(cat)
    <2> HIDE DEF Is
    <2> QED BY <1>7
  <1> HIDE DEF cat
  <1>9. cat[0] = <<>> /\ \A k \in 1..n : cat[k] = cat[k - 1] \o parts[k]
    <2>1. \A k \in 0..n : cat[k] = IF k = 0 THEN <<>> ELSE cat[k - 1] \o parts[k]
      BY <1>6, <1>8
    <2>2. 0 \in 0..n /\ \A k \in 1..n : k \in 0..n /\ k # 0
      OBVIOUS
    <2> QED BY <2>1, <2>2
  <1> DEFINE Good(k) == /\ cat[k] \in Seq(V) /\ Len(cat[k]) = place[k]
                        /\ \A i \in 1..k : \A j \in 1..Len(parts[i]) :
                              /\ place[i - 1] + j \in 1..place[k]
                              /\ cat[k][place[i - 1] + j] = parts[i][j]
             T == {k \in 0..n : Good(k)}
  <1>10. 0 \in T
    <2>1. cat[0] \in Seq(V) /\ Len(cat[0]) = place[0]
      BY <1>9 DEF Placed
    <2>2. Good(0)
      BY <2>1
    <2> HIDE DEF Good
    <2> QED BY <2>2
  <1>11. \A m \in 0..n : m \in T /\ m < n => m + 1 \in T
    <2>1. SUFFICES ASSUME NEW m \in 0..n, Good(m), m < n PROVE Good(m + 1)
      <3> HIDE DEF Good
      <3> QED OBVIOUS
    <2>2. m \in 0..n /\ m + 1 \in 0..n /\ m + 1 \in 1..n /\ (m + 1) - 1 = m
      BY <2>1
    <2> DEFINE p == parts[m + 1]
               q == cat[m]
    <2>3. cat[m + 1] = q \o p /\ p \in Seq(V) /\ q \in Seq(V) /\ Len(p) \in Nat /\ Len(q) = place[m]
          /\ place[m + 1] = place[m] + Len(p) /\ place[m] \in Nat
      <3>1. cat[m + 1] = cat[m] \o parts[m + 1] /\ place[m + 1] = place[m] + Len(parts[m + 1])
        BY <1>9, <2>2 DEF Placed
      <3>2. p \in Seq(V) /\ q \in Seq(V) /\ Len(q) = place[m] /\ place[m] \in Nat
        BY <2>1, <2>2
      <3> QED BY <3>1, <3>2
    <2> HIDE DEF p, q
    <2>4. /\ Len(q \o p) = place[m] + Len(p) /\ q \o p \in Seq(V)
          /\ \A k \in 1..place[m] : (q \o p)[k] = q[k]
          /\ \A k \in 1..Len(p) : (q \o p)[place[m] + k] = p[k]
      <3>1. /\ q \o p \in Seq(V) /\ Len(q \o p) = Len(q) + Len(p)
            /\ \A k \in 1..(Len(q) + Len(p)) : (q \o p)[k] = IF k <= Len(q) THEN q[k] ELSE p[k - Len(q)]
        BY <2>3, ConcatProperties
      <3>2. \A k \in 1..place[m] : k \in 1..(place[m] + Len(p)) /\ k <= place[m]
        BY <2>3
      <3>3. \A k \in 1..Len(p) : /\ place[m] + k \in 1..(place[m] + Len(p)) /\ ~(place[m] + k <= place[m])
                                 /\ (place[m] + k) - place[m] = k
        BY <2>3
      <3>4. \A k \in 1..place[m] : (q \o p)[k] = q[k]
        BY <2>3, <3>1, <3>2
      <3>5. \A k \in 1..Len(p) : (q \o p)[place[m] + k] = p[k]
        BY <2>3, <3>1, <3>3
      <3> QED BY <2>3, <3>1, <3>4, <3>5
    <2>5. ASSUME NEW i \in 1..(m + 1), NEW j \in 1..Len(parts[i])
          PROVE  place[i - 1] + j \in 1..place[m + 1] /\ cat[m + 1][place[i - 1] + j] = parts[i][j]
      <3>1. CASE i = m + 1
        <4>1. j \in 1..Len(p) /\ parts[i][j] = p[j] /\ i - 1 = m
          BY <2>2, <2>5, <3>1 DEF p
        <4>2. place[m] + j \in 1..place[m + 1]
          <5>1. j \in Nat /\ 1 <= j /\ j <= Len(p) /\ place[m] \in Nat /\ Len(p) \in Nat
            BY <2>3, <4>1
          <5>2. place[m] + j \in 1..(place[m] + Len(p))
            BY <5>1, Behind
          <5> QED BY <2>3, <5>2
        <4> QED BY <2>3, <2>4, <3>1, <4>1, <4>2
      <3>2. CASE i \in 1..m
        <4>1. place[i - 1] + j \in 1..place[m] /\ q[place[i - 1] + j] = parts[i][j]
          BY <2>1, <2>5, <3>2 DEF q
        <4>2. place[m] <= place[m + 1]
          BY <2>3
        <4>3. place[i - 1] + j \in 1..place[m + 1]
          <5> DEFINE x == place[i - 1] + j
          <5>1. x \in 1..place[m]
            BY <4>1
          <5> HIDE DEF x
          <5>2. place[m] \in Nat /\ place[m + 1] \in Nat
            <6>1. \A k \in 0..n : place[k] \in Nat
              OBVIOUS
            <6> QED BY <2>2, <6>1
          <5>3. x \in 1..place[m + 1]
            BY <4>2, <5>1, <5>2
          <5> QED BY <5>3 DEF x
        <4> QED BY <2>3, <2>4, <4>1, <4>3
      <3> QED BY <2>1, <2>5, <3>1, <3>2
    <2> QED BY <2>3, <2>4, <2>5
  <1> HIDE DEF T
  <1>12. 0..n \subseteq T
    BY <1>10, <1>11, IntervalInduction
  <1>13. Good(n)
    <2>1. n \in T
      BY <1>12
    <2> HIDE DEF Good
    <2> QED BY <2>1 DEF T
  <1> QED BY <1>5, <1>6, <1>13 DEF Follows

Ops    == {"mov", "movk", "lea", "adr", "add", "syscall", "svc", "test", "jz", "ud2", "ret"}
Instrs == [op : Ops, reg : Relro!Regs, imm : Int, len : Nat, at : Nat]

\* What the builder is given.
InputOK ==
    /\ input.code \in Nat /\ input.regions \in Seq([vaddr : Nat, memsz : Nat])
    /\ base \in Nat /\ \A k \in 1..Relro!N : base + input.regions[k].vaddr + input.regions[k].memsz < Relro!Word

\* Where the code of region i finds the page of the region.
OffsetOf(i) == Relro!PageOf(input.regions[i].vaddr) - (input.code + 47 * (i - 1) + 17)
SizeOf(i)   == Relro!SizeX86_64(input.regions[i])

\* The ten instructions behind at, with their immediates.
IsBody(c, at, offset, size) ==
    /\ c[at + 1] = Relro!I("mov", "addr", offset, 10, 2)
    /\ c[at + 2] = Relro!I("lea", "len", 0, 7, 3)
    /\ c[at + 3] = Relro!I("add", "len", 0, 3, 0)
    /\ c[at + 4] = Relro!I("mov", "len", size, 7, 3)
    /\ c[at + 5] = Relro!I("mov", "prot", 1, 7, 3)
    /\ c[at + 6] = Relro!I("mov", "nr", 10, 5, 1)
    /\ c[at + 7] = Relro!I("syscall", "nr", 0, 2, 0)
    /\ c[at + 8] = Relro!I("test", "nr", 0, 2, 0)
    /\ c[at + 9] = Relro!I("jz", "nr", 2, 2, 1)
    /\ c[at + 10] = Relro!I("ud2", "nr", 0, 2, 0)

\* The start of the page of an address.
LEMMA PageOfTyped == ASSUME NEW a \in Int PROVE Relro!PageOf(a) \in Int /\ Relro!PageOf(a) <= a
                     /\ (a >= 0 => Relro!PageOf(a) >= 0)
  <1>1. Page \in Nat \ {0}
    BY OutputUseAssumption DEF Relro!WidthAssumption
  <1>2. a \div Page \in Int /\ a % Page \in 0..(Page - 1) /\ a = Page * (a \div Page) + (a % Page)
    BY <1>1
  <1>3. (a \div Page) * Page = Page * (a \div Page)
    BY <1>1, <1>2
  <1>4. a >= 0 => a \div Page >= 0
    BY <1>1
  <1> DEFINE q == a \div Page
  <1>5. q * Page \in Int /\ (a >= 0 => q * Page >= 0)
    <2>1. q \in Int /\ (a >= 0 => q \in Nat)
      BY <1>2, <1>4
    <2> HIDE DEF q
    <2> QED BY <1>1, <2>1
  <1> QED BY <1>2, <1>3, <1>5 DEF Relro!PageOf

\* Pages come in the order of addresses.
LEMMA PagesGrow == ASSUME NEW a \in Nat, NEW b \in Nat PROVE Relro!PageOf(a + b) >= Relro!PageOf(a)
  <1>1. Page \in Nat \ {0}
    BY OutputUseAssumption DEF Relro!WidthAssumption
  <1> DEFINE p == a \div Page
             q == (a + b) \div Page
  <1>2. p \in Nat /\ q \in Nat /\ Page * p <= a /\ a + b < Page * q + Page
    BY <1>1
  <1> HIDE DEF p, q
  <1>3. p < q + 1
    <2>1. SUFFICES ASSUME p >= q + 1 PROVE FALSE
      BY <1>2
    <2>2. Page * p >= Page * (q + 1)
      BY <1>1, <1>2, <2>1
    <2>3. Page * (q + 1) = Page * q + Page
      BY <1>1, <1>2
    <2> QED BY <1>1, <1>2, <2>2, <2>3
  <1>4. p * Page <= q * Page
    BY <1>1, <1>2, <1>3
  <1> QED BY <1>4 DEF Relro!PageOf, p, q

\* Ten instructions of the lengths of a region's.
BodyLens(c) ==
    /\ DOMAIN c = 1..10 /\ Len(c) = 10
    /\ c[1].len = 10 /\ c[2].len = 7 /\ c[3].len = 3 /\ c[4].len = 7 /\ c[5].len = 7
    /\ c[6].len = 5 /\ c[7].len = 2 /\ c[8].len = 2 /\ c[9].len = 2 /\ c[10].len = 2

\* Where the instructions of one region are.
LEMMA BodyLengths ==
    ASSUME NEW c, BodyLens(c)
    PROVE  /\ Relro!Before(c, 1) = 0 /\ Relro!Before(c, 2) = 10 /\ Relro!Before(c, 3) = 17
           /\ Relro!Before(c, 4) = 20 /\ Relro!Before(c, 5) = 27 /\ Relro!Before(c, 6) = 34
           /\ Relro!Before(c, 7) = 39 /\ Relro!Before(c, 8) = 41 /\ Relro!Before(c, 9) = 43
           /\ Relro!Before(c, 10) = 45 /\ Relro!Bytes(c) = 47
  <1> USE DEF BodyLens
  <1>1. \A k \in 1..10 : c[k].len \in Int
    <2> TAKE k \in 1..10
    <2>1. k \in {1, 2, 3, 4, 5, 6, 7, 8, 9, 10}
      OBVIOUS
    <2> QED BY <2>1
  <1>2. /\ Relro!Before(c, 1) = 0
        /\ \A k \in 1..10 : /\ Relro!Before(c, k) \in Int
                            /\ Relro!Before(c, k + 1) = Relro!Before(c, k) + c[k].len
    BY <1>1, BeforeGrows
  <1>3. Relro!Before(c, 1 + 1) = 10
    BY <1>2
  <1>4. Relro!Before(c, 2 + 1) = 17
    BY <1>2, <1>3
  <1>5. Relro!Before(c, 3 + 1) = 20
    BY <1>2, <1>4
  <1>6. Relro!Before(c, 4 + 1) = 27
    BY <1>2, <1>5
  <1>7. Relro!Before(c, 5 + 1) = 34
    BY <1>2, <1>6
  <1>8. Relro!Before(c, 6 + 1) = 39
    BY <1>2, <1>7
  <1>9. Relro!Before(c, 7 + 1) = 41
    BY <1>2, <1>8
  <1>10. Relro!Before(c, 8 + 1) = 43
    BY <1>2, <1>9
  <1>11. Relro!Before(c, 9 + 1) = 45
    BY <1>2, <1>10
  <1>12. Relro!Before(c, 10 + 1) = 47
    BY <1>2, <1>11
  <1> QED BY <1>2, <1>3, <1>4, <1>5, <1>6, <1>7, <1>8, <1>9, <1>10, <1>11, <1>12 DEF Relro!Bytes

\* The body with no immediates, as a sequence.
LEMMA EmptyBody ==
    LET c == Relro!memprotect_body_code_x86_64
    IN  c \in Seq(Instrs) /\ Len(c) = 10 /\ DOMAIN c = 1..10 /\ IsBody(c, 0, 0, 0)
  <1> DEFINE c == Relro!memprotect_body_code_x86_64
  <1>1. Len(c) = 10 /\ DOMAIN c = 1..10
    BY DEF Relro!memprotect_body_code_x86_64
  <1>2. IsBody(c, 0, 0, 0)
    BY DEF Relro!memprotect_body_code_x86_64, IsBody
  <1>3. \A k \in 1..10 : c[k] \in Instrs
    <2> HIDE DEF c
    <2>1. SUFFICES ASSUME NEW k \in 1..10 PROVE c[k] \in Instrs
      OBVIOUS
    <2>2. k \in {1, 2, 3, 4, 5, 6, 7, 8, 9, 10}
      OBVIOUS
    <2> QED BY <1>2, <2>2 DEF IsBody, Instrs, Ops, Relro!Regs, Relro!I
  <1>4. c \in [1..10 -> Instrs]
    BY <1>1, <1>3 DEF Relro!memprotect_body_code_x86_64
  <1> HIDE DEF c
  <1>5. c \in Seq(Instrs)
    BY <1>4, SeqDef
  <1> QED BY <1>1, <1>2, <1>5 DEF c

\* Patching puts one immediate in.
LEMMA PatchGives ==
    ASSUME NEW c \in Seq(Instrs), Len(c) = 10, DOMAIN c = 1..10, NEW o \in Int, NEW s \in Int, IsBody(c, 0, o, s),
           NEW v \in Int
    PROVE  /\ \A d \in {Relro!PatchAt(c, 2, v), Relro!PatchAt(c, 23, v)} :
                 d \in Seq(Instrs) /\ Len(d) = 10 /\ DOMAIN d = 1..10
           /\ IsBody(Relro!PatchAt(c, 2, v), 0, v, s)
           /\ IsBody(Relro!PatchAt(c, 23, v), 0, o, v)
  <1>1. /\ c[1].len = 10 /\ c[2].len = 7 /\ c[3].len = 3 /\ c[4].len = 7 /\ c[5].len = 7 /\ c[6].len = 5
        /\ c[7].len = 2 /\ c[8].len = 2 /\ c[9].len = 2 /\ c[10].len = 2
        /\ c[1].at = 2 /\ c[2].at = 3 /\ c[3].at = 0 /\ c[4].at = 3 /\ c[5].at = 3 /\ c[6].at = 1
        /\ c[7].at = 0 /\ c[8].at = 0 /\ c[9].at = 1 /\ c[10].at = 0
    BY DEF IsBody, Relro!I
  <1>2. /\ Relro!Before(c, 1) = 0 /\ Relro!Before(c, 2) = 10 /\ Relro!Before(c, 3) = 17
        /\ Relro!Before(c, 4) = 20 /\ Relro!Before(c, 5) = 27 /\ Relro!Before(c, 6) = 34
        /\ Relro!Before(c, 7) = 39 /\ Relro!Before(c, 8) = 41 /\ Relro!Before(c, 9) = 43
        /\ Relro!Before(c, 10) = 45
    <2>1. BodyLens(c)
      BY <1>1 DEF BodyLens
    <2> QED BY <2>1, BodyLengths
  <1> DEFINE first == Relro!PatchAt(c, 2, v)
             fourth == Relro!PatchAt(c, 23, v)
             with(k) == [c[k] EXCEPT !.imm = v]
             place(k) == Relro!Before(c, k) + c[k].at
  <1>4. /\ DOMAIN first = 1..10 /\ DOMAIN fourth = 1..10
        /\ \A k \in 1..10 : /\ first[k] = IF place(k) = 2 THEN with(k) ELSE c[k]
                            /\ fourth[k] = IF place(k) = 23 THEN with(k) ELSE c[k]
    BY DEF Relro!PatchAt
  <1>5. \A x \in Instrs : [x EXCEPT !.imm = v] \in Instrs
    BY DEF Instrs
  <1>6. \A k \in 1..10 : c[k] \in Instrs
    BY ElementOfSeq
  <1>7. first = [k \in 1..10 |-> first[k]] /\ fourth = [k \in 1..10 |-> fourth[k]]
    BY DEF Relro!PatchAt
  <1>3. /\ 1 \in 1..10 /\ 2 \in 1..10 /\ 3 \in 1..10 /\ 4 \in 1..10 /\ 5 \in 1..10
        /\ 6 \in 1..10 /\ 7 \in 1..10 /\ 8 \in 1..10 /\ 9 \in 1..10 /\ 10 \in 1..10
    OBVIOUS
  <1>13. \A k \in 1..10 : with(k) \in Instrs
    BY <1>5, <1>6
  <1>14. /\ place(1) = 2 /\ place(2) = 13 /\ place(3) = 17 /\ place(4) = 23 /\ place(5) = 30
         /\ place(6) = 35 /\ place(7) = 39 /\ place(8) = 41 /\ place(9) = 44 /\ place(10) = 45
    <2>1. place(1) = 0 + 2 /\ place(2) = 10 + 3 /\ place(3) = 17 + 0 /\ place(4) = 20 + 3 /\ place(5) = 27 + 3
      BY <1>1, <1>2
    <2>2. place(6) = 34 + 1 /\ place(7) = 39 + 0 /\ place(8) = 41 + 0 /\ place(9) = 43 + 1 /\ place(10) = 45 + 0
      BY <1>1, <1>2
    <2> HIDE DEF place
    <2> QED BY <2>1, <2>2
  <1> HIDE DEF first, fourth, with, place
  <1>8. first \in [1..10 -> Instrs] /\ fourth \in [1..10 -> Instrs]
    <2>1. \A k \in 1..10 : first[k] \in Instrs /\ fourth[k] \in Instrs
      BY <1>4, <1>6, <1>13
    <2> QED BY <1>7, <2>1
  <1>9. /\ first \in Seq(Instrs) /\ Len(first) = 10 /\ fourth \in Seq(Instrs) /\ Len(fourth) = 10
    <2>1. first \in Seq(Instrs) /\ fourth \in Seq(Instrs)
      BY <1>8, SeqDef
    <2> QED BY <1>4, <2>1
  <1>10. with(1) = Relro!I("mov", "addr", v, 10, 2) /\ with(4) = Relro!I("mov", "len", v, 7, 3)
    <2>1. c[1] = Relro!I("mov", "addr", o, 10, 2) /\ c[4] = Relro!I("mov", "len", s, 7, 3)
      BY DEF IsBody
    <2>2. /\ [Relro!I("mov", "addr", o, 10, 2) EXCEPT !.imm = v] = Relro!I("mov", "addr", v, 10, 2)
          /\ [Relro!I("mov", "len", s, 7, 3) EXCEPT !.imm = v] = Relro!I("mov", "len", v, 7, 3)
      BY DEF Relro!I
    <2> QED BY <2>1, <2>2, Zenon DEF with
  <1>11. IsBody(first, 0, v, s)
    <2>1. first[1] = with(1) /\ first[2] = c[2] /\ first[3] = c[3] /\ first[4] = c[4] /\ first[5] = c[5]
      BY <1>3, <1>4, <1>14
    <2>2. first[6] = c[6] /\ first[7] = c[7] /\ first[8] = c[8] /\ first[9] = c[9] /\ first[10] = c[10]
      BY <1>3, <1>4, <1>14
    <2> QED BY <1>10, <2>1, <2>2 DEF IsBody
  <1>12. IsBody(fourth, 0, o, v)
    <2>1. fourth[1] = c[1] /\ fourth[2] = c[2] /\ fourth[3] = c[3] /\ fourth[4] = with(4) /\ fourth[5] = c[5]
      BY <1>3, <1>4, <1>14
    <2>2. fourth[6] = c[6] /\ fourth[7] = c[7] /\ fourth[8] = c[8] /\ fourth[9] = c[9] /\ fourth[10] = c[10]
      BY <1>3, <1>4, <1>14
    <2> QED BY <1>10, <2>1, <2>2 DEF IsBody
  <1> QED BY <1>4, <1>9, <1>11, <1>12 DEF first, fourth

\* The modulus of a uint32_t.
LEMMA DwordTyped == Relro!Dword \in Nat /\ Relro!Dword >= 4
  <1>1. Piece \in Nat /\ Piece >= 2
    BY OutputUseAssumption DEF Relro!WidthAssumption
  <1>2. Piece * Piece \in Nat /\ Piece * Piece >= 2 * Piece
    BY <1>1
  <1> QED BY <1>1, <1>2 DEF Relro!Dword

\* Addresses fit in a register, and so do the immediates.
LEMMA InputTyped ==
    ASSUME InputOK
    PROVE  /\ Relro!N \in Nat /\ DOMAIN input.regions = 1..Relro!N
           /\ \A i \in 1..Relro!N : input.regions[i].vaddr \in Nat /\ input.regions[i].memsz \in Nat
           /\ \A i \in 1..Relro!N : /\ OffsetOf(i) \in Int /\ SizeOf(i) \in Nat
                                    /\ Relro!PageOf(input.regions[i].vaddr) \in Nat
                                    /\ base + Relro!PageOf(input.regions[i].vaddr) \in 0..(Relro!Word - 1)
                                    /\ SizeOf(i) < Relro!Dword
           /\ Relro!Word \in Nat /\ Relro!Word >= 16 /\ Relro!Word % 1 = 0
           /\ (-12) % Relro!Word # 0 /\ (-22) % Relro!Word # 0 /\ 10 % Relro!Word = 10
  <1>1. Relro!N \in Nat /\ DOMAIN input.regions = 1..Relro!N
    BY DEF InputOK, Relro!N
  <1>2. \A i \in 1..Relro!N : input.regions[i].vaddr \in Nat /\ input.regions[i].memsz \in Nat
    <2>1. \A i \in 1..Relro!N : input.regions[i] \in [vaddr : Nat, memsz : Nat]
      <3>1. input.regions \in Seq([vaddr : Nat, memsz : Nat]) /\ Relro!N = Len(input.regions)
        BY DEF InputOK, Relro!N
      <3> DEFINE R == [vaddr : Nat, memsz : Nat]
                 q == input.regions
      <3>2. q \in Seq(R) /\ Relro!N = Len(q)
        BY <3>1
      <3> HIDE DEF R, q
      <3>3. \A i \in 1..Relro!N : q[i] \in R
        BY <3>2, ElementOfSeq
      <3> QED BY <3>3 DEF R, q
    <2> QED BY <2>1
  <1>3. Relro!Word \in Nat /\ Relro!Word >= 16 /\ (Relro!Word = 16 \/ Relro!Word > 22)
    <2>1. Piece \in Nat /\ Piece >= 2
      BY OutputUseAssumption DEF Relro!WidthAssumption
    <2>2. CASE Piece = 2
      BY <2>2 DEF Relro!Word
    <2>3. CASE Piece >= 3
      <3> DEFINE p == Piece * Piece
      <3>1. p \in Nat /\ p >= 9
        BY <2>1, <2>3
      <3> HIDE DEF p
      <3>2. p * Piece \in Nat /\ p * Piece >= 27
        BY <2>1, <2>3, <3>1
      <3> DEFINE q == p * Piece
      <3>3. q \in Nat /\ q >= 27
        BY <3>2
      <3> HIDE DEF q
      <3>4. q * Piece \in Nat /\ q * Piece >= 27
        BY <2>1, <2>3, <3>3
      <3> QED BY <3>4 DEF q, p, Relro!Word
    <2> QED BY <2>1, <2>2, <2>3
  <1> DEFINE W == Relro!Word
  <1>4. (-12) % W # 0 /\ (-22) % W # 0 /\ 10 % W = 10
    <2> HIDE DEF W
    <2>1. CASE W = 16
      BY <2>1
    <2>2. CASE W > 22
      <3>1. W \in Nat /\ W > 22
        BY <1>3, <2>2 DEF W
      <3> QED BY <3>1
    <2> QED BY <1>3, <2>1, <2>2 DEF W
  <1>5. ASSUME NEW i \in 1..Relro!N
        PROVE  /\ OffsetOf(i) \in Int /\ SizeOf(i) \in Nat
               /\ Relro!PageOf(input.regions[i].vaddr) \in Nat
               /\ base + Relro!PageOf(input.regions[i].vaddr) \in 0..(Relro!Word - 1)
               /\ SizeOf(i) < Relro!Dword
    <2> DEFINE a == input.regions[i].vaddr
               m == input.regions[i].memsz
    <2>1. a \in Nat /\ m \in Nat /\ a + m \in Nat /\ base \in Nat /\ base + a + m < W /\ input.code \in Nat
      <3>1. a \in Nat /\ m \in Nat
        BY <1>2
      <3>2. base \in Nat /\ input.code \in Nat /\ base + a + m < W
        BY DEF InputOK
      <3> QED BY <3>1, <3>2
    <2>2. /\ Relro!PageOf(a) \in Int /\ Relro!PageOf(a) <= a /\ Relro!PageOf(a) >= 0
          /\ Relro!PageOf(a + m) \in Int /\ Relro!PageOf(a + m) <= a + m
          /\ Relro!PageOf(a + m) >= Relro!PageOf(a)
      <3> HIDE DEF a, m
      <3>1. Relro!PageOf(a) \in Int /\ Relro!PageOf(a) <= a /\ Relro!PageOf(a) >= 0
        BY <2>1, PageOfTyped
      <3>2. Relro!PageOf(a + m) \in Int /\ Relro!PageOf(a + m) <= a + m
        BY <2>1, PageOfTyped
      <3>3. Relro!PageOf(a + m) >= Relro!PageOf(a)
        BY <2>1, PagesGrow
      <3> QED BY <3>1, <3>2, <3>3
    <2>3. SizeOf(i) \in Nat /\ SizeOf(i) < Relro!Dword
      <3> DEFINE d == Relro!Dword
                 t == m % d
      <3>1. d \in Nat /\ d >= 4
        BY DwordTyped
      <3>2. SizeOf(i) = (Relro!PageOf(a + t) - Relro!PageOf(a)) % d
        BY DEF SizeOf, Relro!SizeX86_64, Relro!Size32
      <3> HIDE DEF a, m, d
      <3>3. t \in Nat
        BY <2>1, <3>1
      <3> HIDE DEF t
      <3>4. a + t \in Int
        BY <2>1, <3>3
      <3>5. Relro!PageOf(a + t) \in Int
        BY <3>4, PageOfTyped
      <3> DEFINE x == Relro!PageOf(a + t) - Relro!PageOf(a)
      <3>6. x \in Int
        BY <2>2, <3>5
      <3>7. SizeOf(i) = x % d
        BY <3>2
      <3> HIDE DEF x
      <3> QED BY <3>1, <3>6, <3>7 DEF d
    <2>4. OffsetOf(i) = Relro!PageOf(a) - (input.code + 47 * (i - 1) + 17)
      BY DEF OffsetOf
    <2>5. i \in Int
      BY <1>1
    <2> HIDE DEF a, m, W
    <2>6. base + Relro!PageOf(a) \in 0..(W - 1)
      BY <1>3, <2>1, <2>2 DEF W
    <2> QED BY <2>1, <2>2, <2>3, <2>4, <2>5, <2>6 DEF a, W
  <1>6. W % 1 = 0
    <2> HIDE DEF W
    <2>1. W \in Nat
      BY <1>3 DEF W
    <2> QED BY <2>1
  <1> QED BY <1>1, <1>2, <1>3, <1>4, <1>5, <1>6, Zenon

\* The code of region i, with its two immediates.
LEMMA BodyGives ==
    ASSUME InputOK, NEW i \in 1..Relro!N
    PROVE  /\ Relro!BodyX86_64(i) \in Seq(Instrs) /\ Len(Relro!BodyX86_64(i)) = 10
           /\ IsBody(Relro!BodyX86_64(i), 0, OffsetOf(i), SizeOf(i))
  <1> DEFINE c == Relro!memprotect_body_code_x86_64
             d == Relro!PatchAt(c, 2, OffsetOf(i))
  <1>1. c \in Seq(Instrs) /\ Len(c) = 10 /\ DOMAIN c = 1..10 /\ IsBody(c, 0, 0, 0)
    BY EmptyBody
  <1>2. OffsetOf(i) \in Int /\ SizeOf(i) \in Int
    BY InputTyped
  <1>3. Relro!Bytes(c) = 47
    <2> HIDE DEF c
    <2>1. /\ c[1].len = 10 /\ c[2].len = 7 /\ c[3].len = 3 /\ c[4].len = 7 /\ c[5].len = 7 /\ c[6].len = 5
          /\ c[7].len = 2 /\ c[8].len = 2 /\ c[9].len = 2 /\ c[10].len = 2
      BY <1>1 DEF IsBody, Relro!I
    <2>2. BodyLens(c)
      BY <1>1, <2>1 DEF BodyLens
    <2> QED BY <2>2, BodyLengths
  <1>4. Relro!OffsetX86_64(i) = OffsetOf(i)
    BY <1>3 DEF Relro!OffsetX86_64, OffsetOf
  <1>5. Relro!BodyX86_64(i) = Relro!PatchAt(d, 23, SizeOf(i))
    BY <1>4 DEF Relro!BodyX86_64, SizeOf
  <1> HIDE DEF c
  <1>6. d \in Seq(Instrs) /\ Len(d) = 10 /\ DOMAIN d = 1..10 /\ IsBody(d, 0, OffsetOf(i), 0)
    BY <1>1, <1>2, PatchGives
  <1> HIDE DEF d
  <1>7. Relro!PatchAt(d, 23, SizeOf(i)) \in Seq(Instrs) /\ Len(Relro!PatchAt(d, 23, SizeOf(i))) = 10
        /\ IsBody(Relro!PatchAt(d, 23, SizeOf(i)), 0, OffsetOf(i), SizeOf(i))
    BY <1>2, <1>6, PatchGives
  <1> QED BY <1>5, <1>7

\* The code of all regions, one after the other, and ret.
CodeIs(c) ==
    /\ c \in Seq(Instrs) /\ Len(c) = 10 * Relro!N + 1
    /\ \A i \in 1..Relro!N : IsBody(c, 10 * (i - 1), OffsetOf(i), SizeOf(i))
    /\ c[10 * Relro!N + 1] = Relro!I("ret", "nr", 0, 1, 0)

\* The code that Emit writes on x86-64.
LEMMA EmittedX86 == ASSUME InputOK PROVE CodeIs(Relro!EmitX86_64)
  <1> DEFINE n == Relro!N
             parts == [i \in 1..n |-> Relro!BodyX86_64(i)]
             place == [i \in 0..n |-> 10 * i]
             all == Relro!Concat(parts)
             ret == Relro!I("ret", "nr", 0, 1, 0)
  <1>1. n \in Nat
    BY InputTyped
  <1>2. \A i \in 1..n : /\ Relro!BodyX86_64(i) \in Seq(Instrs) /\ Len(Relro!BodyX86_64(i)) = 10
                        /\ IsBody(Relro!BodyX86_64(i), 0, OffsetOf(i), SizeOf(i))
    BY BodyGives
  <1>3. parts \in [1..n -> Seq(Instrs)] /\ \A i \in 1..n : parts[i] = Relro!BodyX86_64(i)
    BY <1>2
  <1>4. place \in [0..n -> Nat] /\ \A i \in 0..n : place[i] = 10 * i
    BY <1>1
  <1> HIDE DEF n, parts, place
  <1>5. Placed(n, parts, place)
    <2>1. 0 \in 0..n /\ \A i \in 1..n : i \in 0..n /\ i - 1 \in 0..n
      BY <1>1
    <2>2. \A i \in 1..n : Len(parts[i]) = 10
      BY <1>2, <1>3
    <2>3. place[0] = 0
      BY <1>4, <2>1
    <2>4. \A i \in 1..n : place[i] = place[i - 1] + 10
      BY <1>1, <1>4, <2>1
    <2> QED BY <2>2, <2>3, <2>4 DEF Placed
  <1>6. /\ all \in Seq(Instrs) /\ Len(all) = place[n]
        /\ \A i \in 1..n : \A j \in 1..Len(parts[i]) : all[place[i - 1] + j] = parts[i][j]
    <2>1. Follows(Relro!Concat(parts), n, Instrs, parts, place)
      BY <1>1, <1>3, <1>4, <1>5, ConcatGives
    <2> QED BY <2>1 DEF Follows
  <1> HIDE DEF all
  <1>7. Len(all) = 10 * n
    <2>1. n \in 0..n
      BY <1>1
    <2> QED BY <1>4, <1>6, <2>1
  <1>8. ret \in Instrs
    BY DEF Relro!I, Instrs, Ops, Relro!Regs
  <1> DEFINE c == all \o <<ret>>
  <1>9. Relro!EmitX86_64 = c
    BY DEF Relro!EmitX86_64, all, parts, n, Relro!memprotect_end_code_x86_64
  <1>10. /\ c \in Seq(Instrs) /\ Len(c) = 10 * n + 1 /\ c[10 * n + 1] = ret
         /\ \A k \in 1..(10 * n) : c[k] = all[k]
    <2> HIDE DEF ret
    <2>1. <<ret>> \in Seq(Instrs) /\ Len(<<ret>>) = 1 /\ <<ret>>[1] = ret
      BY <1>8
    <2> DEFINE one == <<ret>>
    <2>2. one \in Seq(Instrs) /\ Len(one) = 1 /\ one[1] = ret
      BY <2>1
    <2> HIDE DEF one
    <2>3. /\ all \o one \in Seq(Instrs) /\ Len(all \o one) = Len(all) + Len(one)
          /\ \A k \in 1..(Len(all) + Len(one)) : (all \o one)[k] = IF k <= Len(all) THEN all[k] ELSE one[k - Len(all)]
      BY <1>6, <2>2, ConcatProperties
    <2>4. /\ 10 * n + 1 \in 1..(10 * n + 1) /\ ~(10 * n + 1 <= 10 * n) /\ (10 * n + 1) - 10 * n = 1
          /\ \A k \in 1..(10 * n) : k \in 1..(10 * n + 1) /\ k <= 10 * n
      BY <1>1
    <2>5. /\ all \o one \in Seq(Instrs) /\ Len(all \o one) = 10 * n + 1 /\ (all \o one)[10 * n + 1] = ret
          /\ \A k \in 1..(10 * n) : (all \o one)[k] = all[k]
      BY <1>7, <2>2, <2>3, <2>4
    <2> QED BY <2>5 DEF one
  <1> HIDE DEF c
  <1>11. ASSUME NEW i \in 1..n PROVE IsBody(c, 10 * (i - 1), OffsetOf(i), SizeOf(i))
    <2>1. i - 1 \in 0..n /\ 10 * (i - 1) + 10 <= 10 * n /\ 10 * (i - 1) \in Nat
      BY <1>1, <1>11
    <2> DEFINE at == 10 * (i - 1)
               p == parts[i]
    <2>2. place[i - 1] = at /\ Len(p) = 10 /\ IsBody(p, 0, OffsetOf(i), SizeOf(i))
      BY <1>2, <1>3, <1>4, <1>11, <2>1
    <2>3. at \in Nat /\ at + 10 <= 10 * n /\ \A j \in 1..10 : all[at + j] = p[j]
      BY <1>6, <1>11, <2>1, <2>2
    <2> HIDE DEF at, p
    <2>4. \A j \in 1..10 : c[at + j] = p[j]
      <3>1. \A j \in 1..10 : at + j \in 1..(10 * n)
        BY <1>1, <2>3
      <3> QED BY <1>10, <2>3, <3>1
    <2>5. IsBody(c, at, OffsetOf(i), SizeOf(i))
      <3>1. /\ 1 \in 1..10 /\ 2 \in 1..10 /\ 3 \in 1..10 /\ 4 \in 1..10 /\ 5 \in 1..10
            /\ 6 \in 1..10 /\ 7 \in 1..10 /\ 8 \in 1..10 /\ 9 \in 1..10 /\ 10 \in 1..10
        OBVIOUS
      <3>2. /\ p[1] = Relro!I("mov", "addr", OffsetOf(i), 10, 2) /\ p[2] = Relro!I("lea", "len", 0, 7, 3)
            /\ p[3] = Relro!I("add", "len", 0, 3, 0) /\ p[4] = Relro!I("mov", "len", SizeOf(i), 7, 3)
            /\ p[5] = Relro!I("mov", "prot", 1, 7, 3) /\ p[6] = Relro!I("mov", "nr", 10, 5, 1)
            /\ p[7] = Relro!I("syscall", "nr", 0, 2, 0) /\ p[8] = Relro!I("test", "nr", 0, 2, 0)
            /\ p[9] = Relro!I("jz", "nr", 2, 2, 1) /\ p[10] = Relro!I("ud2", "nr", 0, 2, 0)
        BY <2>2 DEF IsBody
      <3> QED BY <2>4, <3>1, <3>2 DEF IsBody
    <2> QED BY <2>5 DEF at
  <1> QED BY <1>9, <1>10, <1>11 DEF CodeIs, n

\* Where the instructions of a region are, from where the first one is.
LEMMA BlockLengths ==
    ASSUME NEW c \in Seq(Instrs), NEW at \in Nat, at + 10 <= Len(c), NEW o, NEW s, IsBody(c, at, o, s),
           NEW b \in Int, Relro!Before(c, at + 1) = b
    PROVE  /\ Relro!Before(c, at + 2) = b + 10 /\ Relro!Before(c, at + 3) = b + 17
           /\ Relro!Before(c, at + 4) = b + 20 /\ Relro!Before(c, at + 5) = b + 27
           /\ Relro!Before(c, at + 6) = b + 34 /\ Relro!Before(c, at + 7) = b + 39
           /\ Relro!Before(c, at + 8) = b + 41 /\ Relro!Before(c, at + 9) = b + 43
           /\ Relro!Before(c, at + 10) = b + 45 /\ Relro!Before(c, at + 11) = b + 47
  <1>1. Len(c) \in Nat /\ DOMAIN c = 1..Len(c) /\ \A k \in 1..Len(c) : c[k].len \in Int
    <2>1. \A k \in 1..Len(c) : c[k] \in Instrs
      BY ElementOfSeq
    <2>2. \A x \in Instrs : x.len \in Int
      BY DEF Instrs
    <2> QED BY <2>1, <2>2
  <1>2. \A k \in 1..Len(c) : Relro!Before(c, k + 1) = Relro!Before(c, k) + c[k].len
    BY <1>1, BeforeGrows
  <1>3. /\ c[at + 1].len = 10 /\ c[at + 2].len = 7 /\ c[at + 3].len = 3 /\ c[at + 4].len = 7
        /\ c[at + 5].len = 7 /\ c[at + 6].len = 5 /\ c[at + 7].len = 2 /\ c[at + 8].len = 2
        /\ c[at + 9].len = 2 /\ c[at + 10].len = 2
    BY DEF IsBody, Relro!I
  <1> DEFINE B(j) == Relro!Before(c, at + j)
             l(j) == c[at + j].len
  <1>4. \A j \in 1..10 : B(j + 1) = B(j) + l(j)
    <2> TAKE j \in 1..10
    <2>1. at + j \in 1..Len(c) /\ (at + j) + 1 = at + (j + 1)
      BY <1>1
    <2> QED BY <1>2, <2>1
  <1>5. /\ B(2) = B(1) + l(1) /\ B(3) = B(2) + l(2) /\ B(4) = B(3) + l(3) /\ B(5) = B(4) + l(4)
        /\ B(6) = B(5) + l(5) /\ B(7) = B(6) + l(6) /\ B(8) = B(7) + l(7) /\ B(9) = B(8) + l(8)
        /\ B(10) = B(9) + l(9) /\ B(11) = B(10) + l(10)
    <2> HIDE DEF B, l
    <2>1. /\ 1 \in 1..10 /\ 2 \in 1..10 /\ 3 \in 1..10 /\ 4 \in 1..10 /\ 5 \in 1..10
          /\ 6 \in 1..10 /\ 7 \in 1..10 /\ 8 \in 1..10 /\ 9 \in 1..10 /\ 10 \in 1..10
          /\ 1 + 1 = 2 /\ 2 + 1 = 3 /\ 3 + 1 = 4 /\ 4 + 1 = 5 /\ 5 + 1 = 6
          /\ 6 + 1 = 7 /\ 7 + 1 = 8 /\ 8 + 1 = 9 /\ 9 + 1 = 10 /\ 10 + 1 = 11
      OBVIOUS
    <2> QED BY <1>4, <2>1
  <1>6. B(1) = b /\ l(1) = 10 /\ l(2) = 7 /\ l(3) = 3 /\ l(4) = 7 /\ l(5) = 7 /\ l(6) = 5
        /\ l(7) = 2 /\ l(8) = 2 /\ l(9) = 2 /\ l(10) = 2
    BY <1>3
  <1>7. /\ B(2) = b + 10 /\ B(3) = b + 17 /\ B(4) = b + 20 /\ B(5) = b + 27 /\ B(6) = b + 34
        /\ B(7) = b + 39 /\ B(8) = b + 41 /\ B(9) = b + 43 /\ B(10) = b + 45 /\ B(11) = b + 47
    <2> HIDE DEF B, l
    <2>1. B(2) = b + 10
      BY <1>5, <1>6
    <2>2. B(3) = b + 17
      BY <1>5, <1>6, <2>1
    <2>3. B(4) = b + 20
      BY <1>5, <1>6, <2>2
    <2>4. B(5) = b + 27
      BY <1>5, <1>6, <2>3
    <2>5. B(6) = b + 34
      BY <1>5, <1>6, <2>4
    <2>6. B(7) = b + 39
      BY <1>5, <1>6, <2>5
    <2>7. B(8) = b + 41
      BY <1>5, <1>6, <2>6
    <2>8. B(9) = b + 43
      BY <1>5, <1>6, <2>7
    <2>9. B(10) = b + 45
      BY <1>5, <1>6, <2>8
    <2>10. B(11) = b + 47
      BY <1>5, <1>6, <2>9
    <2> QED BY <2>1, <2>2, <2>3, <2>4, <2>5, <2>6, <2>7, <2>8, <2>9, <2>10
  <1> QED BY <1>7

\* Its instructions.
LEMMA CodeTyped ==
    ASSUME InputOK, NEW c, CodeIs(c)
    PROVE  /\ c \in Seq(Instrs) /\ Len(c) = 10 * Relro!N + 1 /\ Relro!N \in Nat
           /\ DOMAIN c = 1..(10 * Relro!N + 1) /\ \A k \in 1..Len(c) : c[k].len \in Int
  <1>1. c \in Seq(Instrs) /\ Len(c) = 10 * Relro!N + 1 /\ Relro!N \in Nat
    BY InputTyped DEF CodeIs
  <1>2. \A k \in 1..Len(c) : c[k] \in Instrs
    BY <1>1, ElementOfSeq
  <1>3. \A x \in Instrs : x.len \in Int
    BY DEF Instrs
  <1> QED BY <1>1, <1>2, <1>3

\* The code of each region is 47 bytes behind that of the one before.
LEMMA BlocksAt ==
    ASSUME InputOK, NEW c, CodeIs(c)
    PROVE  \A i \in 0..Relro!N : Relro!Before(c, 10 * i + 1) = 47 * i
  <1> DEFINE n == Relro!N
             T == {i \in 0..n : Relro!Before(c, 10 * i + 1) = 47 * i}
  <1>1. /\ c \in Seq(Instrs) /\ Len(c) = 10 * n + 1 /\ n \in Nat
        /\ DOMAIN c = 1..Len(c) /\ \A k \in 1..Len(c) : c[k].len \in Int
    BY CodeTyped
  <1>2. 0 \in T
    <2>1. Relro!Before(c, 1) = 0
      BY <1>1, BeforeGrows
    <2>2. 10 * 0 + 1 = 1 /\ 47 * 0 = 0 /\ 0 \in 0..n
      BY <1>1
    <2> QED BY <2>1, <2>2
  <1>3. \A m \in 0..n : m \in T /\ m < n => m + 1 \in T
    <2>1. SUFFICES ASSUME NEW m \in 0..n, Relro!Before(c, 10 * m + 1) = 47 * m, m < n
                   PROVE  Relro!Before(c, 10 * (m + 1) + 1) = 47 * (m + 1)
      BY <1>1
    <2>2. m + 1 \in 1..n /\ (m + 1) - 1 = m /\ 10 * m \in Nat /\ 10 * m + 10 <= 10 * n + 1
          /\ 10 * (m + 1) + 1 = 10 * m + 11 /\ 47 * (m + 1) = 47 * m + 47 /\ 47 * m \in Int
      BY <1>1, <2>1
    <2> DEFINE at == 10 * m
               b == 47 * m
    <2>3. IsBody(c, at, OffsetOf(m + 1), SizeOf(m + 1))
      <3>1. IsBody(c, 10 * ((m + 1) - 1), OffsetOf(m + 1), SizeOf(m + 1))
        BY <2>2 DEF CodeIs
      <3> QED BY <2>2, <3>1
    <2>4. at \in Nat /\ b \in Int /\ at + 10 <= Len(c) /\ Relro!Before(c, at + 1) = b
      BY <1>1, <2>1, <2>2
    <2> HIDE DEF at, b
    <2>5. Relro!Before(c, at + 11) = b + 47
      BY <1>1, <2>3, <2>4, BlockLengths
    <2> QED BY <2>2, <2>5 DEF at, b
  <1> HIDE DEF T
  <1>4. 0..n \subseteq T
    BY <1>1, <1>2, <1>3, IntervalInduction
  <1> QED BY <1>4 DEF T

\* Where the instructions of region i are.
LEMMA InBlock ==
    ASSUME InputOK, NEW c, CodeIs(c), NEW i \in 1..Relro!N
    PROVE  /\ IsBody(c, 10 * (i - 1), OffsetOf(i), SizeOf(i))
           /\ Relro!Before(c, 10 * (i - 1) + 1) = 47 * (i - 1)
           /\ Relro!Before(c, 10 * (i - 1) + 2) = 47 * (i - 1) + 10
           /\ Relro!Before(c, 10 * (i - 1) + 3) = 47 * (i - 1) + 17
           /\ Relro!Before(c, 10 * (i - 1) + 4) = 47 * (i - 1) + 20
           /\ Relro!Before(c, 10 * (i - 1) + 5) = 47 * (i - 1) + 27
           /\ Relro!Before(c, 10 * (i - 1) + 6) = 47 * (i - 1) + 34
           /\ Relro!Before(c, 10 * (i - 1) + 7) = 47 * (i - 1) + 39
           /\ Relro!Before(c, 10 * (i - 1) + 8) = 47 * (i - 1) + 41
           /\ Relro!Before(c, 10 * (i - 1) + 9) = 47 * (i - 1) + 43
           /\ Relro!Before(c, 10 * (i - 1) + 10) = 47 * (i - 1) + 45
  <1>1. /\ c \in Seq(Instrs) /\ Len(c) = 10 * Relro!N + 1 /\ Relro!N \in Nat
    BY CodeTyped
  <1>2. i - 1 \in 0..Relro!N /\ 10 * (i - 1) \in Nat /\ 10 * (i - 1) + 10 <= 10 * Relro!N + 1
        /\ 47 * (i - 1) \in Int
    BY <1>1
  <1> DEFINE at == 10 * (i - 1)
             b == 47 * (i - 1)
  <1>3. IsBody(c, at, OffsetOf(i), SizeOf(i)) /\ Relro!Before(c, at + 1) = b
    BY <1>2, BlocksAt DEF CodeIs
  <1>4. at \in Nat /\ b \in Int /\ at + 10 <= Len(c)
    BY <1>1, <1>2
  <1> HIDE DEF at, b
  <1>5. /\ Relro!Before(c, at + 2) = b + 10 /\ Relro!Before(c, at + 3) = b + 17
        /\ Relro!Before(c, at + 4) = b + 20 /\ Relro!Before(c, at + 5) = b + 27
        /\ Relro!Before(c, at + 6) = b + 34 /\ Relro!Before(c, at + 7) = b + 39
        /\ Relro!Before(c, at + 8) = b + 41 /\ Relro!Before(c, at + 9) = b + 43
        /\ Relro!Before(c, at + 10) = b + 45
    BY <1>1, <1>3, <1>4, BlockLengths
  <1> QED BY <1>3, <1>5 DEF at, b

\* Only the first instruction behind region i is where its jump goes.
LEMMA JumpGoes ==
    ASSUME InputOK, NEW c, CodeIs(c), NEW i \in 1..Relro!N
    PROVE  /\ 10 * i + 1 \in DOMAIN c /\ Relro!Before(c, 10 * i + 1) = 47 * i
           /\ \A k \in DOMAIN c : Relro!Before(c, k) = 47 * i => k = 10 * i + 1
  <1> DEFINE n == Relro!N
  <1>1. DOMAIN c = 1..(10 * n + 1) /\ n \in Nat
    BY CodeTyped
  <1>2. 10 * i + 1 \in DOMAIN c /\ Relro!Before(c, 10 * i + 1) = 47 * i
    BY <1>1, BlocksAt
  <1>3. ASSUME NEW k \in DOMAIN c, Relro!Before(c, k) = 47 * i PROVE k = 10 * i + 1
    <2>1. CASE k = 10 * n + 1
      <3>1. Relro!Before(c, k) = 47 * n
        BY <1>1, <2>1, BlocksAt
      <3> QED BY <1>1, <1>3, <2>1, <3>1
    <2>2. CASE k # 10 * n + 1
      <3> DEFINE m == ((k - 1) \div 10) + 1
                 j == ((k - 1) % 10) + 1
      <3>1. m \in 1..n /\ j \in 1..10 /\ k = 10 * (m - 1) + j
        <4>1. k \in 1..(10 * n) /\ n \in Nat
          BY <1>1, <1>3, <2>2
        <4> QED BY <4>1, TensAndUnits
      <3> HIDE DEF m, j, n
      <3>2. \E d \in {0, 10, 17, 20, 27, 34, 39, 41, 43, 45} :
                Relro!Before(c, k) = 47 * (m - 1) + d /\ (d = 0 => j = 1)
        <4>0. m \in 1..Relro!N
          BY <3>1 DEF n
        <4>1. CASE j = 1
          BY <3>1, <4>0, <4>1, InBlock
        <4>2. CASE j = 2
          BY <3>1, <4>0, <4>2, InBlock
        <4>3. CASE j = 3
          BY <3>1, <4>0, <4>3, InBlock
        <4>4. CASE j = 4
          BY <3>1, <4>0, <4>4, InBlock
        <4>5. CASE j = 5
          BY <3>1, <4>0, <4>5, InBlock
        <4>6. CASE j = 6
          BY <3>1, <4>0, <4>6, InBlock
        <4>7. CASE j = 7
          BY <3>1, <4>0, <4>7, InBlock
        <4>8. CASE j = 8
          BY <3>1, <4>0, <4>8, InBlock
        <4>9. CASE j = 9
          BY <3>1, <4>0, <4>9, InBlock
        <4>10. CASE j = 10
          BY <3>1, <4>0, <4>10, InBlock
        <4>11. j \in {1, 2, 3, 4, 5, 6, 7, 8, 9, 10}
          BY <3>1
        <4> QED BY <4>1, <4>2, <4>3, <4>4, <4>5, <4>6, <4>7, <4>8, <4>9, <4>10, <4>11
      <3>3. PICK d \in {0, 10, 17, 20, 27, 34, 39, 41, 43, 45} :
                47 * i = 47 * (m - 1) + d /\ (d = 0 => j = 1)
        BY <1>3, <3>2
      <3>4. m \in Int /\ i \in Int
        BY <1>1, <3>1 DEF n
      <3>5. d = 0 /\ i = m - 1
        BY <3>3, <3>4
      <3> QED BY <3>1, <3>3, <3>4, <3>5
    <2> QED BY <2>1, <2>2
  <1> QED BY <1>2, <1>3

\* The code is as long as MprotectSize says.
LEMMA SizeOfCode ==
    ASSUME InputOK, NEW c, CodeIs(c)
    PROVE  Relro!Bytes(c) = 47 * Relro!N + 1
  <1>1. /\ c \in Seq(Instrs) /\ Len(c) = 10 * Relro!N + 1 /\ Relro!N \in Nat
        /\ DOMAIN c = 1..Len(c) /\ \A k \in 1..Len(c) : c[k].len \in Int
    BY CodeTyped
  <1>2. Relro!Before(c, 10 * Relro!N + 1) = 47 * Relro!N
    BY <1>1, BlocksAt
  <1>3. c[10 * Relro!N + 1].len = 1
    BY DEF CodeIs, Relro!I
  <1> DEFINE k == 10 * Relro!N + 1
  <1>4. k \in 1..Len(c) /\ Len(c) = k
    BY <1>1
  <1>5. Relro!Before(c, k + 1) = Relro!Before(c, k) + c[k].len
    <2> HIDE DEF k
    <2> QED BY <1>1, <1>4, BeforeGrows
  <1> QED BY <1>1, <1>2, <1>3, <1>4, <1>5 DEF Relro!Bytes

\* What the aarch64 code of a region is made of.
OpOfArm(j) ==
    CASE j \in (1..4) \cup (7..10) -> "movk"
      [] j = 5 -> "adr" [] j = 6 -> "add" [] j \in 11..12 -> "mov" [] j = 13 -> "svc"

IsArmBody(c, at) ==
    /\ \A j \in 1..13 : c[at + j].op = OpOfArm(j) /\ c[at + j].len = 4
    /\ \A j \in 1..13 : OpOfArm(j) = "movk" => c[at + j].at \in 0..3
    /\ c[at + 12].reg = "nr" /\ c[at + 12].imm = 10

ArmCodeIs(c) ==
    /\ c \in Seq(Instrs) /\ Len(c) = 13 * Relro!N + 1
    /\ \A i \in 1..Relro!N : IsArmBody(c, 13 * (i - 1))
    /\ c[13 * Relro!N + 1].op = "ret" /\ c[13 * Relro!N + 1].len = 4

\* The four pieces of a register.
LEMMA UnitsTyped ==
    /\ Piece \in Nat \ {0} /\ \A k \in 1..4 : Relro!Units[k] \in Nat \ {0}
  <1>1. Piece \in Nat \ {0}
    BY OutputUseAssumption DEF Relro!WidthAssumption
  <1> DEFINE p == Piece * Piece
             q == p * Piece
  <1>2. p \in Nat \ {0}
    BY <1>1
  <1>3. q \in Nat \ {0}
    <2> HIDE DEF p
    <2> QED BY <1>1, <1>2
  <1>4. Relro!Units[1] = 1 /\ Relro!Units[2] = Piece /\ Relro!Units[3] = p /\ Relro!Units[4] = q
    BY DEF Relro!Units
  <1> HIDE DEF p, q
  <1>5. ASSUME NEW k \in 1..4 PROVE Relro!Units[k] \in Nat \ {0}
    <2>1. k \in {1, 2, 3, 4}
      OBVIOUS
    <2> QED BY <1>1, <1>2, <1>3, <1>4, <2>1
  <1> QED BY <1>1, <1>5

\* Four movk.
LEMMA ImmediateTyped ==
    ASSUME NEW v \in Int, NEW r \in Relro!Regs
    PROVE  /\ Relro!SetImmediate(v, r) \in Seq(Instrs) /\ Len(Relro!SetImmediate(v, r)) = 4
           /\ \A k \in 1..4 : /\ Relro!SetImmediate(v, r)[k].op = "movk"
                              /\ Relro!SetImmediate(v, r)[k].len = 4
                              /\ Relro!SetImmediate(v, r)[k].at \in 0..3
  <1> DEFINE s == Relro!SetImmediate(v, r)
             imm(k) == (v \div Relro!Units[k]) % Piece
             ins(k) == [op |-> "movk", reg |-> r, imm |-> imm(k), len |-> 4, at |-> k - 1]
  <1>1. s = [k \in 1..4 |-> ins(k)]
    BY DEF Relro!SetImmediate
  <1>2. \A k \in 1..4 : imm(k) \in Int
    <2> TAKE k \in 1..4
    <2> DEFINE u == Relro!Units[k]
    <2>1. u \in Nat \ {0} /\ Piece \in Nat \ {0}
      BY UnitsTyped
    <2> HIDE DEF u
    <2>2. (v \div u) % Piece \in Int
      BY <2>1
    <2> QED BY <2>2 DEF u
  <1> HIDE DEF imm
  <1>3. \A k \in 1..4 : ins(k) \in Instrs
    BY <1>2 DEF Instrs, Ops
  <1>4. \A k \in 1..4 : ins(k).op = "movk" /\ ins(k).len = 4 /\ ins(k).at \in 0..3
    OBVIOUS
  <1> HIDE DEF ins
  <1>5. s \in [1..4 -> Instrs] /\ \A k \in 1..4 : s[k] = ins(k)
    BY <1>1, <1>3
  <1> HIDE DEF s
  <1>6. s \in Seq(Instrs)
    BY <1>5, SeqDef
  <1>7. Len(s) = 4
    <2>1. DOMAIN s = 1..4
      BY <1>5
    <2> QED BY <1>6, <2>1
  <1> QED BY <1>4, <1>5, <1>6, <1>7 DEF s

Glued(all, s, t, n) ==
    /\ all \in Seq(Instrs) /\ Len(all) = n
    /\ \A k \in 1..n : all[k] = IF k <= Len(s) THEN s[k] ELSE t[k - Len(s)]

\* Two sequences of instructions.
LEMMA Glue ==
    ASSUME NEW s \in Seq(Instrs), NEW t \in Seq(Instrs), NEW n \in Nat, n = Len(s) + Len(t)
    PROVE  Glued(s \o t, s, t, n)
  <1>1. /\ s \o t \in Seq(Instrs) /\ Len(s \o t) = Len(s) + Len(t)
        /\ \A k \in 1..(Len(s) + Len(t)) : (s \o t)[k] = IF k <= Len(s) THEN s[k] ELSE t[k - Len(s)]
    BY ConcatProperties
  <1> QED BY <1>1 DEF Glued

\* The aarch64 code of one region.
LEMMA ArmBodyGives ==
    ASSUME InputOK, NEW i \in 1..Relro!N
    PROVE  /\ Relro!BodyAarch64(i) \in Seq(Instrs) /\ Len(Relro!BodyAarch64(i)) = 13
           /\ IsArmBody(Relro!BodyAarch64(i), 0)
  <1> DEFINE v == input.regions[i].vaddr - (input.code + Relro!body_code_length_aarch64 + 5 * 4)
             m == Relro!Size32(input.regions[i])
             a == Relro!SetImmediate(v, "addr")
             b == <<Relro!I("adr", "tmp", 0, 4, 0), Relro!I("add", "tmp", 0, 4, 0)>>
             c == Relro!SetImmediate(m, "len")
             d == <<Relro!I("mov", "prot", 1, 4, 0), Relro!I("mov", "nr", 10, 4, 0), Relro!I("svc", "nr", 0, 4, 0)>>
  <1>1. v \in Int /\ m \in Int
    <2>1. input.regions[i].vaddr \in Nat /\ input.regions[i].memsz \in Nat
      BY InputTyped
    <2>2. input.code \in Nat /\ Relro!body_code_length_aarch64 = 52
      BY DEF InputOK, Relro!body_code_length_aarch64
    <2>3. Relro!Dword \in Nat \ {0}
      BY DwordTyped
    <2> DEFINE w == Relro!Dword
               x == input.regions[i].memsz
    <2>4. m = x % w /\ x \in Nat /\ w \in Nat \ {0}
      BY <2>1, <2>3 DEF Relro!Size32
    <2> HIDE DEF w, x, m
    <2>5. m \in Int
      BY <2>4
    <2> QED BY <2>1, <2>2, <2>5
  <1>2. "addr" \in Relro!Regs /\ "len" \in Relro!Regs
    BY DEF Relro!Regs
  <1>3. Relro!BodyAarch64(i) = a \o b \o c \o d
    BY DEF Relro!BodyAarch64
  <1> HIDE DEF v, m
  <1>4. /\ a \in Seq(Instrs) /\ Len(a) = 4 /\ c \in Seq(Instrs) /\ Len(c) = 4
        /\ \A k \in 1..4 : a[k].op = "movk" /\ a[k].len = 4 /\ a[k].at \in 0..3
        /\ \A k \in 1..4 : c[k].op = "movk" /\ c[k].len = 4 /\ c[k].at \in 0..3
    BY <1>1, <1>2, ImmediateTyped
  <1> HIDE DEF a, c
  <1>5. /\ \A r \in Relro!Regs, o \in Ops, n \in {0, 1, 10} : Relro!I(o, r, n, 4, 0) \in Instrs
        /\ "tmp" \in Relro!Regs /\ "prot" \in Relro!Regs /\ "nr" \in Relro!Regs
        /\ "adr" \in Ops /\ "add" \in Ops /\ "mov" \in Ops /\ "svc" \in Ops
    BY DEF Relro!I, Instrs, Relro!Regs, Ops
  <1>6. b \in Seq(Instrs) /\ Len(b) = 2 /\ b[1] = Relro!I("adr", "tmp", 0, 4, 0) /\ b[2] = Relro!I("add", "tmp", 0, 4, 0)
    BY <1>5
  <1>7. /\ d \in Seq(Instrs) /\ Len(d) = 3 /\ d[1] = Relro!I("mov", "prot", 1, 4, 0)
        /\ d[2] = Relro!I("mov", "nr", 10, 4, 0) /\ d[3] = Relro!I("svc", "nr", 0, 4, 0)
    BY <1>5
  <1> HIDE DEF b, d
  <1>8. /\ a \o b \in Seq(Instrs) /\ Len(a \o b) = 6
        /\ \A k \in 1..6 : (a \o b)[k] = IF k <= 4 THEN a[k] ELSE b[k - 4]
    <2>0. a \in Seq(Instrs) /\ b \in Seq(Instrs) /\ 6 \in Nat /\ 6 = Len(a) + Len(b)
      BY <1>4, <1>6
    <2>1. Glued(a \o b, a, b, 6)
      BY <2>0, Glue
    <2> QED BY <1>4, <2>1 DEF Glued
  <1> DEFINE e == a \o b
             f == e \o c
             g == f \o d
  <1>9. /\ e \in Seq(Instrs) /\ Len(e) = 6 /\ \A k \in 1..6 : e[k] = IF k <= 4 THEN a[k] ELSE b[k - 4]
    BY <1>8
  <1> HIDE DEF e
  <1>10. /\ f \in Seq(Instrs) /\ Len(f) = 10 /\ \A k \in 1..10 : f[k] = IF k <= 6 THEN e[k] ELSE c[k - 6]
    <2>0. e \in Seq(Instrs) /\ c \in Seq(Instrs) /\ 10 \in Nat /\ 10 = Len(e) + Len(c)
      BY <1>4, <1>9
    <2>1. Glued(e \o c, e, c, 10)
      BY <2>0, Glue
    <2> QED BY <1>9, <2>1 DEF Glued
  <1> HIDE DEF f
  <1>11. /\ g \in Seq(Instrs) /\ Len(g) = 13 /\ \A k \in 1..13 : g[k] = IF k <= 10 THEN f[k] ELSE d[k - 10]
    <2>0. f \in Seq(Instrs) /\ d \in Seq(Instrs) /\ 13 \in Nat /\ 13 = Len(f) + Len(d)
      BY <1>7, <1>10
    <2>1. Glued(f \o d, f, d, 13)
      BY <2>0, Glue
    <2> QED BY <1>10, <2>1 DEF Glued
  <1>12. Relro!BodyAarch64(i) = g
    BY <1>3 DEF e, f
  <1> HIDE DEF g
  <1>13. /\ g[1] = a[1] /\ g[2] = a[2] /\ g[3] = a[3] /\ g[4] = a[4] /\ g[5] = b[1] /\ g[6] = b[2]
         /\ g[7] = c[1] /\ g[8] = c[2] /\ g[9] = c[3] /\ g[10] = c[4]
         /\ g[11] = d[1] /\ g[12] = d[2] /\ g[13] = d[3]
    BY <1>9, <1>10, <1>11
  <1>14. ASSUME NEW j \in 1..13
         PROVE  g[j].op = OpOfArm(j) /\ g[j].len = 4 /\ (OpOfArm(j) = "movk" => g[j].at \in 0..3)
    <2>1. CASE j \in 1..4
      <3>1. j \in {1, 2, 3, 4}
        BY <2>1
      <3> QED BY <1>4, <1>13, <3>1 DEF OpOfArm
    <2>2. CASE j \in 5..6
      <3>1. j = 5 \/ j = 6
        BY <2>2
      <3> QED BY <1>6, <1>13, <3>1 DEF OpOfArm, Relro!I
    <2>3. CASE j \in 7..10
      <3>1. j \in {7, 8, 9, 10}
        BY <2>3
      <3>2. g[j] \in {c[1], c[2], c[3], c[4]}
        BY <1>13, <3>1
      <3>3. \A x \in {c[1], c[2], c[3], c[4]} : x.op = "movk" /\ x.len = 4 /\ x.at \in 0..3
        BY <1>4
      <3>4. OpOfArm(j) = "movk"
        BY <3>1 DEF OpOfArm
      <3> QED BY <3>2, <3>3, <3>4
    <2>4. CASE j \in 11..13
      <3>1. j = 11 \/ j = 12 \/ j = 13
        BY <2>4
      <3> QED BY <1>7, <1>13, <3>1 DEF OpOfArm, Relro!I
    <2> QED BY <1>14, <2>1, <2>2, <2>3, <2>4
  <1>15. g[12].reg = "nr" /\ g[12].imm = 10
    BY <1>7, <1>13 DEF Relro!I
  <1>16. \A j \in 1..13 : 0 + j = j
    OBVIOUS
  <1>17. IsArmBody(g, 0)
    BY <1>14, <1>15, <1>16 DEF IsArmBody
  <1> QED BY <1>11, <1>12, <1>17

\* A body put behind `at' is a body there.
LEMMA ArmBodyMoved ==
    ASSUME NEW p, NEW c, NEW at \in Nat, IsArmBody(p, 0), \A j \in 1..13 : c[at + j] = p[j]
    PROVE  IsArmBody(c, at)
  <1>1. /\ \A j \in 1..13 : p[j].op = OpOfArm(j) /\ p[j].len = 4
        /\ \A j \in 1..13 : OpOfArm(j) = "movk" => p[j].at \in 0..3
        /\ p[12].reg = "nr" /\ p[12].imm = 10
    <2>1. \A j \in 1..13 : 0 + j = j
      OBVIOUS
    <2>2. 12 \in 1..13
      OBVIOUS
    <2> QED BY <2>1, <2>2 DEF IsArmBody
  <1> QED BY <1>1 DEF IsArmBody

\* The code that Emit writes on aarch64.
LEMMA EmittedArm == ASSUME InputOK PROVE ArmCodeIs(Relro!EmitAarch64)
  <1> DEFINE n == Relro!N
             parts == [i \in 1..n |-> Relro!BodyAarch64(i)]
             place == [i \in 0..n |-> 13 * i]
             all == Relro!Concat(parts)
             ret == Relro!I("ret", "nr", 0, 4, 0)
  <1>1. n \in Nat
    BY InputTyped
  <1>2. \A i \in 1..n : /\ Relro!BodyAarch64(i) \in Seq(Instrs) /\ Len(Relro!BodyAarch64(i)) = 13
                        /\ IsArmBody(Relro!BodyAarch64(i), 0)
    BY ArmBodyGives
  <1>3. parts \in [1..n -> Seq(Instrs)] /\ \A i \in 1..n : parts[i] = Relro!BodyAarch64(i)
    BY <1>2
  <1>4. place \in [0..n -> Nat] /\ \A i \in 0..n : place[i] = 13 * i
    BY <1>1
  <1> HIDE DEF n, parts, place
  <1>5. Placed(n, parts, place)
    <2>1. 0 \in 0..n /\ \A i \in 1..n : i \in 0..n /\ i - 1 \in 0..n
      BY <1>1
    <2>2. \A i \in 1..n : Len(parts[i]) = 13
      BY <1>2, <1>3
    <2>3. place[0] = 0
      BY <1>4, <2>1
    <2>4. \A i \in 1..n : place[i] = place[i - 1] + 13
      BY <1>1, <1>4, <2>1
    <2> QED BY <2>2, <2>3, <2>4 DEF Placed
  <1>6. /\ all \in Seq(Instrs) /\ Len(all) = place[n]
        /\ \A i \in 1..n : \A j \in 1..Len(parts[i]) : all[place[i - 1] + j] = parts[i][j]
    <2>1. Follows(Relro!Concat(parts), n, Instrs, parts, place)
      BY <1>1, <1>3, <1>4, <1>5, ConcatGives
    <2> QED BY <2>1 DEF Follows
  <1> HIDE DEF all
  <1>7. Len(all) = 13 * n
    <2>1. n \in 0..n
      BY <1>1
    <2> QED BY <1>4, <1>6, <2>1
  <1>8. ret \in Instrs /\ ret.op = "ret" /\ ret.len = 4
    BY DEF Relro!I, Instrs, Ops, Relro!Regs
  <1> DEFINE c == all \o <<ret>>
  <1>9. Relro!EmitAarch64 = c
    BY DEF Relro!EmitAarch64, all, parts, n
  <1>10. /\ c \in Seq(Instrs) /\ Len(c) = 13 * n + 1 /\ c[13 * n + 1] = ret
         /\ \A k \in 1..(13 * n) : c[k] = all[k]
    <2> HIDE DEF ret
    <2>1. <<ret>> \in Seq(Instrs) /\ Len(<<ret>>) = 1 /\ <<ret>>[1] = ret
      BY <1>8
    <2> DEFINE one == <<ret>>
    <2>2. one \in Seq(Instrs) /\ Len(one) = 1 /\ one[1] = ret
      BY <2>1
    <2> HIDE DEF one
    <2>3. all \in Seq(Instrs) /\ one \in Seq(Instrs) /\ 13 * n + 1 \in Nat /\ 13 * n + 1 = Len(all) + Len(one)
      BY <1>1, <1>6, <1>7, <2>2
    <2>4. Glued(all \o one, all, one, 13 * n + 1)
      BY <2>3, Glue
    <2>5. /\ 13 * n + 1 \in 1..(13 * n + 1) /\ ~(13 * n + 1 <= 13 * n) /\ (13 * n + 1) - 13 * n = 1
          /\ \A k \in 1..(13 * n) : k \in 1..(13 * n + 1) /\ k <= 13 * n
      BY <1>1
    <2>6. /\ all \o one \in Seq(Instrs) /\ Len(all \o one) = 13 * n + 1 /\ (all \o one)[13 * n + 1] = ret
          /\ \A k \in 1..(13 * n) : (all \o one)[k] = all[k]
      BY <1>7, <2>2, <2>4, <2>5 DEF Glued
    <2> QED BY <2>6 DEF one
  <1> HIDE DEF c
  <1>11. ASSUME NEW i \in 1..n PROVE IsArmBody(c, 13 * (i - 1))
    <2>1. i - 1 \in 0..n /\ 13 * (i - 1) + 13 <= 13 * n /\ 13 * (i - 1) \in Nat
      BY <1>1, <1>11
    <2> DEFINE at == 13 * (i - 1)
               p == parts[i]
    <2>2. place[i - 1] = at /\ Len(p) = 13 /\ IsArmBody(p, 0)
      BY <1>2, <1>3, <1>4, <1>11, <2>1
    <2>3. at \in Nat /\ at + 13 <= 13 * n /\ \A j \in 1..13 : all[at + j] = p[j]
      BY <1>6, <1>11, <2>1, <2>2
    <2> HIDE DEF at, p
    <2>4. \A j \in 1..13 : c[at + j] = p[j]
      <3>1. \A j \in 1..13 : at + j \in 1..(13 * n)
        BY <1>1, <2>3
      <3> QED BY <1>10, <2>3, <3>1
    <2>5. IsArmBody(c, at)
      BY <2>2, <2>3, <2>4, ArmBodyMoved
    <2> QED BY <2>5 DEF at
  <1> QED BY <1>8, <1>9, <1>10, <1>11 DEF ArmCodeIs, n

\* Every instruction of the aarch64 code has four bytes.
LEMMA SizeOfArmCode ==
    ASSUME InputOK, NEW c, ArmCodeIs(c)
    PROVE  Relro!Bytes(c) = 52 * Relro!N + 4
  <1> DEFINE n == Relro!N
             all == 13 * n + 1
  <1>1. n \in Nat /\ c \in Seq(Instrs) /\ Len(c) = all /\ all \in Nat /\ DOMAIN c = 1..all
    BY InputTyped DEF ArmCodeIs
  <1>2. ASSUME NEW k \in 1..all PROVE c[k].len = 4
    <2>1. CASE k = all
      BY <2>1 DEF ArmCodeIs
    <2>2. CASE k # all
      <3> DEFINE m == ((k - 1) \div 13) + 1
                 j == ((k - 1) % 13) + 1
      <3>1. m \in 1..n /\ j \in 1..13 /\ k = 13 * (m - 1) + j
        BY <1>1, <1>2, <2>2
      <3> HIDE DEF m, j
      <3>2. IsArmBody(c, 13 * (m - 1))
        BY <3>1 DEF ArmCodeIs
      <3> QED BY <3>1, <3>2 DEF IsArmBody
    <2> QED BY <2>1, <2>2
  <1> HIDE DEF all
  <1>3. /\ Relro!Before(c, 1) = 0
        /\ \A k \in 1..all : Relro!Before(c, k + 1) = Relro!Before(c, k) + 4
    <2>1. \A k \in 1..all : c[k].len \in Int
      BY <1>2
    <2>2. /\ Relro!Before(c, 1) = 0
          /\ \A k \in 1..all : Relro!Before(c, k + 1) = Relro!Before(c, k) + c[k].len
      BY <1>1, <2>1, BeforeGrows
    <2> QED BY <1>2, <2>2
  <1> DEFINE T == {k \in 0..all : Relro!Before(c, k + 1) = 4 * k}
  <1>4. 0 \in T
    <2>1. 0 + 1 = 1 /\ 4 * 0 = 0 /\ 0 \in 0..all
      BY <1>1
    <2> QED BY <1>3, <2>1
  <1>5. \A m \in 0..all : m \in T /\ m < all => m + 1 \in T
    <2>1. SUFFICES ASSUME NEW m \in 0..all, Relro!Before(c, m + 1) = 4 * m, m < all
                   PROVE  Relro!Before(c, (m + 1) + 1) = 4 * (m + 1)
      BY <1>1
    <2>2. m + 1 \in 1..all /\ 4 * (m + 1) = 4 * m + 4
      BY <1>1, <2>1
    <2> QED BY <1>3, <2>1, <2>2
  <1> HIDE DEF T
  <1>6. 0..all \subseteq T
    BY <1>1, <1>4, <1>5, IntervalInduction
  <1>7. Relro!Before(c, all + 1) = 4 * all
    <2>1. all \in 0..all
      BY <1>1
    <2> QED BY <1>6, <2>1 DEF T
  <1>8. 4 * all = 52 * n + 4
    BY <1>1 DEF all
  <1> QED BY <1>1, <1>7, <1>8 DEF Relro!Bytes

Width == Relro!Word

\* The modulus of a register.
LEMMA WidthTyped == Width \in Nat \ {0}
  <1>1. Piece \in Nat \ {0}
    BY UnitsTyped
  <1> DEFINE p == Piece * Piece
             q == p * Piece
  <1>2. p \in Nat \ {0}
    BY <1>1
  <1>3. q \in Nat \ {0}
    <2> HIDE DEF p
    <2> QED BY <1>1, <1>2
  <1>4. q * Piece \in Nat \ {0}
    <2> HIDE DEF q
    <2> QED BY <1>1, <1>3
  <1> QED BY <1>4 DEF Width, Relro!Word

\* The remainder is the only one.
LEMMA OneRemainder ==
    ASSUME NEW m \in Nat \ {0}, NEW q \in Int, NEW r \in 0..(m - 1)
    PROVE  (m * q + r) % m = r
  <1> DEFINE a == m * q + r
             p == a \div m
             s == a % m
  <1>0. a \in Int
    BY Z3
  <1>1. p \in Int /\ s \in 0..(m - 1) /\ a = m * p + s
    <2> HIDE DEF a
    <2> QED BY <1>0
  <1>2. m * p + s = m * q + r
    BY <1>1
  <1> HIDE DEF a, p, s
  <1>3. m * p \in Int /\ m * q \in Int
    BY <1>1
  <1>4. ~(p < q)
    <2> SUFFICES ASSUME p + 1 <= q PROVE FALSE
      BY <1>1
    <2>1. m * (p + 1) <= m * q
      BY <1>1
    <2>2. m * (p + 1) = m * p + m
      BY <1>1
    <2> QED BY <1>1, <1>2, <1>3, <2>1, <2>2
  <1>5. ~(q < p)
    <2> SUFFICES ASSUME q + 1 <= p PROVE FALSE
      BY <1>1
    <2>1. m * (q + 1) <= m * p
      BY <1>1
    <2>2. m * (q + 1) = m * q + m
      OBVIOUS
    <2> QED BY <1>1, <1>2, <1>3, <2>1, <2>2
  <1>6. p = q
    BY <1>1, <1>4, <1>5
  <1>7. s = r
    BY <1>1, <1>2, <1>3, <1>6
  <1> QED BY <1>7 DEF s, a

\* What fits in a register is its own remainder.
LEMMA Remainders ==
    ASSUME NEW m \in Nat \ {0}, NEW x \in Int
    PROVE  x % m \in 0..(m - 1) /\ (x \in 0..(m - 1) => x % m = x)
  <1>1. x % m \in 0..(m - 1)
    OBVIOUS
  <1>2. ASSUME x \in 0..(m - 1) PROVE x % m = x
    <2>1. m * 0 + x = x
      OBVIOUS
    <2> QED BY <1>2, <2>1, OneRemainder
  <1> QED BY <1>1, <1>2

\* Registers are added as the numbers they stand for.
LEMMA SumRemains ==
    ASSUME NEW m \in Nat \ {0}, NEW x \in Int, NEW y \in Int, x + y \in 0..(m - 1)
    PROVE  ((x % m) + (y % m)) % m = x + y
  <1> DEFINE p == x \div m
             r == x % m
             q == y \div m
             s == y % m
  <1>1. /\ p \in Int /\ r \in 0..(m - 1) /\ x = m * p + r
        /\ q \in Int /\ s \in 0..(m - 1) /\ y = m * q + s
    OBVIOUS
  <1> HIDE DEF p, r, q, s
  <1>2. r + s = m * (0 - (p + q)) + (x + y)
    <2>1. m * (0 - (p + q)) = 0 - (m * p + m * q)
      BY <1>1
    <2>2. m * p \in Int /\ m * q \in Int
      BY <1>1
    <2> QED BY <1>1, <2>1, <2>2
  <1>3. 0 - (p + q) \in Int
    BY <1>1
  <1>4. (m * (0 - (p + q)) + (x + y)) % m = x + y
    BY <1>3, OneRemainder
  <1> QED BY <1>2, <1>4 DEF r, s

Calls == [addr : Int, len : Int, nr : Int, failed : BOOLEAN]
RegsOK(rs) == rs \in [Relro!Regs -> 0..(Width - 1)]

ProtectTyped ==
    /\ machine \in Machines /\ InputOK /\ RegsOK(reg) /\ calls \in Seq(Calls)
    /\ code_pc \in {"add", "run", "returned", "trapped"}
    /\ code_pc = "add" => ip = 1 /\ readonly = {} /\ calls = <<>>

\* Which action the next instruction makes possible.
LEMMA ByOp ==
    ASSUME Relro!Next
    PROVE  \/ code_pc = "add" /\ Relro!Emit
           \/ /\ code_pc = "run"
              /\ \/ code[ip].op = "mov" /\ Relro!Mov
                 \/ code[ip].op = "movk" /\ Relro!Movk
                 \/ code[ip].op = "lea" /\ Relro!Lea
                 \/ code[ip].op = "adr" /\ Relro!Adr
                 \/ code[ip].op = "add" /\ Relro!AddReg
                 \/ code[ip].op = "syscall" /\ Relro!Syscall
                 \/ code[ip].op = "svc" /\ Relro!Svc
                 \/ code[ip].op = "test" /\ Relro!Test
                 \/ code[ip].op = "jz" /\ Relro!Jz
                 \/ code[ip].op = "ud2" /\ Relro!Ud2
                 \/ code[ip].op = "ret" /\ Relro!Ret
  <1>1. CASE Relro!Emit
    BY <1>1 DEF Relro!Emit, Relro!Running
  <1>2. CASE Relro!Mov
    BY <1>2 DEF Relro!Mov, Relro!Running
  <1>3. CASE Relro!Movk
    BY <1>3 DEF Relro!Movk, Relro!Running
  <1>4. CASE Relro!Lea
    BY <1>4 DEF Relro!Lea, Relro!Running
  <1>5. CASE Relro!Adr
    BY <1>5 DEF Relro!Adr, Relro!Running
  <1>6. CASE Relro!AddReg
    BY <1>6 DEF Relro!AddReg, Relro!Running
  <1>7. CASE Relro!Syscall
    BY <1>7 DEF Relro!Syscall, Relro!Running
  <1>8. CASE Relro!Svc
    BY <1>8 DEF Relro!Svc, Relro!Running
  <1>9. CASE Relro!Test
    BY <1>9 DEF Relro!Test, Relro!Running
  <1>10. CASE Relro!Jz
    BY <1>10 DEF Relro!Jz, Relro!Running
  <1>11. CASE Relro!Ud2
    BY <1>11 DEF Relro!Ud2, Relro!Running
  <1>12. CASE Relro!Ret
    BY <1>12 DEF Relro!Ret, Relro!Running
  <1> QED BY <1>1, <1>2, <1>3, <1>4, <1>5, <1>6, <1>7, <1>8, <1>9, <1>10, <1>11, <1>12 DEF Relro!Next

\* An instruction writes one register.
LEMMA RegSet ==
    ASSUME RegsOK(reg), NEW r \in Relro!Regs, NEW v \in Int, Relro!Set(r, v)
    PROVE  /\ RegsOK(reg') /\ reg'[r] = v % Width
           /\ \A s \in Relro!Regs : s # r => reg'[s] = reg[s]
  <1>1. v % Width \in 0..(Width - 1)
    BY WidthTyped, Remainders
  <1>2. reg' = [reg EXCEPT ![r] = v % Width]
    BY DEF Relro!Set, Width
  <1> QED BY <1>1, <1>2 DEF RegsOK

Quiet == UNCHANGED <<machine, input, base, code, readonly, calls, code_pc>>

\* What every instruction that only computes does.
LEMMA Computes ==
    ASSUME ProtectTyped, code \in Seq(Instrs), ip \in 1..Len(code),
           code[ip].op = "movk" => code[ip].at \in 0..3,
           \/ code[ip].op = "mov" /\ Relro!Mov
           \/ code[ip].op = "movk" /\ Relro!Movk
           \/ code[ip].op = "lea" /\ Relro!Lea
           \/ code[ip].op = "adr" /\ Relro!Adr
           \/ code[ip].op = "add" /\ Relro!AddReg
    PROVE  Quiet /\ ip' = ip + 1 /\ RegsOK(reg')
  <1>1. code[ip] \in Instrs
    BY ElementOfSeq
  <1> DEFINE ins == code[ip]
             r == ins.reg
             imm == ins.imm
  <1>2. r \in Relro!Regs /\ imm \in Int /\ "addr" \in Relro!Regs
    BY <1>1 DEF Instrs, Relro!Regs
  <1>3. reg[r] \in Int /\ reg["addr"] \in Int /\ RegsOK(reg)
    BY <1>2, WidthTyped DEF ProtectTyped, RegsOK
  <1>4. Relro!Address(ip) \in Int /\ Relro!Address(ip + 1) \in Int
    <2>1. \A k \in 1..Len(code) : code[k].len \in Int
      <3>1. \A k \in 1..Len(code) : code[k] \in Instrs
        BY ElementOfSeq
      <3>2. \A x \in Instrs : x.len \in Int
        BY DEF Instrs
      <3> QED BY <3>1, <3>2
    <2>2. Len(code) \in Nat /\ DOMAIN code = 1..Len(code)
      OBVIOUS
    <2>3. \A k \in 1..Len(code) : /\ Relro!Before(code, k) \in Int
                                  /\ Relro!Before(code, k + 1) = Relro!Before(code, k) + code[k].len
      BY <2>1, <2>2, BeforeGrows
    <2>4. Relro!Before(code, ip) \in Int /\ Relro!Before(code, ip + 1) \in Int
      BY <2>1, <2>3
    <2>5. base + input.code \in Int
      BY DEF ProtectTyped, InputOK
    <2> QED BY <2>4, <2>5 DEF Relro!Address
  <1> HIDE DEF imm, r
  <1>5. CASE Relro!Mov
    <2> DEFINE v == IF ins.len = 7 THEN Relro!SignExtended(imm) ELSE imm
    <2>1. Relro!Set(r, v) /\ Quiet /\ ip' = ip + 1
      BY <1>5 DEF Relro!Mov, Relro!Ins, Relro!Step, Relro!loaded, Quiet, r, imm
    <2>2. v \in Int
      BY <1>2, DwordTyped DEF Relro!SignExtended
    <2> HIDE DEF v
    <2> QED BY <1>2, <1>3, <2>1, <2>2, RegSet
  <1>6. CASE code[ip].op = "movk" /\ Relro!Movk
    <2> DEFINE unit == Relro!Units[ins.at + 1]
               old == (reg[r] \div unit) % Piece
               v == reg[r] + (imm - old) * unit
    <2>1. unit \in Nat \ {0}
      <3>1. ins.at + 1 \in 1..4
        BY <1>6
      <3> QED BY <3>1, UnitsTyped
    <2>2. Relro!Set(r, v) /\ Quiet /\ ip' = ip + 1
      BY <1>6 DEF Relro!Movk, Relro!Ins, Relro!Step, Relro!loaded, Quiet, r, imm
    <2> HIDE DEF unit
    <2>3. old \in Int
      <3> DEFINE q == reg[r] \div unit
      <3>1. q \in Int /\ Piece \in Nat \ {0}
        BY <1>3, <2>1, UnitsTyped
      <3> HIDE DEF q
      <3>2. q % Piece \in Int
        BY <3>1
      <3> QED BY <3>2 DEF q
    <2> HIDE DEF old
    <2>4. v \in Int
      BY <1>2, <1>3, <2>1, <2>3
    <2> HIDE DEF v
    <2> QED BY <1>2, <1>3, <2>2, <2>4, RegSet
  <1>7. CASE Relro!Lea
    <2>1. Relro!Set(r, Relro!Address(ip + 1)) /\ Quiet /\ ip' = ip + 1
      BY <1>7 DEF Relro!Lea, Relro!Ins, Relro!Step, Relro!loaded, Quiet, r, imm
    <2> QED BY <1>2, <1>3, <1>4, <2>1, RegSet
  <1>8. CASE Relro!Adr
    <2>1. Relro!Set(r, Relro!Address(ip)) /\ Quiet /\ ip' = ip + 1
      BY <1>8 DEF Relro!Adr, Relro!Ins, Relro!Step, Relro!loaded, Quiet, r, imm
    <2> QED BY <1>2, <1>3, <1>4, <2>1, RegSet
  <1>9. CASE Relro!AddReg
    <2> DEFINE v == reg["addr"] + reg[r]
    <2>1. Relro!Set("addr", v) /\ Quiet /\ ip' = ip + 1
      BY <1>9 DEF Relro!AddReg, Relro!Ins, Relro!Step, Relro!loaded, Quiet, r, imm
    <2>2. v \in Int
      BY <1>3
    <2> HIDE DEF v
    <2> QED BY <1>2, <1>3, <2>1, <2>2, RegSet
  <1> QED BY <1>5, <1>6, <1>7, <1>8, <1>9

\* A call is recorded behind the others.
LEMMA CallMade ==
    ASSUME ProtectTyped, NEW r \in Relro!Regs, Relro!Called(r), RegsOK(reg')
    PROVE  /\ calls' \in Seq(Calls) /\ Len(calls') = Len(calls) + 1
           /\ \A k \in 1..Len(calls) : calls'[k] = calls[k]
           /\ calls'[Len(calls) + 1].addr = reg["addr"] /\ calls'[Len(calls) + 1].len = reg["len"]
           /\ calls'[Len(calls) + 1].failed = (reg'[r] # 0)
  <1> DEFINE call == [addr |-> reg["addr"], len |-> reg["len"], nr |-> reg["nr"], failed |-> reg'[r] # 0]
  <1>1. calls' = Append(calls, call)
    BY DEF Relro!Called
  <1>2. call \in Calls
    <2>1. reg["addr"] \in Int /\ reg["len"] \in Int /\ reg["nr"] \in Int
      BY WidthTyped DEF ProtectTyped, RegsOK, Relro!Regs
    <2> QED BY <2>1 DEF Calls
  <1>3. call.addr = reg["addr"] /\ call.len = reg["len"] /\ call.failed = (reg'[r] # 0)
    OBVIOUS
  <1>4. calls \in Seq(Calls)
    BY DEF ProtectTyped
  <1> HIDE DEF call
  <1>5. /\ calls' \in Seq(Calls) /\ Len(calls') = Len(calls) + 1
        /\ \A k \in 1..Len(calls) : calls'[k] = calls[k] /\ calls'[Len(calls) + 1] = call
    BY <1>1, <1>2, <1>4, AppendProperties
  <1>6. calls'[Len(calls) + 1] = call
    BY <1>1, <1>2, <1>4, AppendProperties
  <1> QED BY <1>3, <1>5, <1>6

\* The aarch64 code: where it is, and that it has protected nothing.
ArmAt(i, j) ==
    /\ i \in 1..(Relro!N + 1) /\ j \in 1..13 /\ ip = 13 * (i - 1) + j
    /\ i = Relro!N + 1 => j = 1
    /\ Len(calls) = i - 1
    /\ j = 13 => reg["nr"] = 10

ArmInv ==
    machine # "x86_64" /\ code_pc # "add" =>
        /\ ArmCodeIs(code) /\ readonly = {} /\ code_pc # "trapped"
        /\ \E i \in Int, j \in Int : ArmAt(i, j)

\* A step of the aarch64 code: the number of the call stays 10, so nothing is protected.
LEMMA ArmStep ==
    ASSUME ProtectTyped, ArmInv, machine # "x86_64", code_pc = "run", Relro!Next
    PROVE  ProtectTyped' /\ ArmInv'
  <1>1. PICK i \in Int, j \in Int : ArmAt(i, j)
    BY DEF ArmInv
  <1> DEFINE n == Relro!N
  <1>2. /\ ArmCodeIs(code) /\ code \in Seq(Instrs) /\ Len(code) = 13 * n + 1 /\ n \in Nat
        /\ i \in 1..(n + 1) /\ j \in 1..13 /\ ip = 13 * (i - 1) + j /\ (i = n + 1 => j = 1)
        /\ Len(calls) = i - 1 /\ readonly = {}
    BY <1>1, InputTyped DEF ArmInv, ArmCodeIs, ArmAt, ProtectTyped
  <1>3. ip \in 1..Len(code)
    BY <1>2
  <1>4. Quiet => InputOK' /\ n' = n /\ (machine \in Machines)' /\ (calls \in Seq(Calls))'
                 /\ (code_pc \in {"add", "run", "returned", "trapped"})'
    <2> SUFFICES ASSUME Quiet
                 PROVE  InputOK' /\ n' = n /\ (machine \in Machines)' /\ (calls \in Seq(Calls))'
                        /\ (code_pc \in {"add", "run", "returned", "trapped"})'
      OBVIOUS
    <2> QED BY DEF Quiet, ProtectTyped, InputOK, Relro!N
  <1> HIDE DEF n
  <1>5. CASE i = n + 1
    <2>1. code[ip].op = "ret"
      BY <1>2, <1>5 DEF ArmCodeIs, n
    <2>2. Relro!Ret
      BY <2>1, ByOp
    <2>3. code_pc' = "returned" /\ UNCHANGED <<machine, input, base, code, ip, reg, readonly, calls>>
      BY <2>2 DEF Relro!Ret, Relro!loaded
    <2>4. ProtectTyped'
      BY <2>3 DEF ProtectTyped, InputOK, Relro!N, RegsOK
    <2>5. ArmAt(i, j)'
      BY <1>1, <2>3 DEF ArmAt, Relro!N
    <2>6. ArmCodeIs(code)'
      BY <1>2, <2>3 DEF ArmCodeIs, Relro!N
    <2> QED BY <1>2, <2>3, <2>4, <2>5, <2>6 DEF ArmInv
  <1>6. CASE i # n + 1
    <2>1. i \in 1..n
      BY <1>2, <1>6
    <2>2. IsArmBody(code, 13 * (i - 1))
      BY <1>2, <2>1 DEF ArmCodeIs, n
    <2>3. /\ code[ip].op = OpOfArm(j) /\ code[ip].len = 4 /\ (code[ip].op = "movk" => code[ip].at \in 0..3)
          /\ (j = 12 => code[ip].reg = "nr" /\ code[ip].imm = 10)
      BY <1>2, <2>2 DEF IsArmBody
    <2>4. CASE j \in 1..12
      <3>1. /\ code[ip].op \in {"mov", "movk", "adr", "add"}
            /\ j = 12 => code[ip].op = "mov"
        BY <2>3, <2>4 DEF OpOfArm
      <3>2. \/ code[ip].op = "mov" /\ Relro!Mov
            \/ code[ip].op = "movk" /\ Relro!Movk
            \/ code[ip].op = "lea" /\ Relro!Lea
            \/ code[ip].op = "adr" /\ Relro!Adr
            \/ code[ip].op = "add" /\ Relro!AddReg
        BY <3>1, ByOp
      <3>3. Quiet /\ ip' = ip + 1 /\ RegsOK(reg')
        BY <1>2, <1>3, <2>3, <3>2, Computes
      <3>4. ProtectTyped'
        BY <1>4, <3>3 DEF ProtectTyped, Quiet
      <3>5. ArmAt(i, j + 1)'
        <4>1. j = 12 => reg'["nr"] = 10
          <5> SUFFICES ASSUME j = 12 PROVE reg'["nr"] = 10
            OBVIOUS
          <5>1. Relro!Mov
            BY <3>1, <3>2
          <5>2. Relro!Set("nr", 10)
            BY <2>3, <5>1 DEF Relro!Mov, Relro!Ins
          <5>3. "nr" \in Relro!Regs /\ RegsOK(reg) /\ 10 % Width = 10
            BY InputTyped DEF ProtectTyped, Relro!Regs, Width
          <5> QED BY <5>2, <5>3, RegSet
        <4>2. Relro!N' = n /\ calls' = calls /\ i \in 1..(n + 1) /\ j + 1 \in 1..13
              /\ ip' = 13 * (i - 1) + (j + 1) /\ i # n + 1 /\ (j + 1 = 13 => j = 12)
          BY <1>2, <1>4, <1>6, <2>4, <3>3 DEF Quiet, n
        <4> QED BY <1>2, <4>1, <4>2 DEF ArmAt
      <3>6. ArmCodeIs(code)' /\ readonly' = {} /\ code_pc' = "run" /\ j + 1 \in Int
        BY <1>2, <1>4, <3>3 DEF ArmCodeIs, Quiet, n
      <3> QED BY <3>4, <3>5, <3>6 DEF ArmInv
    <2>5. CASE j = 13
      <3>1. code[ip].op = "svc" /\ reg["nr"] = 10
        BY <1>1, <2>3, <2>5 DEF OpOfArm, ArmAt
      <3>2. Relro!Svc
        BY <3>1, ByOp
      <3>3. /\ Relro!Set("addr", -9) /\ readonly' = readonly /\ Relro!Called("addr")
            /\ ip' = ip + 1 /\ UNCHANGED <<machine, input, base, code, code_pc>>
        BY <3>1, <3>2 DEF Relro!Svc, Relro!Step, Relro!loaded
      <3>4. "addr" \in Relro!Regs /\ RegsOK(reg)
        BY DEF ProtectTyped, Relro!Regs
      <3>5. RegsOK(reg')
        BY <3>3, <3>4, RegSet
      <3>6. calls' \in Seq(Calls) /\ Len(calls') = Len(calls) + 1
        BY <3>3, <3>4, <3>5, CallMade
      <3>7. InputOK' /\ Relro!N' = n /\ ProtectTyped'
        BY <3>3, <3>5, <3>6 DEF ProtectTyped, InputOK, Relro!N, n
      <3>8. ArmAt(i + 1, 1)'
        <4>1. i + 1 \in 1..(n + 1) /\ 1 \in 1..13 /\ ip' = 13 * ((i + 1) - 1) + 1 /\ Len(calls') = (i + 1) - 1
          BY <1>2, <2>1, <2>5, <3>3, <3>6
        <4> QED BY <3>7, <4>1 DEF ArmAt
      <3>9. ArmCodeIs(code)' /\ readonly' = {} /\ code_pc' = "run" /\ i + 1 \in Int
        BY <1>2, <3>3, <3>7 DEF ArmCodeIs, n
      <3> QED BY <3>7, <3>8, <3>9 DEF ArmInv
    <2> QED BY <1>2, <2>4, <2>5
  <1> QED BY <1>5, <1>6

StartOf(i) == base + Relro!PageOf(input.regions[i].vaddr)

\* The pages of the first n regions.
Done(n) == UNION {Relro!Pages(input.regions[k]) : k \in 1..n}

\* The length that is passed, and that of the whole pages.
LenOf(i)   == Relro!SignExtended(SizeOf(i)) % Width
WholeOf(i) == Relro!WholePages(input.regions[i])

\* The first n regions are protected, or less if a size does not fit.
Protects(n) == readonly \subseteq Done(n) /\ (Relro!SizesFit => readonly = Done(n))

\* A register holds all numbers below the square of a Dword.
LEMMA WidthSquare == Width = Relro!Dword * Relro!Dword
  <1>1. Piece \in Int
    BY UnitsTyped
  <1> DEFINE p == Piece * Piece
  <1>2. p \in Int
    BY <1>1
  <1>3. (p * Piece) * Piece = p * (Piece * Piece)
    <2> HIDE DEF p
    <2> QED BY <1>1, <1>2
  <1> QED BY <1>3 DEF Width, Relro!Word, Relro!Dword

\* The number that the mov makes of its imm32: below 2 GiB it is that number,
\* and from there on it is in the upper half of the addresses.
LEMMA LengthPassed ==
    ASSUME NEW x \in 0..(Relro!Dword - 1)
    PROVE  /\ Relro!SignExtended(x) \in Int
           /\ x < Relro!Dword \div 2 => Relro!SignExtended(x) % Width = x
           /\ x >= Relro!Dword \div 2 => Relro!SignExtended(x) % Width > Relro!Word \div 2
  <1> DEFINE d == Relro!Dword
             w == Width
             h == d \div 2
  <1>1. d \in Nat /\ d >= 4
    BY DwordTyped
  <1>2. w = d * d /\ w = Relro!Word /\ w \in Nat \ {0}
    BY WidthSquare, WidthTyped DEF Width
  <1>3. Relro!SignExtended(x) = IF x < h THEN x ELSE x - d
    BY DEF Relro!SignExtended
  <1>4. x \in 0..(d - 1)
    OBVIOUS
  <1> HIDE DEF d, w
  <1>5. h \in Nat /\ d <= 2 * h + 1 /\ h < d
    BY <1>1
  <1> HIDE DEF h
  <1>6. w >= 4 * d
    BY <1>1, <1>2
  <1>7. ASSUME x < h PROVE x % w = x
    <2>2. x \in Int /\ w \in Nat \ {0}
      BY <1>1, <1>2, <1>4
    <2>1. x \in 0..(w - 1)
      BY <1>1, <1>4, <1>6, <2>2
    <2> QED BY <2>1, <2>2, Remainders, Zenon
  <1>8. ASSUME x >= h PROVE (x - d) % w > w \div 2
    <2> DEFINE r == w + x - d
    <2>1. r \in 0..(w - 1) /\ x - d = w * (-1) + r
      BY <1>1, <1>2, <1>4, <1>6
    <2>2. r > w \div 2
      BY <1>1, <1>2, <1>4, <1>5, <1>6, <1>8
    <2> HIDE DEF r
    <2>3. (w * (-1) + r) % w = r
      BY <1>2, <2>1, OneRemainder
    <2> QED BY <2>1, <2>2, <2>3
  <1>9. Relro!SignExtended(x) \in Int
    BY <1>1, <1>3, <1>4
  <1> QED BY <1>2, <1>3, <1>4, <1>5, <1>7, <1>8, <1>9 DEF d, w, h

\* What is written is the whole pages, or less if a size does not fit.
LEMMA SizeWritten ==
    ASSUME InputOK, NEW i \in 1..Relro!N
    PROVE  /\ WholeOf(i) \in Nat /\ SizeOf(i) <= WholeOf(i)
           /\ Relro!SizesFit => SizeOf(i) = WholeOf(i)
  <1> DEFINE d == Relro!Dword
             a == input.regions[i].vaddr
             m == input.regions[i].memsz
             t == m % d
             x == Relro!PageOf(a + t) - Relro!PageOf(a)
  <1>1. d \in Nat \ {0} /\ a \in Nat /\ m \in Nat
    BY DwordTyped, InputTyped
  <1>2. SizeOf(i) = x % d /\ WholeOf(i) = Relro!PageOf(a + m) - Relro!PageOf(a)
    BY DEF SizeOf, WholeOf, Relro!SizeX86_64, Relro!Size32, Relro!WholePages
  <1>3. Relro!SizesFit => m < d /\ WholeOf(i) < d
    BY InputTyped DEF Relro!SizesFit, WholeOf
  <1> HIDE DEF d, a, m
  <1>4. t \in 0..(d - 1) /\ t <= m /\ (m < d => t = m)
    <2>1. t \in 0..(d - 1)
      BY <1>1
    <2>2. m < d => m \in 0..(d - 1) /\ m \in Int
      BY <1>1
    <2>3. m < d => t = m
      BY <1>1, <2>2, Remainders
    <2>4. m >= d => t <= m
      BY <1>1, <2>1
    <2> HIDE DEF t
    <2> QED BY <1>1, <2>1, <2>3, <2>4
  <1> HIDE DEF t
  <1>5. /\ Relro!PageOf(a) \in Int /\ Relro!PageOf(a + t) \in Int /\ Relro!PageOf(a + m) \in Int
        /\ Relro!PageOf(a + t) >= Relro!PageOf(a) /\ Relro!PageOf(a + m) >= Relro!PageOf(a + t)
    <2>1. a \in Int /\ a + t \in Nat /\ a + m \in Int /\ m - t \in Nat /\ (a + t) + (m - t) = a + m /\ t \in Nat
      BY <1>1, <1>4
    <2>2. Relro!PageOf(a) \in Int /\ Relro!PageOf(a + t) \in Int /\ Relro!PageOf(a + m) \in Int
      BY <2>1, PageOfTyped
    <2>3. Relro!PageOf(a + t) >= Relro!PageOf(a)
      BY <1>1, <2>1, PagesGrow
    <2>4. Relro!PageOf((a + t) + (m - t)) >= Relro!PageOf(a + t)
      BY <2>1, PagesGrow
    <2> QED BY <2>1, <2>2, <2>3, <2>4
  <1>6. x \in Nat /\ x <= WholeOf(i) /\ WholeOf(i) \in Nat /\ (t = m => x = WholeOf(i))
    BY <1>2, <1>5
  <1> HIDE DEF x
  <1>7. x % d <= x /\ (x < d => x % d = x)
    <2>1. x < d => x \in 0..(d - 1) /\ x \in Int
      BY <1>1, <1>6
    <2>2. x < d => x % d = x
      BY <1>1, <2>1, Remainders
    <2>3. x % d \in 0..(d - 1)
      BY <1>1, <1>6
    <2> QED BY <1>1, <1>6, <2>2, <2>3
  <1> QED BY <1>1, <1>2, <1>3, <1>4, <1>6, <1>7

\* What the registers hold before instruction j of region i.
Registers(i, j) ==
    /\ j \in 2..3 => reg["addr"] = OffsetOf(i) % Width
    /\ j = 3 => reg["len"] = (base + input.code + 47 * (i - 1) + 17) % Width
    /\ j \in 4..7 => reg["addr"] = StartOf(i)
    /\ j \in 5..7 => reg["len"] = LenOf(i)
    /\ j = 7 => reg["nr"] = 10

\* The calls that were made, each about its region.
CallsNamed ==
    \A k \in 1..Len(calls) :
        /\ calls[k].addr = StartOf(k) /\ calls[k].len = LenOf(k)
        /\ SizeOf(k) < Relro!Dword \div 2 \/ calls[k].failed

\* Instruction j of region i is next.
X86At(i, j) ==
    /\ i \in 1..(Relro!N + 1) /\ j \in 1..10 /\ ip = 10 * (i - 1) + j
    /\ i = Relro!N + 1 => j = 1
    /\ Len(calls) = (IF j < 8 THEN i - 1 ELSE i)
    /\ CallsNamed
    /\ \A k \in 1..(i - 1) : ~calls[k].failed
    /\ j >= 8 => (calls[i].failed <=> reg["nr"] # 0)
    /\ j = 10 => calls[i].failed
    /\ Protects(IF j >= 8 /\ reg["nr"] = 0 THEN i ELSE i - 1)
    /\ Registers(i, j)

X86Somewhere ==
    \E i \in Int, j \in Int :
        /\ X86At(i, j)
        /\ code_pc = "returned" => i = Relro!N + 1
        /\ code_pc = "trapped" => j = 10

X86Inv == machine = "x86_64" /\ code_pc # "add" => CodeIs(code) /\ X86Somewhere

\* The operators that look at the input only.
LEMMA InputStays ==
    ASSUME UNCHANGED <<machine, input, base, code>>
    PROVE  /\ InputOK' = InputOK /\ Relro!N' = Relro!N /\ CodeIs(code)' = CodeIs(code)
           /\ \A i : OffsetOf(i)' = OffsetOf(i) /\ SizeOf(i)' = SizeOf(i) /\ StartOf(i)' = StartOf(i)
           /\ \A i : Done(i)' = Done(i) /\ LenOf(i)' = LenOf(i)
           /\ Relro!SizesFit' = Relro!SizesFit
           /\ readonly' = readonly => \A i : Protects(i)' = Protects(i)
  <1>1. Relro!N' = Relro!N
    BY DEF Relro!N
  <1>2. InputOK' = InputOK
    BY <1>1 DEF InputOK
  <1>3. \A i : OffsetOf(i)' = OffsetOf(i) /\ SizeOf(i)' = SizeOf(i) /\ StartOf(i)' = StartOf(i)
    BY Zenon DEF OffsetOf, SizeOf, StartOf, Relro!SizeX86_64, Relro!Size32, Relro!PageOf
  <1>4. CodeIs(code)' = CodeIs(code)
    BY Zenon, <1>1, <1>3 DEF CodeIs
  <1>5. \A i : Done(i)' = Done(i) /\ LenOf(i)' = LenOf(i)
    <2>1. \A i : Done(i)' = Done(i)
      BY Zenon DEF Done, Relro!Pages, Relro!PageOf
    <2>2. \A i : LenOf(i)' = LenOf(i)
      BY <1>3, Zenon DEF LenOf, Relro!SignExtended
    <2> QED BY <2>1, <2>2
  <1>6. Relro!SizesFit' = Relro!SizesFit
    BY <1>1, Zenon DEF Relro!SizesFit, Relro!WholePages, Relro!PageOf
  <1>7. ASSUME readonly' = readonly PROVE \A i : Protects(i)' = Protects(i)
    BY <1>5, <1>6, <1>7, Zenon DEF Protects
  <1> QED BY <1>1, <1>2, <1>3, <1>4, <1>5, <1>6, <1>7

\* The first six instructions prepare a call.
LEMMA X86Computes ==
    ASSUME ProtectTyped, CodeIs(code), machine = "x86_64", code_pc = "run", Relro!Next,
           NEW i \in 1..Relro!N, NEW j \in 1..6, X86At(i, j)
    PROVE  Quiet /\ ip' = ip + 1 /\ RegsOK(reg') /\ Registers(i, j + 1)'
  <1> DEFINE at == 10 * (i - 1)
             ins == code[ip]
  <1>1. /\ ip = at + j /\ at \in Nat /\ RegsOK(reg) /\ InputOK /\ Relro!N \in Nat
        /\ Registers(i, j)
    BY InputTyped DEF X86At, ProtectTyped
  <1>2. /\ IsBody(code, at, OffsetOf(i), SizeOf(i)) /\ Relro!Before(code, at + 3) = 47 * (i - 1) + 17
    BY <1>1, InBlock
  <1>3. code \in Seq(Instrs) /\ Len(code) = 10 * Relro!N + 1 /\ ip \in 1..Len(code)
    BY <1>1 DEF CodeIs
  <1>4. j \in {1, 2, 3, 4, 5, 6}
    OBVIOUS
  <1>5. /\ j = 1 => ins = Relro!I("mov", "addr", OffsetOf(i), 10, 2)
        /\ j = 2 => ins = Relro!I("lea", "len", 0, 7, 3)
        /\ j = 3 => ins = Relro!I("add", "len", 0, 3, 0)
        /\ j = 4 => ins = Relro!I("mov", "len", SizeOf(i), 7, 3)
        /\ j = 5 => ins = Relro!I("mov", "prot", 1, 7, 3)
        /\ j = 6 => ins = Relro!I("mov", "nr", 10, 5, 1)
    BY <1>1, <1>2 DEF IsBody
  <1>6. /\ j = 1 => ins.op = "mov" /\ ins.reg = "addr" /\ ins.imm = OffsetOf(i) /\ ins.len = 10
        /\ j = 2 => ins.op = "lea" /\ ins.reg = "len"
        /\ j = 3 => ins.op = "add" /\ ins.reg = "len"
        /\ j = 4 => ins.op = "mov" /\ ins.reg = "len" /\ ins.imm = SizeOf(i) /\ ins.len = 7
        /\ j = 5 => ins.op = "mov" /\ ins.reg = "prot" /\ ins.imm = 1 /\ ins.len = 7
        /\ j = 6 => ins.op = "mov" /\ ins.reg = "nr" /\ ins.imm = 10 /\ ins.len = 5
    <2> HIDE DEF ins
    <2> QED BY <1>5 DEF Relro!I
  <1> HIDE DEF ins, at
  <1>7. ins.op \in {"mov", "lea", "add"} /\ (ins.op = "lea" <=> j = 2) /\ (ins.op = "add" <=> j = 3)
    BY <1>4, <1>6
  <1>8. \/ ins.op = "mov" /\ Relro!Mov
        \/ ins.op = "movk" /\ Relro!Movk
        \/ ins.op = "lea" /\ Relro!Lea
        \/ ins.op = "adr" /\ Relro!Adr
        \/ ins.op = "add" /\ Relro!AddReg
    BY <1>7, ByOp DEF ins
  <1>9. Quiet /\ ip' = ip + 1 /\ RegsOK(reg')
    <2>1. ins.op = "movk" => ins.at \in 0..3
      BY <1>7
    <2> QED BY <1>3, <1>8, <2>1, Computes DEF ins
  <1>10. /\ OffsetOf(i)' = OffsetOf(i) /\ LenOf(i)' = LenOf(i) /\ StartOf(i)' = StartOf(i)
         /\ input' = input /\ base' = base
    BY <1>9, InputStays DEF Quiet
  <1>11. /\ OffsetOf(i) \in Int /\ SizeOf(i) \in 0..(Relro!Dword - 1) /\ StartOf(i) \in 0..(Width - 1)
         /\ Width \in Nat \ {0} /\ base \in Int /\ input.code \in Int
         /\ OffsetOf(i) + (base + input.code + 47 * (i - 1) + 17) = StartOf(i)
         /\ 10 % Width = 10
    <2>1. /\ OffsetOf(i) \in Int /\ SizeOf(i) \in Nat /\ SizeOf(i) < Relro!Dword /\ StartOf(i) \in 0..(Width - 1)
          /\ Relro!PageOf(input.regions[i].vaddr) \in Nat /\ 10 % Width = 10
      BY <1>1, InputTyped DEF StartOf, Width
    <2>6. SizeOf(i) \in 0..(Relro!Dword - 1)
      BY <2>1, DwordTyped
    <2>2. base \in Int /\ input.code \in Int /\ Width \in Nat \ {0}
      BY <1>1, WidthTyped DEF InputOK
    <2>3. i \in Int
      BY <1>1
    <2>4. /\ OffsetOf(i) = Relro!PageOf(input.regions[i].vaddr) - (input.code + 47 * (i - 1) + 17)
          /\ StartOf(i) = base + Relro!PageOf(input.regions[i].vaddr)
      BY DEF OffsetOf, StartOf
    <2>5. OffsetOf(i) + (base + input.code + 47 * (i - 1) + 17) = StartOf(i)
      BY <2>1, <2>2, <2>3, <2>4
    <2> QED BY <2>1, <2>2, <2>5, <2>6
  <1>12. "addr" \in Relro!Regs /\ "len" \in Relro!Regs /\ "nr" \in Relro!Regs /\ "prot" \in Relro!Regs
    BY DEF Relro!Regs
  <1>13. ASSUME ins.op = "mov", NEW r \in Relro!Regs, ins.reg = r, NEW v \in Int,
                v = IF ins.len = 7 THEN Relro!SignExtended(ins.imm) ELSE ins.imm
         PROVE  reg'[r] = v % Width /\ \A s \in Relro!Regs : s # r => reg'[s] = reg[s]
    <2>1. Relro!Mov
      BY <1>8, <1>13
    <2>2. Relro!Set(r, v)
      BY <1>13, <2>1 DEF Relro!Mov, Relro!Ins, ins
    <2> QED BY <1>1, <2>2, RegSet
  <1>14. CASE j = 1
    <2>1. reg'["addr"] = OffsetOf(i) % Width
      BY <1>6, <1>11, <1>12, <1>13, <1>14
    <2> QED BY <1>9, <1>10, <1>14, <2>1 DEF Registers
  <1>15. CASE j = 2
    <2> DEFINE v == Relro!Address(ip + 1)
               w == base + input.code + 47 * (i - 1) + 17
    <2>1. Relro!Lea
      BY <1>7, <1>8, <1>15
    <2>2. Relro!Set("len", v)
      BY <1>6, <1>15, <2>1 DEF Relro!Lea, Relro!Ins, ins
    <2>3. v = w
      <3>1. ip + 1 = at + 3
        BY <1>1, <1>15
      <3>2. v = base + input.code + Relro!Before(code, at + 3)
        BY <3>1 DEF Relro!Address
      <3>3. 47 * (i - 1) \in Int
        BY <1>1
      <3> QED BY <1>2, <1>11, <3>2, <3>3
    <2>4. w \in Int
      BY <1>1, <1>11
    <2> HIDE DEF v, w
    <2>5. reg'["len"] = w % Width /\ reg'["addr"] = reg["addr"]
      BY <1>1, <1>12, <2>2, <2>3, <2>4, RegSet
    <2>6. reg["addr"] = OffsetOf(i) % Width
      BY <1>1, <1>15 DEF Registers
    <2> QED BY <1>9, <1>10, <1>15, <2>5, <2>6 DEF Registers, w
  <1>16. CASE j = 3
    <2> DEFINE w == base + input.code + 47 * (i - 1) + 17
               o == OffsetOf(i)
               v == reg["addr"] + reg["len"]
    <2>1. Relro!AddReg
      BY <1>7, <1>8, <1>16
    <2>2. Relro!Set("addr", v)
      BY <1>6, <1>16, <2>1 DEF Relro!AddReg, Relro!Ins, ins
    <2>3. reg["addr"] = o % Width /\ reg["len"] = w % Width
      BY <1>1, <1>16 DEF Registers
    <2>4. w \in Int /\ o \in Int /\ o + w = StartOf(i)
      BY <1>1, <1>11
    <2>5. v = (o % Width) + (w % Width)
      BY <2>3
    <2> HIDE DEF v, w, o
    <2>6. v % Width = StartOf(i)
      <3>1. o + w \in 0..(Width - 1) /\ o \in Int /\ w \in Int /\ Width \in Nat \ {0}
        BY <1>11, <2>4
      <3> HIDE DEF Width
      <3>2. ((o % Width) + (w % Width)) % Width = o + w
        <4> DEFINE n == Width
        <4>1. o + w \in 0..(n - 1) /\ o \in Int /\ w \in Int /\ n \in Nat \ {0}
          BY <3>1
        <4> HIDE DEF n
        <4>2. ((o % n) + (w % n)) % n = o + w
          BY <4>1, SumRemains, Zenon
        <4> QED BY <4>2 DEF n
      <3> QED BY <2>4, <2>5, <3>2
    <2>7. v \in Int
      <3>1. o % Width \in Int /\ w % Width \in Int
        BY <1>11, <2>4
      <3> QED BY <2>5, <3>1
    <2>8. reg'["addr"] = StartOf(i)
      BY <1>1, <1>12, <2>2, <2>6, <2>7, RegSet
    <2> QED BY <1>9, <1>10, <1>16, <2>8 DEF Registers
  <1>17. CASE j = 4
    <2> DEFINE v == Relro!SignExtended(SizeOf(i))
    <2>1. v \in Int
      BY <1>11, LengthPassed
    <2>2. v = IF ins.len = 7 THEN Relro!SignExtended(ins.imm) ELSE ins.imm
      BY <1>6, <1>17
    <2>3. v % Width = LenOf(i)
      BY DEF LenOf
    <2> HIDE DEF v
    <2>4. reg'["len"] = LenOf(i) /\ reg'["addr"] = reg["addr"]
      BY <1>6, <1>12, <1>13, <1>17, <2>1, <2>2, <2>3
    <2>5. reg["addr"] = StartOf(i)
      BY <1>1, <1>17 DEF Registers
    <2> QED BY <1>9, <1>10, <1>17, <2>4, <2>5 DEF Registers
  <1>18. CASE j = 5
    <2> DEFINE v == Relro!SignExtended(1)
    <2>1. 1 \in 0..(Relro!Dword - 1)
      BY DwordTyped
    <2>2. v \in Int /\ v = IF ins.len = 7 THEN Relro!SignExtended(ins.imm) ELSE ins.imm
      BY <1>6, <1>18, <2>1, LengthPassed
    <2> HIDE DEF v
    <2>3. reg'["len"] = reg["len"] /\ reg'["addr"] = reg["addr"]
      BY <1>6, <1>12, <1>13, <1>18, <2>2
    <2>4. reg["addr"] = StartOf(i) /\ reg["len"] = LenOf(i)
      BY <1>1, <1>18 DEF Registers
    <2> QED BY <1>9, <1>10, <1>18, <2>3, <2>4 DEF Registers
  <1>19. CASE j = 6
    <2>1. reg'["len"] = reg["len"] /\ reg'["addr"] = reg["addr"] /\ reg'["nr"] = 10 % Width
      BY <1>6, <1>12, <1>13, <1>19
    <2>2. reg["addr"] = StartOf(i) /\ reg["len"] = LenOf(i)
      BY <1>1, <1>19 DEF Registers
    <2> QED BY <1>9, <1>10, <1>11, <1>19, <2>1, <2>2 DEF Registers
  <1> QED BY <1>4, <1>9, <1>14, <1>15, <1>16, <1>17, <1>18, <1>19

\* The pages of one region more.
LEMMA DoneGrows ==
    ASSUME NEW i \in Nat \ {0}
    PROVE  Done(i) = Done(i - 1) \cup Relro!Pages(input.regions[i])
  <1>1. 1..i = (1..(i - 1)) \cup {i}
    OBVIOUS
  <1> QED BY <1>1 DEF Done

\* What a call leaves.
LEMMA X86Calls ==
    ASSUME ProtectTyped, CodeIs(code), machine = "x86_64", code_pc = "run", Relro!Syscall,
           NEW i \in 1..Relro!N, X86At(i, 7)
    PROVE  /\ UNCHANGED <<machine, input, base, code, code_pc>> /\ ip' = ip + 1 /\ RegsOK(reg')
           /\ calls' \in Seq(Calls) /\ Len(calls') = i /\ CallsNamed'
           /\ \A k \in 1..(i - 1) : calls'[k] = calls[k]
           /\ calls'[i].failed <=> reg'["nr"] # 0
           /\ Protects(IF reg["nr"] = 0 THEN i ELSE i - 1)'
  <1>1. /\ RegsOK(reg) /\ InputOK /\ calls \in Seq(Calls) /\ Len(calls) = i - 1 /\ CallsNamed
        /\ Protects(i - 1) /\ reg["addr"] = StartOf(i) /\ reg["len"] = LenOf(i)
        /\ Relro!N \in Nat
    BY InputTyped DEF ProtectTyped, X86At, Registers
  <1>2. "addr" \in Relro!Regs /\ "nr" \in Relro!Regs
    BY DEF Relro!Regs
  <1>3. Relro!SysMprotect("nr") /\ Relro!Called("nr") /\ ip' = ip + 1 /\ UNCHANGED <<machine, input, base, code, code_pc>>
    BY DEF Relro!Syscall, Relro!Step, Relro!loaded
  <1>4. Width \in Nat \ {0} /\ (-12) % Width # 0 /\ (-22) % Width # 0 /\ 0 % Width = 0
    <2>1. (-12) % Width # 0 /\ (-22) % Width # 0
      BY <1>1, InputTyped DEF Width
    <2>2. Width \in Nat \ {0}
      BY WidthTyped
    <2>3. 0 \in 0..(Width - 1) /\ 0 \in Int
      BY <2>2
    <2>4. 0 % Width = 0
      BY <2>2, <2>3, Remainders
    <2> QED BY <2>1, <2>2, <2>4
  <1>8. \A k : Done(k)' = Done(k) /\ Relro!SizesFit' = Relro!SizesFit
    BY <1>3, InputStays
  <1>9. SizeOf(i) \in 0..(Relro!Dword - 1)
    <2>1. SizeOf(i) \in Nat /\ SizeOf(i) < Relro!Dword
      BY <1>1, InputTyped
    <2> QED BY <2>1, DwordTyped
  <1>5. /\ RegsOK(reg') /\ Protects(IF reg["nr"] = 0 THEN i ELSE i - 1)'
        /\ SizeOf(i) < Relro!Dword \div 2 \/ reg'["nr"] # 0
    <2> DEFINE new == {a \in reg["addr"]..(reg["addr"] + reg["len"] - 1) : a % Page = 0}
    <2>1. CASE /\ Relro!Set("nr", 0) /\ readonly' = readonly \cup new
               /\ reg["addr"] + reg["len"] <= Relro!Word \div 2
      <3>1. RegsOK(reg') /\ reg'["nr"] = 0
        BY <1>1, <1>2, <1>4, <2>1, RegSet
      <3>2. SizeOf(i) < Relro!Dword \div 2 /\ LenOf(i) = SizeOf(i)
        <4>1. reg["addr"] \in Nat /\ reg["len"] \in Nat
          <5>1. "len" \in Relro!Regs
            BY DEF Relro!Regs
          <5> QED BY <1>1, <1>2, <1>4, <5>1 DEF RegsOK
        <4>2. Relro!Word \in Nat
          BY <1>4 DEF Width
        <4>3. ~(LenOf(i) > Relro!Word \div 2)
          BY <1>1, <2>1, <4>1, <4>2
        <4>4. SizeOf(i) < Relro!Dword \div 2
          <5>1. SizeOf(i) \in Nat /\ Relro!Dword \div 2 \in Nat
            BY <1>9, DwordTyped
          <5>2. ~(SizeOf(i) >= Relro!Dword \div 2)
            BY <1>9, <4>3, LengthPassed DEF LenOf
          <5> QED BY <5>1, <5>2
        <4> QED BY <1>9, <4>4, LengthPassed DEF LenOf
      <3>3. new \subseteq Relro!Pages(input.regions[i]) /\ (Relro!SizesFit => new = Relro!Pages(input.regions[i]))
        <4> DEFINE r == input.regions[i]
                   first == Relro!PageOf(r.vaddr)
                   last == Relro!PageOf(r.vaddr + r.memsz)
                   start == base + first
        <4>1. StartOf(i) = start /\ base \in Int /\ WholeOf(i) = last - first
          BY <1>1 DEF StartOf, WholeOf, Relro!WholePages, InputOK
        <4>2. first \in Int /\ last \in Int
          <5> HIDE DEF r
          <5>1. r.vaddr \in Nat /\ r.memsz \in Nat
            BY <1>1, InputTyped DEF r
          <5>2. r.vaddr \in Int /\ r.vaddr + r.memsz \in Int
            BY <5>1
          <5> QED BY <5>2, PageOfTyped
        <4>3. Relro!Pages(r) = {a \in (base + first)..(base + last - 1) : a % Page = 0}
          BY DEF Relro!Pages
        <4> HIDE DEF r, first, last
        <4>4. start \in Int /\ start + WholeOf(i) = base + last /\ base + last \in Int
          BY <4>1, <4>2
        <4>5. new = {a \in start..(start + SizeOf(i) - 1) : a % Page = 0}
          BY <1>1, <3>2, <4>1
        <4>9. Relro!Pages(r) = {a \in start..((base + last) - 1) : a % Page = 0}
          BY <4>1, <4>2, <4>3
        <4> HIDE DEF new, start
        <4>6. SizeOf(i) \in Nat /\ WholeOf(i) \in Nat /\ SizeOf(i) <= WholeOf(i)
              /\ (Relro!SizesFit => SizeOf(i) = WholeOf(i))
          BY <1>1, <1>9, SizeWritten
        <4> DEFINE A == start..(start + SizeOf(i) - 1)
                   B == start..((base + last) - 1)
        <4>7. A \subseteq B /\ (Relro!SizesFit => A = B)
          <5> DEFINE x == SizeOf(i)
                     y == WholeOf(i)
                     end == base + last
          <5>1. /\ start \in Int /\ end = start + y /\ x \in Nat /\ y \in Nat /\ x <= y
                /\ (Relro!SizesFit => x = y)
            BY <4>4, <4>6
          <5> HIDE DEF x, y, end
          <5>2. start..(start + x - 1) \subseteq start..(end - 1)
            BY <5>1
          <5>3. Relro!SizesFit => start..(start + x - 1) = start..(end - 1)
            BY <5>1
          <5>4. A = start..(start + x - 1)
            BY Zenon DEF x
          <5>5. B = start..(end - 1)
            BY Zenon DEF end
          <5> HIDE DEF A, B
          <5> QED BY <5>2, <5>3, <5>4, <5>5
        <4>8. new = {a \in A : a % Page = 0} /\ Relro!Pages(r) = {a \in B : a % Page = 0}
          BY <4>5, <4>9
        <4> HIDE DEF A, B
        <4> QED BY <4>7, <4>8 DEF r
      <3>4. Done(i) = Done(i - 1) \cup Relro!Pages(input.regions[i])
        BY DoneGrows
      <3> HIDE DEF new
      <3>5. readonly' \subseteq Done(i) /\ (Relro!SizesFit => readonly' = Done(i))
        BY <1>1, <2>1, <3>3, <3>4 DEF Protects
      <3>6. Protects(i)'
        BY <1>8, <3>5 DEF Protects
      <3> QED BY <3>1, <3>2, <3>6
    <2>2. CASE /\ Relro!Set("nr", IF reg["addr"] % Page = 0 THEN -12 ELSE -22) /\ readonly' = readonly
      <3> DEFINE v == IF reg["addr"] % Page = 0 THEN -12 ELSE -22
      <3>1. v \in Int /\ v % Width # 0
        BY <1>4
      <3>2. Relro!Set("nr", v)
        BY <2>2
      <3> HIDE DEF v
      <3>3. RegsOK(reg') /\ reg'["nr"] # 0
        BY <1>1, <1>2, <3>1, <3>2, RegSet
      <3>4. Protects(i - 1)'
        BY <1>1, <1>8, <2>2 DEF Protects
      <3> QED BY <3>3, <3>4
    <2> QED BY <1>3, <2>1, <2>2 DEF Relro!SysMprotect
  <1>6. /\ calls' \in Seq(Calls) /\ Len(calls') = i /\ \A k \in 1..(i - 1) : calls'[k] = calls[k]
        /\ calls'[i].addr = StartOf(i) /\ calls'[i].len = LenOf(i)
        /\ calls'[i].failed = (reg'["nr"] # 0)
    <2>1. /\ calls' \in Seq(Calls) /\ Len(calls') = Len(calls) + 1
          /\ \A k \in 1..Len(calls) : calls'[k] = calls[k]
          /\ calls'[Len(calls) + 1].addr = reg["addr"] /\ calls'[Len(calls) + 1].len = reg["len"]
          /\ calls'[Len(calls) + 1].failed = (reg'["nr"] # 0)
      BY <1>2, <1>3, <1>5, CallMade
    <2>2. Len(calls) + 1 = i
      BY <1>1
    <2> QED BY <1>1, <2>1, <2>2
  <1>7. CallsNamed'
    <2>1. \A k : LenOf(k)' = LenOf(k) /\ SizeOf(k)' = SizeOf(k) /\ StartOf(k)' = StartOf(k)
      BY <1>3, InputStays
    <2>2. \A k \in 1..i : /\ calls'[k].addr = StartOf(k) /\ calls'[k].len = LenOf(k)
                          /\ SizeOf(k) < Relro!Dword \div 2 \/ calls'[k].failed
      <3> TAKE k \in 1..i
      <3>1. CASE k = i
        BY <1>5, <1>6, <3>1
      <3>2. CASE k # i
        <4>1. k \in 1..(i - 1)
          BY <1>1, <3>2
        <4> QED BY <1>1, <1>6, <4>1 DEF CallsNamed
      <3> QED BY <3>1, <3>2
    <2>3. Relro!Dword' = Relro!Dword
      BY DEF Relro!Dword
    <2> QED BY <1>6, <2>1, <2>2, <2>3 DEF CallsNamed
  <1> QED BY <1>3, <1>5, <1>6, <1>7

\* A jump over the trap, when nothing failed.
LEMMA X86Jumps ==
    ASSUME ProtectTyped, CodeIs(code), Relro!Jz, NEW i \in 1..Relro!N, X86At(i, 9)
    PROVE  /\ UNCHANGED <<machine, input, base, code, reg, readonly, calls, code_pc>>
           /\ ip' = IF reg["nr"] = 0 THEN 10 * i + 1 ELSE ip + 1
  <1>1. /\ UNCHANGED <<machine, input, base, code, reg, readonly, calls, code_pc>>
        /\ ip' = IF reg["nr"] = 0
                 THEN CHOOSE k \in DOMAIN code : Relro!Before(code, k) = Relro!Before(code, ip + 1) + code[ip].imm
                 ELSE ip + 1
    BY DEF Relro!Jz, Relro!Zero, Relro!Ins, Relro!loaded
  <1>2. /\ ip = 10 * (i - 1) + 9 /\ InputOK /\ Relro!N \in Nat
    BY InputTyped DEF X86At, ProtectTyped
  <1>3. /\ IsBody(code, 10 * (i - 1), OffsetOf(i), SizeOf(i))
        /\ Relro!Before(code, 10 * (i - 1) + 10) = 47 * (i - 1) + 45
    BY <1>2, InBlock
  <1>4. code[ip].imm = 2
    BY <1>2, <1>3 DEF IsBody, Relro!I
  <1>5. ip + 1 = 10 * (i - 1) + 10
    BY <1>2
  <1>6. Relro!Before(code, ip + 1) + code[ip].imm = 47 * i
    <2>1. i \in Int
      BY <1>2
    <2>2. Relro!Before(code, ip + 1) = 47 * (i - 1) + 45
      BY <1>3, <1>5
    <2> QED BY <1>4, <2>1, <2>2
  <1>7. /\ 10 * i + 1 \in DOMAIN code /\ Relro!Before(code, 10 * i + 1) = 47 * i
        /\ \A k \in DOMAIN code : Relro!Before(code, k) = 47 * i => k = 10 * i + 1
    BY <1>2, JumpGoes
  <1> DEFINE there == 10 * i + 1
             goal == Relro!Before(code, ip + 1) + code[ip].imm
             target == CHOOSE k \in DOMAIN code : Relro!Before(code, k) = goal
  <1>8. target = there
    <2>1. /\ there \in DOMAIN code /\ Relro!Before(code, there) = goal
          /\ \A k \in DOMAIN code : Relro!Before(code, k) = goal => k = there
      <3> HIDE DEF goal
      <3>1. goal = 47 * i
        BY <1>6 DEF goal
      <3> QED BY <1>7, <3>1
    <2> HIDE DEF there, goal
    <2> QED BY <2>1
  <1>9. ip' = IF reg["nr"] = 0 THEN target ELSE ip + 1
    BY <1>1
  <1> HIDE DEF target
  <1> QED BY <1>1, <1>8, <1>9

\* A step of the x86-64 code.
LEMMA X86Step ==
    ASSUME ProtectTyped, X86Inv, machine = "x86_64", code_pc = "run", Relro!Next
    PROVE  ProtectTyped' /\ X86Inv'
  <1> DEFINE n == Relro!N
  <1>1. CodeIs(code) /\ X86Somewhere /\ InputOK /\ RegsOK(reg) /\ calls \in Seq(Calls) /\ n \in Nat
    BY InputTyped DEF X86Inv, ProtectTyped
  <1>2. PICK i \in Int, j \in Int : X86At(i, j)
    BY <1>1 DEF X86Somewhere
  <1>3. /\ i \in 1..(n + 1) /\ j \in 1..10 /\ ip = 10 * (i - 1) + j /\ (i = n + 1 => j = 1)
        /\ Len(calls) = (IF j < 8 THEN i - 1 ELSE i) /\ CallsNamed
        /\ \A k \in 1..(i - 1) : ~calls[k].failed
        /\ j >= 8 => (calls[i].failed <=> reg["nr"] # 0)
        /\ j = 10 => calls[i].failed
        /\ Protects(IF j >= 8 /\ reg["nr"] = 0 THEN i ELSE i - 1)
        /\ Registers(i, j)
    BY <1>2 DEF X86At
  <1>4. ASSUME UNCHANGED <<machine, input, base, code>>
        PROVE  /\ InputOK' /\ n' = n /\ CodeIs(code)'
               /\ \A k : OffsetOf(k)' = OffsetOf(k) /\ SizeOf(k)' = SizeOf(k) /\ StartOf(k)' = StartOf(k)
               /\ \A k : LenOf(k)' = LenOf(k)
               /\ readonly' = readonly => \A k : Protects(k)' = Protects(k)
    BY <1>1, <1>4, InputStays
  <1>5. ASSUME UNCHANGED <<machine, input, base, code, calls>> PROVE CallsNamed'
    BY <1>3, <1>4, <1>5, Zenon DEF CallsNamed
  <1> HIDE DEF n
  <1>6. CASE i = n + 1
    <2>1. code[ip] = Relro!I("ret", "nr", 0, 1, 0) /\ j = 1
      BY <1>1, <1>3, <1>6 DEF CodeIs, n
    <2>2. code[ip].op = "ret"
      BY <2>1 DEF Relro!I
    <2>3. Relro!Ret
      BY <2>2, ByOp
    <2>4. code_pc' = "returned" /\ UNCHANGED <<machine, input, base, code, ip, reg, readonly, calls>>
      BY <2>3 DEF Relro!Ret, Relro!loaded
    <2>5. ProtectTyped'
      BY <1>4, <2>4 DEF ProtectTyped
    <2>6. CodeIs(code)' /\ Relro!N' = n
      BY <1>4, <2>4 DEF n
    <2>7. Registers(i, j)'
      BY <2>1 DEF Registers
    <2>8. CallsNamed' /\ Protects(i - 1)' = Protects(i - 1)
      BY <1>4, <1>5, <2>4
    <2>9. Protects(i - 1)
      BY <1>3, <2>1
    <2>10. X86At(i, j)'
      BY <1>3, <1>6, <2>1, <2>4, <2>6, <2>7, <2>8, <2>9 DEF X86At
    <2> QED BY <1>6, <2>4, <2>5, <2>6, <2>10 DEF X86Inv, X86Somewhere
  <1>7. CASE i # n + 1
    <2> DEFINE at == 10 * (i - 1)
    <2>1. i \in 1..n /\ at \in Nat /\ ip = at + j
      BY <1>1, <1>3, <1>7 DEF n
    <2>2. IsBody(code, at, OffsetOf(i), SizeOf(i))
      BY <1>1, <2>1 DEF CodeIs, n
    <2>3. CASE j \in 1..6
      <3>1. Quiet /\ ip' = ip + 1 /\ RegsOK(reg') /\ Registers(i, j + 1)'
        BY <1>1, <1>2, <2>1, <2>3, X86Computes DEF n
      <3>2. UNCHANGED <<machine, input, base, code, calls, readonly, code_pc>>
        BY <3>1 DEF Quiet
      <3>3. ProtectTyped'
        BY <1>4, <3>1, <3>2 DEF ProtectTyped
      <3>4. CodeIs(code)' /\ Relro!N' = n /\ CallsNamed' /\ Protects(i - 1)' = Protects(i - 1)
        BY <1>4, <1>5, <3>2 DEF n
      <3>5. j < 8 /\ j + 1 < 8 /\ j + 1 \in 1..10 /\ j + 1 # 10 /\ ~(j + 1 >= 8) /\ ~(j >= 8)
            /\ ip + 1 = 10 * (i - 1) + (j + 1)
        BY <1>3, <2>3
      <3>6. Len(calls) = i - 1 /\ Protects(i - 1)
        BY <1>3, <3>5
      <3>7. X86At(i, j + 1)'
        BY <1>3, <1>7, <3>1, <3>2, <3>4, <3>5, <3>6 DEF X86At
      <3>8. code_pc' = "run" /\ i \in Int /\ j + 1 \in Int
        BY <1>3, <3>2
      <3> QED BY <3>3, <3>4, <3>7, <3>8 DEF X86Inv, X86Somewhere
    <2>4. CASE j = 7
      <3>1. code[ip].op = "syscall"
        BY <2>1, <2>2, <2>4 DEF IsBody, Relro!I
      <3>2. Relro!Syscall
        BY <3>1, ByOp
      <3>3. X86At(i, 7)
        BY <1>2, <2>4
      <3>4. /\ UNCHANGED <<machine, input, base, code, code_pc>> /\ ip' = ip + 1 /\ RegsOK(reg')
            /\ calls' \in Seq(Calls) /\ Len(calls') = i /\ CallsNamed'
            /\ \A k \in 1..(i - 1) : calls'[k] = calls[k]
            /\ calls'[i].failed <=> reg'["nr"] # 0
            /\ Protects(IF reg["nr"] = 0 THEN i ELSE i - 1)'
        BY <1>1, <2>1, <3>2, <3>3, X86Calls DEF n
      <3>5. ProtectTyped'
        BY <1>4, <3>4 DEF ProtectTyped
      <3>6. CodeIs(code)' /\ Relro!N' = n
        BY <1>4, <3>4 DEF n
      <3>7. \A k \in 1..(i - 1) : ~calls'[k].failed
        BY <1>3, <3>4
      <3>8. Registers(i, 8)'
        BY DEF Registers
      <3>10. X86At(i, 8)'
        BY <1>3, <1>7, <2>1, <2>4, <3>4, <3>6, <3>7, <3>8 DEF X86At
      <3>11. code_pc' = "run" /\ i \in Int /\ 8 \in Int
        BY <1>3, <3>4
      <3> QED BY <3>5, <3>6, <3>10, <3>11 DEF X86Inv, X86Somewhere
    <2>5. CASE j = 8
      <3>1. code[ip].op = "test"
        BY <2>1, <2>2, <2>5 DEF IsBody, Relro!I
      <3>2. Relro!Test
        BY <3>1, ByOp
      <3>3. ip' = ip + 1 /\ UNCHANGED <<machine, input, base, code, reg, readonly, calls, code_pc>>
        BY <3>2 DEF Relro!Test, Relro!Step, Relro!loaded
      <3>4. ProtectTyped' /\ CodeIs(code)' /\ Relro!N' = n /\ CallsNamed'
        BY <1>4, <1>5, <3>3 DEF ProtectTyped, n
      <3>5. Registers(i, 9)'
        BY DEF Registers
      <3>6. (Protects(IF reg["nr"] = 0 THEN i ELSE i - 1))'
        BY <1>3, <1>4, <2>5, <3>3
      <3>7. X86At(i, 9)'
        BY <1>3, <1>7, <2>1, <2>5, <3>3, <3>4, <3>5, <3>6 DEF X86At
      <3>8. code_pc' = "run" /\ i \in Int /\ 9 \in Int
        BY <1>3, <3>3
      <3> QED BY <3>4, <3>7, <3>8 DEF X86Inv, X86Somewhere
    <2>6. CASE j = 9
      <3>1. code[ip].op = "jz"
        BY <2>1, <2>2, <2>6 DEF IsBody, Relro!I
      <3>2. Relro!Jz
        BY <3>1, ByOp
      <3>3. X86At(i, 9)
        BY <1>2, <2>6
      <3>4. /\ UNCHANGED <<machine, input, base, code, reg, readonly, calls, code_pc>>
            /\ ip' = IF reg["nr"] = 0 THEN 10 * i + 1 ELSE ip + 1
        BY <1>1, <2>1, <3>2, <3>3, X86Jumps DEF n
      <3>5. ProtectTyped' /\ CodeIs(code)' /\ Relro!N' = n /\ CallsNamed'
        BY <1>4, <1>5, <3>4 DEF ProtectTyped, n
      <3>6. code_pc' = "run" /\ i \in Int /\ i + 1 \in Int /\ 1 \in Int /\ 10 \in Int
        BY <1>3, <3>4
      <3>7. CASE reg["nr"] = 0
        <4>1. Protects(i)' /\ Len(calls') = i /\ ip' = 10 * i + 1
          BY <1>3, <1>4, <2>6, <3>4, <3>7
        <4>2. \A k \in 1..i : ~calls'[k].failed
          <5> TAKE k \in 1..i
          <5>1. k = i \/ k \in 1..(i - 1)
            BY <2>1
          <5> QED BY <1>3, <2>6, <3>4, <3>7, <5>1
        <4>3. /\ i + 1 \in 1..(n + 1) /\ 1 \in 1..10 /\ 10 * i + 1 = 10 * ((i + 1) - 1) + 1
              /\ (i + 1) - 1 = i /\ 1 < 8 /\ ~(1 >= 8) /\ 1 # 10
          BY <1>1, <2>1 DEF n
        <4>4. Registers(i + 1, 1)'
          BY DEF Registers
        <4>5. X86At(i + 1, 1)'
          BY <3>4, <3>5, <4>1, <4>2, <4>3, <4>4 DEF X86At
        <4> QED BY <3>5, <3>6, <4>5 DEF X86Inv, X86Somewhere
      <3>8. CASE reg["nr"] # 0
        <4>1. Protects(i - 1)' /\ Len(calls') = i /\ ip' = 10 * (i - 1) + 10 /\ calls'[i].failed
          BY <1>3, <1>4, <2>6, <3>4, <3>8
        <4>2. Registers(i, 10)'
          BY DEF Registers
        <4>3. X86At(i, 10)'
          BY <1>3, <1>7, <3>4, <3>5, <3>8, <4>1, <4>2 DEF X86At
        <4> QED BY <3>5, <3>6, <4>3 DEF X86Inv, X86Somewhere
      <3> QED BY <3>7, <3>8
    <2>7. CASE j = 10
      <3>1. code[ip].op = "ud2"
        BY <2>1, <2>2, <2>7 DEF IsBody, Relro!I
      <3>2. Relro!Ud2
        BY <3>1, ByOp
      <3>3. code_pc' = "trapped" /\ UNCHANGED <<machine, input, base, code, ip, reg, readonly, calls>>
        BY <3>2 DEF Relro!Ud2, Relro!loaded
      <3>4. ProtectTyped' /\ CodeIs(code)' /\ Relro!N' = n /\ CallsNamed'
        BY <1>4, <1>5, <3>3 DEF ProtectTyped, n
      <3>5. Registers(i, 10)'
        BY DEF Registers
      <3>6. (Protects(IF reg["nr"] = 0 THEN i ELSE i - 1))'
        BY <1>3, <1>4, <2>7, <3>3
      <3>7. X86At(i, 10)'
        BY <1>3, <1>7, <2>7, <3>3, <3>4, <3>5, <3>6 DEF X86At
      <3> QED BY <1>3, <3>3, <3>4, <3>7 DEF X86Inv, X86Somewhere
    <2> QED BY <1>3, <2>3, <2>4, <2>5, <2>6, <2>7
  <1> QED BY <1>6, <1>7

ProtectInv == ProtectTyped /\ X86Inv /\ ArmInv

\* Before the code is written.
LEMMA ProtectInit == ASSUME Relro!Init PROVE ProtectInv
  <1>1. InputOK
    <2>1. input \in Regions /\ base \in Bases
      BY DEF Relro!Init
    <2>2. /\ input.code \in Nat /\ input.regions \in Seq([vaddr : Nat, memsz : Nat])
          /\ \A k \in DOMAIN input.regions :
                base + input.regions[k].vaddr + input.regions[k].memsz < Relro!Word
      BY <2>1, OutputUseAssumption DEF Relro!InputsAssumption
    <2>3. base \in Nat
      BY <2>1, OutputUseAssumption DEF Relro!InputsAssumption
    <2>4. DOMAIN input.regions = 1..Relro!N
      BY <2>2 DEF Relro!N
    <2> QED BY <2>2, <2>3, <2>4 DEF InputOK
  <1>2. RegsOK(reg)
    <2>1. PICK g \in Garbage : reg = [r \in Relro!Regs |-> g]
      BY DEF Relro!Init
    <2>2. g \in 0..(Width - 1)
      BY OutputUseAssumption DEF Relro!WidthAssumption, Width
    <2> QED BY <2>1, <2>2 DEF RegsOK
  <1>3. calls = <<>> /\ calls \in Seq(Calls) /\ machine \in Machines /\ ip = 1 /\ readonly = {} /\ code_pc = "add"
    BY DEF Relro!Init
  <1> QED BY <1>1, <1>2, <1>3 DEF ProtectInv, ProtectTyped, X86Inv, ArmInv

\* Writing it.
LEMMA ProtectEmit ==
    ASSUME ProtectInv, code_pc = "add", Relro!Emit
    PROVE  ProtectInv'
  <1>1. /\ code' = IF machine = "x86_64" THEN Relro!EmitX86_64 ELSE Relro!EmitAarch64
        /\ code_pc' = "run" /\ UNCHANGED <<machine, input, base, ip, reg, readonly, calls>>
    BY DEF Relro!Emit
  <1>2. ProtectTyped /\ InputOK /\ Relro!N \in Nat /\ ip = 1 /\ readonly = {} /\ calls = <<>>
    BY InputTyped DEF ProtectInv, ProtectTyped
  <1>3. InputOK' /\ Relro!N' = Relro!N
    BY <1>1, <1>2 DEF InputOK, Relro!N
  <1>4. ProtectTyped'
    BY <1>1, <1>2, <1>3 DEF ProtectTyped
  <1>5. ASSUME machine = "x86_64" PROVE CodeIs(code)' /\ X86At(1, 1)'
    <2>1. CodeIs(code')
      BY <1>1, <1>2, <1>5, EmittedX86
    <2>2. \A i : OffsetOf(i)' = OffsetOf(i) /\ SizeOf(i)' = SizeOf(i)
      BY <1>1, Zenon DEF OffsetOf, SizeOf, Relro!SizeX86_64, Relro!Size32, Relro!PageOf
    <2>3. CodeIs(code)'
      BY <1>3, <2>1, <2>2, Zenon DEF CodeIs
    <2>4. Registers(1, 1)' /\ CallsNamed' /\ Len(calls') = 0 /\ Protects(0)'
      BY <1>1, <1>2 DEF Registers, CallsNamed, Done, Protects
    <2>5. /\ 1 \in 1..(Relro!N + 1) /\ 1 \in 1..10 /\ 1 = 10 * (1 - 1) + 1 /\ 1 - 1 = 0 /\ 1 < 8 /\ ~(1 >= 8)
          /\ 1 # 10
      BY <1>2
    <2>6. X86At(1, 1)'
      BY <1>1, <1>2, <1>3, <2>4, <2>5 DEF X86At
    <2> QED BY <2>3, <2>6
  <1>6. ASSUME machine # "x86_64" PROVE ArmCodeIs(code)' /\ ArmAt(1, 1)'
    <2>1. ArmCodeIs(code')
      BY <1>1, <1>2, <1>6, EmittedArm
    <2>2. ArmCodeIs(code)'
      BY <1>3, <2>1, Zenon DEF ArmCodeIs
    <2>3. /\ 1 \in 1..(Relro!N + 1) /\ 1 \in 1..13 /\ 1 = 13 * (1 - 1) + 1 /\ 1 - 1 = 0 /\ 1 # 13
      BY <1>2
    <2>4. ArmAt(1, 1)'
      BY <1>1, <1>2, <1>3, <2>3 DEF ArmAt
    <2> QED BY <2>2, <2>4
  <1>7. X86Inv' /\ ArmInv'
    BY <1>1, <1>2, <1>5, <1>6 DEF X86Inv, X86Somewhere, ArmInv
  <1> QED BY <1>4, <1>7 DEF ProtectInv

\* Every action keeps the invariant.
LEMMA ProtectStep == ASSUME ProtectInv, Relro!Next PROVE ProtectInv'
  <1>1. CASE code_pc = "add"
    <2>1. Relro!Emit
      BY <1>1, ByOp
    <2> QED BY <1>1, <2>1, ProtectEmit
  <1>2. CASE code_pc # "add"
    <2>1. code_pc = "run"
      BY <1>2, ByOp
    <2>2. machine' = machine
      BY <2>1, ByOp DEF Relro!Mov, Relro!Movk, Relro!Lea, Relro!Adr, Relro!AddReg, Relro!Syscall, Relro!Svc,
         Relro!Test, Relro!Jz, Relro!Ud2, Relro!Ret, Relro!loaded
    <2>3. CASE machine = "x86_64"
      BY <2>1, <2>2, <2>3, X86Step DEF ProtectInv, ArmInv
    <2>4. CASE machine # "x86_64"
      BY <2>1, <2>2, <2>4, ArmStep DEF ProtectInv, X86Inv
    <2> QED BY <2>3, <2>4
  <1> QED BY <1>1, <1>2

\* A step of another part changes nothing.
LEMMA ProtectStutter == ASSUME ProtectInv, UNCHANGED relro_vars PROVE ProtectInv'
  <1>1. UNCHANGED <<machine, input, base, code, ip, reg, readonly, calls, code_pc>>
    BY DEF relro_vars
  <1>2. /\ InputOK' = InputOK /\ Relro!N' = Relro!N /\ CodeIs(code)' = CodeIs(code)
        /\ \A i : OffsetOf(i)' = OffsetOf(i) /\ SizeOf(i)' = SizeOf(i) /\ StartOf(i)' = StartOf(i)
        /\ \A i : LenOf(i)' = LenOf(i) /\ Protects(i)' = Protects(i)
    BY <1>1, InputStays
  <1>3. ProtectTyped'
    BY <1>1, <1>2 DEF ProtectInv, ProtectTyped
  <1>4. CallsNamed' = CallsNamed
    BY <1>1, <1>2, Zenon DEF CallsNamed
  <1>5. \A i, j : Registers(i, j)' = Registers(i, j)
    BY <1>1, <1>2, Zenon DEF Registers
  <1>6. \A i, j : X86At(i, j)' = X86At(i, j)
    <2> TAKE i, j
    <2>1. Registers(i, j)' = Registers(i, j)
      BY <1>5
    <2>2. (Protects(IF j >= 8 /\ reg["nr"] = 0 THEN i ELSE i - 1))' = Protects(IF j >= 8 /\ reg["nr"] = 0 THEN i ELSE i - 1)
      BY <1>1, <1>2
    <2> QED BY <1>1, <1>2, <1>4, <2>1, <2>2 DEF X86At
  <1>7. X86Inv' = X86Inv
    BY <1>1, <1>2, <1>6, Zenon DEF X86Inv, X86Somewhere
  <1>8. ArmCodeIs(code)' = ArmCodeIs(code) /\ \A i, j : ArmAt(i, j)' = ArmAt(i, j)
    BY <1>1, <1>2, Zenon DEF ArmCodeIs, ArmAt
  <1>9. ArmInv' = ArmInv
    BY <1>1, <1>8, Zenon DEF ArmInv
  <1> QED BY <1>3, <1>7, <1>9 DEF ProtectInv

\* What is left of the invariant when the instruction pointer is forgotten.
LEMMA ProtectedSoFar ==
    ASSUME ProtectInv
    PROVE  Relro!NothingElseProtected /\ Relro!PagesProtected /\ Relro!TrapsOnFailure /\ Relro!CallsNameRegions
  <1> DEFINE n == Relro!N
  <1>1. /\ ProtectTyped /\ n \in Nat /\ code_pc \in {"add", "run", "returned", "trapped"}
        /\ calls \in Seq(Calls)
    BY InputTyped DEF ProtectInv, ProtectTyped
  <1>2. Relro!AllPages = Done(n)
    BY DEF Relro!AllPages, Done
  <1>3. CASE code_pc = "add"
    <2>1. readonly = {} /\ calls = <<>> /\ DOMAIN calls = {}
      BY <1>1, <1>3 DEF ProtectTyped
    <2> QED BY <1>3, <2>1 DEF Relro!NothingElseProtected, Relro!PagesProtected, Relro!TrapsOnFailure, Relro!CallsNameRegions
  <1>4. CASE code_pc # "add" /\ machine # "x86_64"
    <2>1. readonly = {}
      BY <1>4 DEF ProtectInv, ArmInv
    <2> QED BY <1>4, <2>1 DEF Relro!NothingElseProtected, Relro!PagesProtected, Relro!TrapsOnFailure,
            Relro!CallsNameRegions, Relro!X86
  <1>5. CASE code_pc # "add" /\ machine = "x86_64"
    <2>1. PICK i \in Int, j \in Int : /\ X86At(i, j)
                                      /\ code_pc = "returned" => i = n + 1
                                      /\ code_pc = "trapped" => j = 10
      BY <1>5 DEF ProtectInv, X86Inv, X86Somewhere
    <2>2. /\ i \in 1..(n + 1) /\ j \in 1..10 /\ (i = n + 1 => j = 1)
          /\ Len(calls) = (IF j < 8 THEN i - 1 ELSE i) /\ CallsNamed
          /\ \A k \in 1..(i - 1) : ~calls[k].failed
          /\ j = 10 => calls[i].failed
          /\ Protects(IF j >= 8 /\ reg["nr"] = 0 THEN i ELSE i - 1)
      BY <2>1 DEF X86At
    <2>3. DOMAIN calls = 1..Len(calls)
      BY <1>1
    <2> HIDE DEF n
    <2>4. readonly \subseteq Done(n)
      <3> DEFINE m == IF j >= 8 /\ reg["nr"] = 0 THEN i ELSE i - 1
      <3>1. 1..m \subseteq 1..n
        BY <1>1, <2>2
      <3> HIDE DEF m
      <3>2. Done(m) \subseteq Done(n)
        BY <3>1 DEF Done
      <3> QED BY <2>2, <3>2 DEF m, Protects
    <2>5. ASSUME code_pc = "returned"
          PROVE  Protects(n) /\ Len(calls) = n /\ \A k \in DOMAIN calls : ~calls[k].failed
      <3>1. i = n + 1 /\ j = 1 /\ i - 1 = n /\ ~(j >= 8)
        BY <1>1, <2>1, <2>2, <2>5 DEF n
      <3> QED BY <2>2, <2>3, <3>1
    <2>6. code_pc = "trapped" => calls[Len(calls)].failed
      BY <2>1, <2>2
    <2>7. Relro!CallsNameRegions
      <3>1. SUFFICES ASSUME NEW k \in DOMAIN calls
                     PROVE  /\ calls[k].addr = base + Relro!PageOf(input.regions[k].vaddr)
                            /\ Relro!SizesFit => \/ calls[k].len = WholeOf(k)
                                                 \/ WholeOf(k) >= Relro!Dword \div 2 /\ calls[k].failed
        BY DEF Relro!CallsNameRegions, WholeOf
      <3>2. k \in 1..n /\ k \in 1..Len(calls)
        BY <1>1, <2>2, <2>3
      <3>3. /\ calls[k].addr = StartOf(k) /\ calls[k].len = LenOf(k)
            /\ SizeOf(k) < Relro!Dword \div 2 \/ calls[k].failed
        BY <2>2, <3>2 DEF CallsNamed
      <3>4. SizeOf(k) \in 0..(Relro!Dword - 1) /\ (Relro!SizesFit => SizeOf(k) = WholeOf(k))
        <4>1. k \in 1..Relro!N /\ InputOK
          BY <1>1, <3>2 DEF n, ProtectTyped
        <4>2. SizeOf(k) \in Nat /\ SizeOf(k) < Relro!Dword /\ (Relro!SizesFit => SizeOf(k) = WholeOf(k))
          BY <4>1, InputTyped, SizeWritten
        <4> QED BY <4>2, DwordTyped
      <3>5. SizeOf(k) < Relro!Dword \div 2 => LenOf(k) = SizeOf(k)
        BY <3>4, LengthPassed DEF LenOf
      <3>6. SizeOf(k) < Relro!Dword \div 2 \/ SizeOf(k) >= Relro!Dword \div 2
        BY <3>4, DwordTyped
      <3> QED BY <3>3, <3>4, <3>5, <3>6 DEF StartOf
    <2>8. Relro!TrapsOnFailure
      BY <2>5, <2>6 DEF Relro!TrapsOnFailure, n
    <2> QED BY <1>2, <1>5, <2>4, <2>5, <2>7, <2>8
           DEF Relro!NothingElseProtected, Relro!PagesProtected, Relro!X86, Protects
  <1> QED BY <1>3, <1>4, <1>5

\* The length that the comments of mprotect_builder.cc count.
LEMMA BytesOfBody == Relro!Bytes(Relro!memprotect_body_code_x86_64) = 47
  <1> DEFINE c == Relro!memprotect_body_code_x86_64
  <1>1. c \in Seq(Instrs) /\ Len(c) = 10 /\ DOMAIN c = 1..10 /\ IsBody(c, 0, 0, 0)
    BY EmptyBody
  <1> HIDE DEF c
  <1>2. /\ c[1].len = 10 /\ c[2].len = 7 /\ c[3].len = 3 /\ c[4].len = 7 /\ c[5].len = 7 /\ c[6].len = 5
        /\ c[7].len = 2 /\ c[8].len = 2 /\ c[9].len = 2 /\ c[10].len = 2
    BY <1>1 DEF IsBody, Relro!I
  <1>3. Relro!Bytes(c) = 47
    <2>1. BodyLens(c)
      BY <1>1, <1>2 DEF BodyLens
    <2> QED BY <2>1, BodyLengths
  <1> QED BY <1>3 DEF c

\* What is written is as long as what is planned.
LEMMA PlannedSize == ASSUME ProtectInv PROVE Relro!SizeIsPlanned
  <1>1. SUFFICES ASSUME code_pc # "add" PROVE Relro!Bytes(code) = Relro!Size
    BY DEF Relro!SizeIsPlanned
  <1>2. InputOK
    BY DEF ProtectInv, ProtectTyped
  <1>3. CASE machine = "x86_64"
    <2>1. Relro!Bytes(code) = 47 * Relro!N + 1
      BY <1>1, <1>2, <1>3, SizeOfCode DEF ProtectInv, X86Inv
    <2>2. Relro!Size = 47 * Relro!N + 1
      BY <1>3, BytesOfBody DEF Relro!Size
    <2> QED BY <2>1, <2>2
  <1>4. CASE machine # "x86_64"
    <2>1. Relro!Bytes(code) = 52 * Relro!N + 4
      BY <1>1, <1>2, <1>4, SizeOfArmCode DEF ProtectInv, ArmInv
    <2>2. Relro!Size = 52 * Relro!N + 4
      BY <1>4 DEF Relro!Size, Relro!body_code_length_aarch64
    <2> QED BY <2>1, <2>2
  <1> QED BY <1>3, <1>4

\* The types follow.
LEMMA RelroTyped == ASSUME ProtectInv PROVE Relro!TypeOK
  <1>1. /\ ProtectTyped /\ Relro!N \in Nat /\ code_pc \in {"add", "run", "returned", "trapped"}
        /\ RegsOK(reg) /\ InputOK
    BY InputTyped DEF ProtectInv, ProtectTyped
  <1>2. \A r \in Relro!Regs : reg[r] \in 0..(Relro!Word - 1)
    BY <1>1 DEF RegsOK, Width
  <1>3. CASE code_pc = "add"
    BY <1>1, <1>2, <1>3 DEF ProtectTyped, Relro!TypeOK
  <1>4. CASE code_pc # "add" /\ machine = "x86_64"
    <2>1. PICK i \in Int, j \in Int : X86At(i, j)
      BY <1>4 DEF ProtectInv, X86Inv, X86Somewhere
    <2>2. /\ i \in 1..(Relro!N + 1) /\ j \in 1..10 /\ ip = 10 * (i - 1) + j /\ (i = Relro!N + 1 => j = 1)
          /\ Len(calls) = (IF j < 8 THEN i - 1 ELSE i)
      BY <2>1 DEF X86At
    <2>3. DOMAIN code = 1..(10 * Relro!N + 1)
      BY <1>1, <1>4, CodeTyped DEF ProtectInv, X86Inv
    <2>4. ip \in DOMAIN code /\ Len(calls) <= Relro!N
      BY <1>1, <2>2, <2>3
    <2> QED BY <1>1, <1>2, <2>4 DEF Relro!TypeOK
  <1>5. CASE code_pc # "add" /\ machine # "x86_64"
    <2>1. PICK i \in Int, j \in Int : ArmAt(i, j)
      BY <1>5 DEF ProtectInv, ArmInv
    <2>2. /\ i \in 1..(Relro!N + 1) /\ j \in 1..13 /\ ip = 13 * (i - 1) + j /\ (i = Relro!N + 1 => j = 1)
          /\ Len(calls) = i - 1
      BY <2>1 DEF ArmAt
    <2>3. DOMAIN code = 1..(13 * Relro!N + 1)
      BY <1>1, <1>5 DEF ProtectInv, ArmInv, ArmCodeIs
    <2>4. ip \in DOMAIN code /\ Len(calls) <= Relro!N
      BY <1>1, <2>2, <2>3
    <2> QED BY <1>1, <1>2, <2>4 DEF Relro!TypeOK
  <1> QED BY <1>3, <1>4, <1>5

\* The code that sold writes protects what RelroProtected says, for every
\* number of regions of every size, wherever they are and wherever the output is
\* mapped; exactly their pages when no size exceeds a uint32_t (SizesFit).
THEOREM RelroProtectedHolds == Spec => []RelroProtected
  <1> DEFINE I == part = "protect" => ProtectInv
  <1>1. Init => I
    BY ProtectInit DEF Init
  <1>2. I /\ [Next]_vars => I'
    <2> SUFFICES ASSUME I, [Next]_vars, part' = "protect" PROVE ProtectInv'
      OBVIOUS
    <2>1. part = "protect" /\ (Relro!Next \/ UNCHANGED relro_vars)
      BY DEF Next, vars, Protect, Load, Rename, Relink
    <2> QED BY <2>1, ProtectStep, ProtectStutter
  <1>3. I => RelroProtected
    BY ProtectedSoFar, PlannedSize DEF RelroProtected
  <1> QED BY <1>1, <1>2, <1>3, PTL DEF Spec
=============================================================================
