------------------------ MODULE LibraryResolve_proofs ------------------------
(***************************************************************************)
(* Theorems about ResolveLibraryPaths and TopologicalSort, for every set   *)
(* of libraries, directories, search paths, DT_NEEDED lists and exclusions.*)
(*                                                                         *)
(* The inductive invariant ResolveInv has these parts.                     *)
(*   Shape     the types, with what a DT_NEEDED entry and a queue may hold *)
(*   Tables    the name tables say what DT_SONAME says                     *)
(*   LinkList  link_binaries_buf: the main binary, then libraries, each    *)
(*             one that is to be linked, and none of them twice            *)
(*   Searched  of what was read, all but what the queue still holds has    *)
(*             been searched for                                           *)
(*   Reached   whatever is read is needed                                  *)
(*   Permuted  the list being sorted is a permutation of link_binaries_buf *)
(*   Untangled what is sorted already is needed by nothing behind it       *)
(* The first five are about the search, the last two about the sort.       *)
(* Walking says that the search follows the breadth-first walk of the      *)
(* module LibraryResolve; it is kept apart because only CopyOfFirstNeeder  *)
(* needs it.                                                               *)
(***************************************************************************)
EXTENDS LibraryResolve, SequenceTheorems, Induction_proofs, TLAPS

Shape ==
    /\ phase \in {"search", "sort", "dynamic", "done", "aborted"}
    /\ queue \in Seq(Names) /\ nth \in Nat \ {0} /\ i \in Nat \ {0} /\ sorted \in BOOLEAN
    /\ DOMAIN libraries \subseteq Libs
    /\ neededs \in [DOMAIN libraries \cup {Root} -> Seq(Libs)]
    /\ Elements(queue) \subseteq DOMAIN neededs
    /\ link_binaries_buf \in Seq(Names)
    /\ buf \in Seq([name : Names, seen : Nat])
    /\ exclude \subseteq Sonames /\ needed_out \subseteq Libs

Tables ==
    /\ DOMAIN filename_to_soname = DOMAIN libraries \cup {FileName(n) : n \in Registered(Root)}
    /\ \A f \in DOMAIN filename_to_soname : filename_to_soname[f] = Soname[f]
    /\ \A s \in DOMAIN soname_to_filename :
          /\ soname_to_filename[s] \in DOMAIN filename_to_soname
          /\ Soname[soname_to_filename[s]] = s
    /\ \A f \in DOMAIN libraries : Soname[f] \in DOMAIN soname_to_filename

LinkList ==
    /\ Len(link_binaries_buf) >= 1 /\ link_binaries_buf[1] = Root
    /\ \A j \in 2..Len(link_binaries_buf) :
          /\ link_binaries_buf[j] \in DOMAIN libraries
          /\ ShouldLink(Soname[link_binaries_buf[j]])
    /\ \A j, k \in 1..Len(link_binaries_buf) : link_binaries_buf[j] = link_binaries_buf[k] => j = k

Searched ==
    /\ \A n \in DOMAIN neededs \ Elements(queue) : Elements(neededs[n]) \subseteq DOMAIN libraries
    /\ queue # <<>> => \A j \in 1..(nth - 1) : j <= Len(neededs[Head(queue)])
                            => neededs[Head(queue)][j] \in DOMAIN libraries
    /\ phase \notin {"search", "aborted"} => queue = <<>>

Reached == \A S \in SUBSET Names : Root \in S /\ Closed(S) => DOMAIN neededs \subseteq S

Sorting == {"sort", "dynamic", "done"}

\* The list b is a permutation of the names l that keeps the main binary first.
Permutation(b, l) ==
    /\ Len(b) = Len(l) /\ Len(b) >= 1 /\ b[1].name = Root
    /\ {b[j].name : j \in 1..Len(b)} = {l[j] : j \in 1..Len(l)}
    /\ \A j, k \in 1..Len(b) : b[j].name = b[k].name => j = k

Permuted ==
    /\ phase \in Sorting => Permutation(buf, link_binaries_buf)
    /\ phase = "search" => i = 1
    /\ phase \in {"search", "sort"} => ~sorted
    /\ phase = "sort" => i <= Len(buf)
    /\ phase \in {"dynamic", "done"} => i = Len(buf) + 1
    /\ phase = "done" => needed_out = NeededOut

\* Behind position p of b nothing needs what stands before it; no element at p or
\* behind has come round twice, those that have come round once are last, and each
\* of those is needed by one of the others.
Untangling(b, p) ==
    /\ \A k \in 1..(p - 1), j \in 1..Len(b) : k <= j => ~Needs(b[j].name, b[k].name)
    /\ \A k \in p..Len(b) :
          /\ b[k].seen <= 1
          /\ \A j \in k..Len(b) : b[k].seen <= b[j].seen
          /\ b[k].seen = 1 => \E j \in p..Len(b) : Needs(b[j].name, b[k].name)

Untangled == phase \in Sorting /\ Acyclic => Untangling(buf, i)

ResolveInv ==
    /\ Shape /\ Tables /\ LinkList /\ Searched /\ Reached /\ Permuted /\ Untangled

-----------------------------------------------------------------------------
(***************************************************************************)
(* Sequences as queues.                                                    *)
(***************************************************************************)
LEMMA AppendElements ==
  ASSUME NEW T, NEW s \in Seq(T), NEW x \in T
  PROVE  Elements(Append(s, x)) = Elements(s) \cup {x}
<1>1. /\ Append(s, x) \in Seq(T) /\ Len(Append(s, x)) = Len(s) + 1
      /\ Append(s, x)[Len(s) + 1] = x
      /\ \A j \in 1..Len(s) : Append(s, x)[j] = s[j]
  OBVIOUS
<1>2. DOMAIN s = 1..Len(s) /\ Len(s) \in Nat
  OBVIOUS
<1>3. DOMAIN Append(s, x) = 1..(Len(s) + 1)
  BY <1>1
<1>4. x \in Elements(Append(s, x))
  <2>1. Len(s) + 1 \in DOMAIN Append(s, x) /\ Append(s, x)[Len(s) + 1] = x
    BY <1>1, <1>2
  <2> QED BY <2>1 DEF Elements
<1>5. Elements(s) \subseteq Elements(Append(s, x))
  <2>1. \A j \in DOMAIN s : j \in DOMAIN Append(s, x) /\ Append(s, x)[j] = s[j]
    BY <1>1, <1>2
  <2> QED BY <2>1 DEF Elements
<1>6. Elements(Append(s, x)) \subseteq Elements(s) \cup {x}
  BY <1>1, <1>2, <1>3 DEF Elements
<1> QED BY <1>4, <1>5, <1>6

LEMMA SingletonList ==
  ASSUME NEW T, NEW x \in T
  PROVE  /\ <<x>> \in Seq(T) /\ Len(<<x>>) = 1 /\ <<x>>[1] = x /\ Head(<<x>>) = x
         /\ Elements(<<x>>) = {x}
<1> DEFINE s == <<x>>
<1>1. <<x>> \in Seq(T)
  OBVIOUS
<1>2. Len(s) = 1 /\ s[1] = x
  OBVIOUS
<1>3. s \in Seq(T) /\ s # <<>>
  BY <1>1, <1>2
<1> HIDE DEF s
<1>4. Head(s) = x
  BY <1>2, <1>3
<1>5. DOMAIN s = 1..1
  BY <1>2, <1>3
<1>6. Elements(s) = {x}
  BY <1>2, <1>5 DEF Elements
<1> QED BY <1>2, <1>3, <1>4, <1>6 DEF s

LEMMA TailElements ==
  ASSUME NEW T, NEW s \in Seq(T), s # <<>>
  PROVE  /\ Tail(s) \in Seq(T) /\ Head(s) \in Elements(s)
         /\ Elements(Tail(s)) \subseteq Elements(s)
         /\ Elements(s) \subseteq Elements(Tail(s)) \cup {Head(s)}
<1>1. /\ DOMAIN s = 1..Len(s) /\ Len(s) \in Nat \ {0} /\ Head(s) = s[1]
      /\ DOMAIN Tail(s) = 1..(Len(s) - 1) /\ \A j \in 1..(Len(s) - 1) : Tail(s)[j] = s[j + 1]
  <2>1. Tail(s) \in Seq(T) /\ Len(Tail(s)) = Len(s) - 1 /\ Len(s) \in Nat \ {0}
    OBVIOUS
  <2> QED BY <2>1
<1>2. Tail(s) \in Seq(T)
  OBVIOUS
<1>3. Head(s) \in Elements(s)
  BY <1>1 DEF Elements
<1>4. Elements(Tail(s)) \subseteq Elements(s)
  <2>1. \A j \in DOMAIN Tail(s) : j + 1 \in DOMAIN s /\ Tail(s)[j] = s[j + 1]
    BY <1>1
  <2> QED BY <2>1 DEF Elements
<1>5. Elements(s) \subseteq Elements(Tail(s)) \cup {Head(s)}
  <2>1. SUFFICES ASSUME NEW j \in DOMAIN s, j # 1
                 PROVE  \E k \in DOMAIN Tail(s) : Tail(s)[k] = s[j]
    BY <1>1, <2>1 DEF Elements
  <2>2. j - 1 \in DOMAIN Tail(s) /\ Tail(s)[j - 1] = s[j]
    BY <1>1, <2>1
  <2> QED BY <2>2
<1> QED BY <1>2, <1>3, <1>4, <1>5

\* A function read after an assignment.
LEMMA PutValue ==
  ASSUME NEW m, NEW k, NEW v
  PROVE  /\ DOMAIN Put(m, k, v) = DOMAIN m \cup {k}
         /\ Put(m, k, v)[k] = v
         /\ \A x \in DOMAIN m : x # k => Put(m, k, v)[x] = m[x]
BY DEF Put

-----------------------------------------------------------------------------
(***************************************************************************)
(* The search.                                                             *)
(***************************************************************************)
\* What the search looks for is a library, and the binary at the head was read.
LEMMA NeededIsLibrary ==
  ASSUME Shape, Searching
  PROVE  /\ Head(queue) \in DOMAIN neededs /\ Head(queue) \in Names
         /\ Needed \in Libs /\ Needed \in Names /\ Needed # Root
         /\ Needed \in Elements(neededs[Head(queue)])
         /\ nth \in 1..Len(neededs[Head(queue)])
<1>1. queue \in Seq(Names) /\ queue # <<>> /\ nth <= Len(neededs[Head(queue)])
  BY DEF Shape, Searching, AtBinary
<1>2. Head(queue) \in DOMAIN neededs /\ Head(queue) \in Names
  <2>1. Head(queue) \in Elements(queue)
    BY <1>1, TailElements
  <2>2. Head(queue) \in Names
    BY <1>1
  <2> QED BY <2>1, <2>2 DEF Shape
<1>3. neededs[Head(queue)] \in Seq(Libs)
  BY <1>2 DEF Shape
<1>4. nth \in 1..Len(neededs[Head(queue)])
  BY <1>1, <1>3 DEF Shape
<1>5. Needed \in Libs /\ Needed \in Elements(neededs[Head(queue)])
  BY <1>3, <1>4 DEF Needed, Elements
<1> QED BY <1>2, <1>4, <1>5, RootAssumption DEF Names

\* A library that is read leaves what was read before as it is.
LEMMA LoadedNeededs ==
  ASSUME Shape, Searching, ~Known(Needed), NEW ns \in Contents(Needed)
  PROVE  /\ ns \in Seq(Libs) /\ Needed \notin DOMAIN neededs
         /\ DOMAIN Put(neededs, Needed, ns) = DOMAIN neededs \cup {Needed}
         /\ Put(neededs, Needed, ns)[Needed] = ns
         /\ \A n \in DOMAIN neededs : Put(neededs, Needed, ns)[n] = neededs[n]
<1>1. Needed \in Libs /\ Needed \in Names /\ Needed # Root
  BY NeededIsLibrary
<1>2. Needed \notin DOMAIN neededs
  BY <1>1 DEF Known, Shape
<1>3. ns \in Seq(Libs)
  <2>1. CASE Needed = OwnName
    BY <2>1 DEF Contents, Shape
  <2>2. CASE Needed # OwnName
    <3>1. ns \in NeededLists[Needed]
      BY <2>2 DEF Contents
    <3> QED BY <3>1, <1>1, PathAssumption
  <2> QED BY <2>1, <2>2
<1> QED BY <1>2, <1>3 DEF Put

\* At the start only the main binary was read, and it is at the head of the queue.
LEMMA SearchInit ==
  ASSUME Init
  PROVE  Shape /\ Tables /\ LinkList /\ Searched /\ Reached
<1>1. PICK ns \in NeededLists[Root] : neededs = [n \in {Root} |-> ns]
  BY DEF Init
<1>2. Root \in Names /\ ns \in Seq(Libs) /\ OwnName \in Libs /\ Soname \in [Names -> Sonames \cup {""}]
  BY PathAssumption, <1>1 DEF Names
<1>3. DOMAIN libraries = {} /\ DOMAIN neededs = {Root} /\ neededs[Root] = ns
  BY <1>1 DEF Init
<1>4. /\ queue = <<Root>> /\ link_binaries_buf = <<Root>> /\ buf = <<>>
      /\ phase = "search" /\ nth = 1 /\ i = 1 /\ sorted = FALSE
      /\ exclude \in ExcludeChoices /\ needed_out = {}
  BY DEF Init
<1>5. /\ queue \in Seq(Names) /\ Head(queue) = Root /\ Elements(queue) = {Root}
      /\ link_binaries_buf \in Seq(Names) /\ Len(link_binaries_buf) = 1
      /\ link_binaries_buf[1] = Root
  <2>1. <<Root>> \in Seq(Names)
    BY <1>2, SingletonList
  <2>2. /\ Len(<<Root>>) = 1 /\ <<Root>>[1] = Root /\ Head(<<Root>>) = Root
        /\ Elements(<<Root>>) = {Root}
    BY <1>2, SingletonList
  <2> QED BY <1>4, <2>1, <2>2
<1>6. Shape
  <2>1. exclude \subseteq Sonames
    BY <1>4, PathAssumption
  <2>2. neededs \in [DOMAIN libraries \cup {Root} -> Seq(Libs)]
    BY <1>1, <1>2, <1>3
  <2>3. buf \in Seq([name : Names, seen : Nat])
    BY <1>4
  <2>4. Elements(queue) \subseteq DOMAIN neededs /\ DOMAIN libraries \subseteq Libs
    BY <1>3, <1>5
  <2>5. 1 \in Nat \ {0} /\ {} \subseteq Libs /\ FALSE \in BOOLEAN
    OBVIOUS
  <2> QED BY <1>4, <1>5, <2>1, <2>2, <2>3, <2>4, <2>5 DEF Shape
<1>7. Tables
  <2>1. CASE Soname[Root] = ""
    BY <1>3, <2>1 DEF Init, Tables, Registered
  <2>2. CASE Soname[Root] # ""
    <3>1. /\ filename_to_soname = [f \in {OwnName} |-> Soname[f]]
          /\ soname_to_filename = [s \in {Soname[Root]} |-> OwnName]
      BY <2>2 DEF Init, Registered, FileName
    <3>2. {FileName(n) : n \in Registered(Root)} = {OwnName}
      BY <2>2 DEF Registered, FileName
    <3> QED BY <1>3, <3>1, <3>2, PathAssumption DEF Tables
  <2> QED BY <2>1, <2>2
<1>8. LinkList
  BY <1>5 DEF LinkList
<1>9. Searched
  BY <1>3, <1>4, <1>5 DEF Searched
<1>10. Reached
  BY <1>3 DEF Reached
<1> QED BY <1>6, <1>7, <1>8, <1>9, <1>10

\* An entry whose library is known, or a binary that is done with, is put aside.
LEMMA SkipKeeps ==
  ASSUME Shape, Tables, LinkList, Searched, Reached, SkipNeeded
  PROVE  Shape' /\ Tables' /\ LinkList' /\ Searched' /\ Reached'
<1>1. Searching /\ Needed \in DOMAIN libraries
  BY DEF SkipNeeded, Known
<1>2. /\ nth' = nth + 1
      /\ UNCHANGED <<phase, queue, maps, link_binaries_buf, exclude, needed_out, neededs, sort>>
  BY DEF SkipNeeded
<1>3. Shape'
  BY <1>2 DEF Shape, maps, sort, Elements
<1>4. Tables' /\ LinkList' /\ Reached'
  BY <1>2 DEF Tables, LinkList, Reached, Closed, Elements, maps, ShouldLink
<1>5. Searched'
  <2>1. nth \in Nat \ {0}
    BY DEF Shape
  <2>2. \A j \in 1..((nth + 1) - 1) : j \in 1..(nth - 1) \/ j = nth
    BY <2>1
  <2>3. queue' # <<>> => \A j \in 1..(nth' - 1) : j <= Len(neededs'[Head(queue')])
                            => neededs'[Head(queue')][j] \in DOMAIN libraries'
    BY <1>1, <1>2, <2>2 DEF Searched, Needed, maps
  <2> QED BY <1>2, <2>3 DEF Searched, Elements, maps
<1> QED BY <1>3, <1>4, <1>5

LEMMA PopKeeps ==
  ASSUME Shape, Tables, LinkList, Searched, Reached, PopBinary
  PROVE  Shape' /\ Tables' /\ LinkList' /\ Searched' /\ Reached'
<1>1. /\ queue # <<>> /\ nth > Len(neededs[Head(queue)])
      /\ queue' = Tail(queue) /\ nth' = 1
      /\ UNCHANGED <<phase, maps, link_binaries_buf, exclude, needed_out, neededs, sort>>
  BY DEF PopBinary, AtBinary
<1>2. /\ queue \in Seq(Names) /\ Elements(queue) \subseteq DOMAIN neededs
      /\ neededs \in [DOMAIN libraries \cup {Root} -> Seq(Libs)] /\ nth \in Nat
  BY DEF Shape
<1>3. /\ Tail(queue) \in Seq(Names) /\ Head(queue) \in Elements(queue)
      /\ Elements(Tail(queue)) \subseteq Elements(queue)
      /\ Elements(queue) \subseteq Elements(Tail(queue)) \cup {Head(queue)}
  BY <1>1, <1>2, TailElements
<1>4. Shape'
  <2>1. Elements(queue') \subseteq DOMAIN neededs'
    BY <1>1, <1>2, <1>3
  <2> QED BY <1>1, <1>3, <2>1 DEF Shape, maps, sort
<1>5. Tables' /\ LinkList' /\ Reached'
  BY <1>1 DEF Tables, LinkList, Reached, Closed, Elements, maps, ShouldLink
<1>6. Searched'
  <2>1. Elements(neededs[Head(queue)]) \subseteq DOMAIN libraries
    <3>1. neededs[Head(queue)] \in Seq(Libs)
      BY <1>2, <1>3
    <3>2. \A j \in DOMAIN neededs[Head(queue)] : j \in 1..(nth - 1) /\ j <= Len(neededs[Head(queue)])
      BY <1>1, <1>2, <3>1
    <3> QED BY <1>1, <3>2 DEF Searched, Elements
  <2>2. \A n \in DOMAIN neededs \ Elements(Tail(queue)) : Elements(neededs[n]) \subseteq DOMAIN libraries
    <3>1. \A n \in DOMAIN neededs \ Elements(Tail(queue)) :
             n \in DOMAIN neededs \ Elements(queue) \/ n = Head(queue)
      BY <1>3
    <3> QED BY <2>1, <3>1 DEF Searched
  <2>3. \A n \in DOMAIN neededs' \ Elements(queue') : Elements(neededs'[n]) \subseteq DOMAIN libraries'
    BY <1>1, <2>2 DEF Elements, maps
  <2>4. phase' = "search"
    BY <1>1 DEF PopBinary, AtBinary
  <2> QED BY <1>1, <2>3, <2>4 DEF Searched
<1> QED BY <1>4, <1>5, <1>6

\* What LoadNeeded assigns when the library can be loaded.
Loads(ns) ==
    /\ neededs' = Put(neededs, Needed, ns)
    /\ filename_to_soname' = Put(filename_to_soname, Needed, Soname[Needed])
    /\ soname_to_filename' = NewSonames
    /\ link_binaries_buf' = IF ShouldLink(Soname[Needed])
                            THEN Append(link_binaries_buf, Needed) ELSE link_binaries_buf
    /\ libraries' = Inserted
    /\ queue' = Enqueued
    /\ nth' = nth + 1
    /\ phase' = phase
    /\ UNCHANGED <<exclude, needed_out, sort>>

LEMMA LoadCases ==
  ASSUME LoadNeeded
  PROVE  \/ \E ns \in Contents(Needed) : Loads(ns)
         \/ /\ phase' = "aborted"
            /\ UNCHANGED <<neededs, maps, link_binaries_buf, queue, nth, exclude, needed_out, sort>>
<1>1. CASE Loadable
  <2>1. \E ns \in Contents(Needed) : neededs' = Put(neededs, Needed, ns)
    BY <1>1 DEF LoadNeeded
  <2> QED BY <1>1, <2>1 DEF LoadNeeded, Loads
<1>2. CASE ~Loadable
  BY <1>2 DEF LoadNeeded
<1> QED BY <1>1, <1>2

LEMMA LoadShape ==
  ASSUME Shape, Searching, ~Known(Needed), NEW ns \in Contents(Needed), Loads(ns)
  PROVE  /\ Shape'
         /\ DOMAIN libraries' = DOMAIN libraries \cup {Needed}
         /\ DOMAIN neededs' = DOMAIN neededs \cup {Needed}
         /\ Elements(queue') = Elements(queue) \cup {Needed}
         /\ queue # <<>> /\ queue' # <<>> /\ Head(queue') = Head(queue)
<1>1. /\ Needed \in Libs /\ Needed \in Names
      /\ Head(queue) \in DOMAIN neededs
  BY NeededIsLibrary
<1>2. /\ queue \in Seq(Names) /\ queue # <<>> /\ link_binaries_buf \in Seq(Names)
      /\ DOMAIN neededs = DOMAIN libraries \cup {Root}
  BY DEF Shape, Searching, AtBinary
<1>3. queue' = Append(queue, Needed)
  BY DEF Loads, Enqueued
<1>4. queue' \in Seq(Names) /\ queue' # <<>> /\ Head(queue') = Head(queue)
  <2>1. /\ Append(queue, Needed) \in Seq(Names) /\ Append(queue, Needed) # <<>>
        /\ Head(Append(queue, Needed)) = Head(queue)
    BY <1>1, <1>2
  <2> QED BY <2>1, <1>3
<1>5. Elements(queue') = Elements(queue) \cup {Needed}
  BY <1>1, <1>2, <1>3, AppendElements
<1>6. DOMAIN libraries' = DOMAIN libraries \cup {Needed}
  <2>1. DOMAIN Inserted = DOMAIN libraries \cup {Needed}
    BY PutValue DEF Inserted
  <2> QED BY <2>1 DEF Loads
<1>7. /\ DOMAIN neededs' = DOMAIN neededs \cup {Needed}
      /\ neededs' \in [DOMAIN libraries' \cup {Root} -> Seq(Libs)]
  <2>1. /\ ns \in Seq(Libs) /\ DOMAIN Put(neededs, Needed, ns) = DOMAIN neededs \cup {Needed}
        /\ Put(neededs, Needed, ns)[Needed] = ns
        /\ \A n \in DOMAIN neededs : Put(neededs, Needed, ns)[n] = neededs[n]
    BY LoadedNeededs
  <2>2. \A n \in DOMAIN neededs : neededs[n] \in Seq(Libs)
    BY DEF Shape
  <2>3. neededs' = [x \in DOMAIN neededs' |-> neededs'[x]]
    BY DEF Loads, Put
  <2>4. neededs' = Put(neededs, Needed, ns)
    BY DEF Loads
  <2>5. DOMAIN neededs' = DOMAIN libraries' \cup {Root}
    BY <1>2, <1>6, <2>1, <2>4
  <2>6. \A n \in DOMAIN neededs' : neededs'[n] \in Seq(Libs)
    BY <2>1, <2>2, <2>4
  <2> QED BY <2>1, <2>3, <2>4, <2>5, <2>6
<1>8. link_binaries_buf' \in Seq(Names)
  <2>1. Append(link_binaries_buf, Needed) \in Seq(Names)
    BY <1>1, <1>2
  <2> QED BY <1>2, <2>1 DEF Loads
<1>9. Shape'
  <2>1. /\ phase' = phase /\ nth' = nth + 1 /\ i' = i /\ sorted' = sorted /\ buf' = buf
        /\ exclude' = exclude /\ needed_out' = needed_out
    BY DEF Loads, sort
  <2>2. nth' \in Nat \ {0}
    BY <2>1 DEF Shape
  <2>3. DOMAIN libraries' \subseteq Libs
    BY <1>1, <1>6 DEF Shape
  <2>4. Elements(queue') \subseteq DOMAIN neededs'
    BY <1>5, <1>7 DEF Shape
  <2> QED BY <1>4, <1>7, <1>8, <2>1, <2>2, <2>3, <2>4 DEF Shape
<1> QED BY <1>2, <1>4, <1>5, <1>6, <1>7, <1>9

\* The library is registered under its name and its soname.
LEMMA LoadTables ==
  ASSUME Shape, Tables, Searching, ~Known(Needed), NEW ns \in Contents(Needed), Loads(ns)
  PROVE  Tables'
<1>1. DOMAIN libraries' = DOMAIN libraries \cup {Needed} /\ Needed \in Libs
  BY LoadShape, NeededIsLibrary
<1> DEFINE f2s == Put(filename_to_soname, Needed, Soname[Needed])
           s2f == Put(soname_to_filename, Soname[Needed], Needed)
           own == {FileName(n) : n \in Registered(Root)}
<1>2. /\ DOMAIN f2s = DOMAIN filename_to_soname \cup {Needed}
      /\ f2s[Needed] = Soname[Needed]
      /\ \A x \in DOMAIN filename_to_soname : x # Needed => f2s[x] = filename_to_soname[x]
  BY DEF Put
<1>3. /\ DOMAIN s2f = DOMAIN soname_to_filename \cup {Soname[Needed]}
      /\ s2f[Soname[Needed]] = Needed
      /\ \A x \in DOMAIN soname_to_filename : x # Soname[Needed] => s2f[x] = soname_to_filename[x]
  BY DEF Put
<1>4. filename_to_soname' = f2s /\ soname_to_filename' = s2f
  BY DEF Loads, NewSonames
<1> HIDE DEF f2s, s2f, own
<1>5. DOMAIN f2s = DOMAIN libraries' \cup own
  BY <1>1, <1>2 DEF Tables, own
<1>6. \A f \in DOMAIN f2s : f2s[f] = Soname[f]
  BY <1>2 DEF Tables
<1>7. \A s \in DOMAIN s2f : s2f[s] \in DOMAIN f2s /\ Soname[s2f[s]] = s
  BY <1>2, <1>3 DEF Tables
<1>8. \A f \in DOMAIN libraries' : Soname[f] \in DOMAIN s2f
  BY <1>1, <1>3 DEF Tables
<1> QED BY <1>4, <1>5, <1>6, <1>7, <1>8 DEF Tables, own

\* It is linked when ShouldLink says so, behind what was found before.
LEMMA LoadLinkList ==
  ASSUME Shape, LinkList, Searching, ~Known(Needed), NEW ns \in Contents(Needed), Loads(ns)
  PROVE  LinkList'
<1>1. /\ DOMAIN libraries' = DOMAIN libraries \cup {Needed} /\ Needed \in Names
      /\ Needed # Root /\ Needed \notin DOMAIN libraries
  BY LoadShape, NeededIsLibrary DEF Known
<1>2. /\ link_binaries_buf \in Seq(Names) /\ Len(link_binaries_buf) \in Nat
      /\ exclude' = exclude
  BY DEF Shape, Loads
<1>3. CASE ~ShouldLink(Soname[Needed])
  <2>1. link_binaries_buf' = link_binaries_buf
    BY <1>3 DEF Loads
  <2> QED BY <1>1, <1>2, <2>1 DEF LinkList, ShouldLink
<1>4. CASE ShouldLink(Soname[Needed])
  <2> DEFINE l == Append(link_binaries_buf, Needed)
  <2>1. link_binaries_buf' = l
    BY <1>4 DEF Loads
  <2>2. /\ Len(l) = Len(link_binaries_buf) + 1 /\ l[Len(link_binaries_buf) + 1] = Needed
        /\ \A j \in 1..Len(link_binaries_buf) : l[j] = link_binaries_buf[j]
    BY <1>1, <1>2
  <2> HIDE DEF l
  <2>3. \A j \in 1..Len(l) : j \in 1..Len(link_binaries_buf) \/ j = Len(link_binaries_buf) + 1
    BY <1>2, <2>2
  <2>4. Len(l) >= 1 /\ l[1] = Root
    BY <1>2, <2>2 DEF LinkList
  <2>5. \A j \in 1..Len(link_binaries_buf) : link_binaries_buf[j] # Needed
    <3>1. \A j \in 1..Len(link_binaries_buf) : j = 1 \/ j \in 2..Len(link_binaries_buf)
      BY <1>2
    <3> QED BY <1>1, <3>1 DEF LinkList
  <2>6. \A j \in 2..Len(l) : l[j] \in DOMAIN libraries' /\ Soname[l[j]] \notin exclude
    <3>1. \A j \in 2..Len(l) : j \in 2..Len(link_binaries_buf) \/ j = Len(link_binaries_buf) + 1
      BY <1>2, <2>2
    <3>2. \A j \in 2..Len(link_binaries_buf) : l[j] = link_binaries_buf[j]
      BY <1>2, <2>2
    <3> QED BY <1>1, <1>4, <2>2, <3>1, <3>2 DEF LinkList, ShouldLink
  <2>7. \A j, k \in 1..Len(l) : l[j] = l[k] => j = k
    BY <2>2, <2>3, <2>5 DEF LinkList
  <2> QED BY <1>2, <2>1, <2>4, <2>6, <2>7 DEF LinkList, ShouldLink
<1> QED BY <1>3, <1>4

\* It is queued, so that only what was read before must have been searched for.
LEMMA LoadSearched ==
  ASSUME Shape, Searched, Searching, ~Known(Needed), NEW ns \in Contents(Needed), Loads(ns)
  PROVE  Searched'
<1>1. /\ DOMAIN libraries' = DOMAIN libraries \cup {Needed}
      /\ DOMAIN neededs' = DOMAIN neededs \cup {Needed}
      /\ Elements(queue') = Elements(queue) \cup {Needed}
      /\ queue # <<>> /\ queue' # <<>> /\ Head(queue') = Head(queue)
  BY LoadShape
<1>2. /\ \A n \in DOMAIN neededs : neededs'[n] = neededs[n]
      /\ Head(queue) \in DOMAIN neededs
  BY LoadedNeededs, NeededIsLibrary DEF Loads
<1>3. \A n \in DOMAIN neededs' \ Elements(queue') : Elements(neededs'[n]) \subseteq DOMAIN libraries'
  <2>1. SUFFICES ASSUME NEW n \in DOMAIN neededs' \ Elements(queue')
                 PROVE  Elements(neededs'[n]) \subseteq DOMAIN libraries'
    OBVIOUS
  <2>2. n \in DOMAIN neededs \ Elements(queue)
    BY <1>1, <2>1
  <2>3. neededs'[n] = neededs[n]
    BY <1>2, <2>2
  <2>4. Elements(neededs[n]) \subseteq DOMAIN libraries
    BY <2>2 DEF Searched
  <2> QED BY <1>1, <2>3, <2>4
<1>4. \A j \in 1..(nth' - 1) : j <= Len(neededs'[Head(queue')])
          => neededs'[Head(queue')][j] \in DOMAIN libraries'
  <2>1. nth' = nth + 1 /\ nth \in Nat \ {0}
    BY DEF Loads, Shape
  <2>2. SUFFICES ASSUME NEW j \in 1..(nth' - 1), j <= Len(neededs[Head(queue)])
                 PROVE  neededs[Head(queue)][j] \in DOMAIN libraries \cup {Needed}
    BY <1>1, <1>2
  <2>3. CASE j = nth
    BY <2>3 DEF Needed
  <2>4. CASE j \in 1..(nth - 1)
    BY <1>1, <2>2, <2>4 DEF Searched
  <2> QED BY <2>1, <2>2, <2>3, <2>4
<1>5. phase' = "search"
  BY DEF Loads, Searching, AtBinary
<1> QED BY <1>3, <1>4, <1>5 DEF Searched

\* A binary that was read needs it.
LEMMA LoadReached ==
  ASSUME Shape, Reached, Searching, ~Known(Needed), NEW ns \in Contents(Needed), Loads(ns)
  PROVE  Reached'
<1>1. /\ DOMAIN neededs' = DOMAIN neededs \cup {Needed}
      /\ \A n \in DOMAIN neededs : neededs'[n] = neededs[n]
  BY LoadShape, LoadedNeededs DEF Loads
<1>2. Head(queue) \in DOMAIN neededs /\ Needed \in Elements(neededs[Head(queue)])
  BY NeededIsLibrary
<1>3. SUFFICES ASSUME NEW S \in SUBSET Names, Root \in S,
                      \A n \in S \cap DOMAIN neededs' : Elements(neededs'[n]) \subseteq S
               PROVE  DOMAIN neededs' \subseteq S
  BY DEF Reached, Closed, Elements
<1>4. \A n \in S \cap DOMAIN neededs : Elements(neededs[n]) \subseteq S
  BY <1>1, <1>3
<1>5. DOMAIN neededs \subseteq S
  BY <1>3, <1>4 DEF Reached, Closed
<1>6. Needed \in S
  BY <1>2, <1>4, <1>5
<1> QED BY <1>1, <1>5, <1>6

\* What the search has found stays once it is over.
LEMMA StaysFound ==
  ASSUME Tables, LinkList, Searched, Reached,
         UNCHANGED <<queue, nth, maps, link_binaries_buf, exclude, neededs>>,
         phase' \notin {"search", "aborted"} => queue = <<>>
  PROVE  Tables' /\ LinkList' /\ Searched' /\ Reached'
<1>1. Tables' /\ LinkList' /\ Reached'
  BY DEF Tables, LinkList, Reached, Closed, Elements, maps, ShouldLink
<1>2. Searched'
  BY DEF Searched, Elements, maps
<1> QED BY <1>1, <1>2

LEMMA LoadKeeps ==
  ASSUME Shape, Tables, LinkList, Searched, Reached, LoadNeeded
  PROVE  Shape' /\ Tables' /\ LinkList' /\ Searched' /\ Reached'
<1>1. Searching /\ ~Known(Needed) /\ phase = "search"
  BY DEF LoadNeeded, Searching, AtBinary
<1>2. CASE \E ns \in Contents(Needed) : Loads(ns)
  BY <1>1, <1>2, LoadShape, LoadTables, LoadLinkList, LoadSearched, LoadReached
<1>3. CASE /\ phase' = "aborted"
           /\ UNCHANGED <<neededs, maps, link_binaries_buf, queue, nth, exclude, needed_out, sort>>
  <2>1. Shape'
    BY <1>3 DEF Shape, maps, sort, Elements
  <2>2. Tables' /\ LinkList' /\ Searched' /\ Reached'
    BY <1>3, StaysFound
  <2> QED BY <2>1, <2>2
<1> QED BY <1>2, <1>3, LoadCases

-----------------------------------------------------------------------------
(***************************************************************************)
(* One turn of the sort.                                                   *)
(***************************************************************************)
Recs == [name : Names, seen : Nat]

\* Counting the look changes nothing else.
LEMMA LookedList ==
  ASSUME buf \in Seq(Recs), i \in 1..Len(buf)
  PROVE  /\ Looked \in Seq(Recs) /\ Len(Looked) = Len(buf)
         /\ \A j \in 1..Len(buf) : /\ Looked[j].name = buf[j].name
                                   /\ j # i => Looked[j] = buf[j]
         /\ Looked[i].seen = buf[i].seen + 1 /\ Looked[i] \in Recs
<1> DEFINE r == [buf[i] EXCEPT !.seen = buf[i].seen + 1]
<1>1. buf[i] \in Recs
  OBVIOUS
<1>2. r \in Recs /\ r.name = buf[i].name /\ r.seen = buf[i].seen + 1
  BY <1>1 DEF Recs
<1>3. Looked = [buf EXCEPT ![i] = r]
  BY DEF Looked
<1> HIDE DEF r
<1>4. Looked \in Seq(Recs) /\ Len(Looked) = Len(buf)
  BY <1>2, <1>3
<1>5. Looked[i] = r /\ \A j \in 1..Len(buf) : j # i => Looked[j] = buf[j]
  BY <1>3
<1> QED BY <1>2, <1>4, <1>5

\* Those behind move up, the element itself goes to the end.
LEMMA MovedList ==
  ASSUME buf \in Seq(Recs), i \in 1..Len(buf)
  PROVE  /\ MovedToEnd \in Seq(Recs) /\ Len(MovedToEnd) = Len(buf)
         /\ \A j \in 1..(i - 1) : MovedToEnd[j] = buf[j]
         /\ \A j \in i..(Len(buf) - 1) : MovedToEnd[j] = buf[j + 1]
         /\ MovedToEnd[Len(buf)] = Looked[i]
<1>1. Looked[i] \in Recs /\ Len(buf) \in Nat /\ DOMAIN buf = 1..Len(buf)
  BY LookedList
<1>2. MovedToEnd = [j \in 1..Len(buf) |-> IF j < i THEN buf[j]
                                          ELSE IF j < Len(buf) THEN buf[j + 1] ELSE Looked[i]]
  BY <1>1 DEF MovedToEnd
<1>3. \A j \in 1..Len(buf) : MovedToEnd[j] \in Recs
  <2>1. \A j \in 1..Len(buf) : buf[j] \in Recs
    OBVIOUS
  <2>2. \A j \in 1..Len(buf) : j < Len(buf) => j + 1 \in 1..Len(buf)
    BY <1>1
  <2> QED BY <1>1, <1>2, <2>1, <2>2
<1>4. MovedToEnd \in Seq(Recs) /\ Len(MovedToEnd) = Len(buf)
  <2> DEFINE m == MovedToEnd
  <2>1. m = [j \in 1..Len(buf) |-> m[j]] /\ \A j \in 1..Len(buf) : m[j] \in Recs
    BY <1>2, <1>3
  <2> HIDE DEF m
  <2>2. m \in [1..Len(buf) -> Recs]
    BY <2>1
  <2>3. m \in Seq(Recs) /\ Len(m) = Len(buf)
    BY <1>1, <2>2
  <2> QED BY <2>3 DEF m
<1>5. \A j \in 1..(i - 1) : j \in 1..Len(buf) /\ j < i
  BY <1>1
<1>6. \A j \in i..(Len(buf) - 1) : j \in 1..Len(buf) /\ ~(j < i) /\ j < Len(buf)
  BY <1>1
<1>7. Len(buf) \in 1..Len(buf) /\ ~(Len(buf) < i) /\ ~(Len(buf) < Len(buf))
  BY <1>1
<1> QED BY <1>2, <1>4, <1>5, <1>6, <1>7

\* What Advance does to the list that is left.
LEMMA AdvanceList ==
  ASSUME NEW list \in Seq(Recs), i \in 1..Len(list), Advance(list), ~sorted, sorted \in BOOLEAN
  PROVE  /\ i' = i + 1 /\ buf' \in Seq(Recs) /\ Len(buf') = Len(list)
         /\ \A j \in 1..Len(list) : /\ buf'[j].name = list[j].name
                                    /\ j > i => buf'[j].seen = 0
         /\ sorted' \in BOOLEAN /\ (sorted' <=> i = Len(list))
<1>1. i' = i + 1 /\ Len(list) \in Nat /\ DOMAIN list = 1..Len(list)
  BY DEF Advance
<1>2. CASE i = Len(list)
  <2>1. buf' = list /\ sorted' = TRUE
    BY <1>2 DEF Advance
  <2>2. \A j \in 1..Len(list) : ~(j > i)
    BY <1>1, <1>2
  <2> QED BY <1>1, <1>2, <2>1, <2>2
<1>3. CASE i # Len(list)
  <2> DEFINE e(j) == IF j > i THEN [list[j] EXCEPT !.seen = 0] ELSE list[j]
             b == [j \in 1..Len(list) |-> e(j)]
  <2>1. buf' = b /\ sorted' = sorted
    BY <1>1, <1>3 DEF Advance
  <2>2. \A j \in 1..Len(list) : e(j) \in Recs /\ e(j).name = list[j].name /\ (j > i => e(j).seen = 0)
    <3>1. SUFFICES ASSUME NEW j \in 1..Len(list)
                   PROVE  e(j) \in Recs /\ e(j).name = list[j].name /\ (j > i => e(j).seen = 0)
      OBVIOUS
    <3>2. list[j] \in Recs
      OBVIOUS
    <3>3. /\ [list[j] EXCEPT !.seen = 0] \in Recs
          /\ [list[j] EXCEPT !.seen = 0].name = list[j].name
          /\ [list[j] EXCEPT !.seen = 0].seen = 0
      BY <3>2 DEF Recs
    <3> QED BY <3>2, <3>3
  <2> HIDE DEF e
  <2>3. b \in Seq(Recs) /\ Len(b) = Len(list)
    <3>1. b \in [1..Len(list) -> Recs]
      BY <2>2
    <3> QED BY <1>1, <3>1
  <2> QED BY <1>1, <1>3, <2>1, <2>2, <2>3
<1> QED BY <1>2, <1>3

-----------------------------------------------------------------------------
(***************************************************************************)
(* Permutations.                                                           *)
(***************************************************************************)
\* Only the names of the elements count.
LEMMA SameNamesPermute ==
  ASSUME NEW b, NEW c, NEW l, Permutation(b, l), Len(c) = Len(b),
         \A j \in 1..Len(b) : c[j].name = b[j].name, Len(b) \in Nat
  PROVE  Permutation(c, l)
<1>1. {c[j].name : j \in 1..Len(c)} = {b[j].name : j \in 1..Len(b)}
  OBVIOUS
<1>2. c[1].name = b[1].name
  BY DEF Permutation
<1> QED BY <1>1, <1>2 DEF Permutation

\* Nothing needs the main binary: at its position the sort moves on.
LEMMA RootStays ==
  ASSUME NeededLater, i \in 1..Len(buf), NEW l, Permutation(buf, l)
  PROVE  i # 1 /\ i < Len(buf)
BY DEF NeededLater, Permutation

LEMMA MovedPermutes ==
  ASSUME buf \in Seq(Recs), i \in 1..Len(buf), NeededLater, NEW l, Permutation(buf, l)
  PROVE  Permutation(MovedToEnd, l)
<1> DEFINE m == MovedToEnd
           n == Len(buf)
           from(j) == IF j < i THEN j ELSE IF j < n THEN j + 1 ELSE i
           to(k) == IF k < i THEN k ELSE IF k = i THEN n ELSE k - 1
<1>1. /\ Len(m) = n /\ n \in Nat
      /\ \A j \in 1..(i - 1) : m[j] = buf[j]
      /\ \A j \in i..(n - 1) : m[j] = buf[j + 1]
      /\ m[n].name = buf[i].name
  BY MovedList, LookedList
<1>2. i # 1 /\ i < n
  BY RootStays
<1> HIDE DEF m, n
<1>3. \A j \in 1..n : from(j) \in 1..n /\ m[j].name = buf[from(j)].name
  <2>1. SUFFICES ASSUME NEW j \in 1..n PROVE from(j) \in 1..n /\ m[j].name = buf[from(j)].name
    OBVIOUS
  <2>2. CASE j < i
    BY <1>1, <1>2, <2>2
  <2>3. CASE ~(j < i) /\ j < n
    BY <1>1, <1>2, <2>3
  <2>4. CASE ~(j < i) /\ ~(j < n)
    BY <1>1, <1>2, <2>4
  <2> QED BY <2>2, <2>3, <2>4
<1>4. \A k \in 1..n : to(k) \in 1..n /\ from(to(k)) = k
  BY <1>1, <1>2
<1>5. \A j, k \in 1..n : from(j) = from(k) => j = k
  BY <1>1, <1>2
<1> HIDE DEF from, to
<1>6. {m[j].name : j \in 1..n} = {buf[j].name : j \in 1..n}
  <2>1. \A j \in 1..n : m[j].name \in {buf[k].name : k \in 1..n}
    BY <1>3
  <2>2. \A k \in 1..n : buf[k].name \in {m[j].name : j \in 1..n}
    <3>1. \A k \in 1..n : buf[k].name = m[to(k)].name
      BY <1>3, <1>4
    <3> QED BY <1>4, <3>1
  <2> QED BY <2>1, <2>2
<1>7. \A j, k \in 1..n : m[j].name = m[k].name => j = k
  <2>1. \A j, k \in 1..n : buf[j].name = buf[k].name => j = k
    BY DEF Permutation, n
  <2> QED BY <1>3, <1>5, <2>1, SMTT(40)
<1>8. m[1].name = Root
  <2>1. 1 \in 1..(i - 1)
    BY <1>2
  <2> QED BY <1>1, <2>1 DEF Permutation
<1> QED BY <1>1, <1>6, <1>7, <1>8 DEF Permutation, m, n

-----------------------------------------------------------------------------
(***************************************************************************)
(* The actions after the search.                                           *)
(***************************************************************************)
\* The three ways a turn of the sort can go.
LEMMA SortCases ==
  ASSUME Shape, Permuted, Sort
  PROVE  /\ buf \in Seq(Recs) /\ i \in 1..Len(buf) /\ ~sorted /\ phase = "sort"
         /\ phase' = (IF sorted' THEN "dynamic" ELSE "sort")
         /\ UNCHANGED <<queue, nth, maps, link_binaries_buf, exclude, needed_out, neededs>>
         /\ \/ ~NeededLater /\ Advance(Looked)
            \/ NeededLater /\ Exhausted /\ Advance(MovedToEnd)
            \/ NeededLater /\ ~Exhausted /\ buf' = MovedToEnd /\ i' = i /\ sorted' = sorted
<1>1. buf \in Seq(Recs) /\ i \in Nat \ {0}
  BY DEF Shape, Recs
<1>2. ~sorted /\ i <= Len(buf) /\ phase = "sort"
  BY DEF Sort, SortStep
<1>3. i \in 1..Len(buf)
  BY <1>1, <1>2
<1> QED BY <1>1, <1>2, <1>3 DEF Sort, SortStep

LEMMA SortPermuted ==
  ASSUME Shape, Permuted, Sort
  PROVE  Shape' /\ Permuted'
<1>1. /\ buf \in Seq(Recs) /\ i \in 1..Len(buf) /\ ~sorted /\ phase = "sort"
      /\ phase' = (IF sorted' THEN "dynamic" ELSE "sort")
      /\ UNCHANGED <<queue, nth, maps, link_binaries_buf, exclude, needed_out, neededs>>
  BY SortCases
<1>2. Permutation(buf, link_binaries_buf) /\ sorted \in BOOLEAN /\ Len(buf) \in Nat
  BY <1>1 DEF Permuted, Sorting, Shape
<1>3. /\ i' \in Nat \ {0} /\ sorted' \in BOOLEAN /\ buf' \in Seq(Recs)
      /\ Permutation(buf', link_binaries_buf)
      /\ IF sorted' THEN i' = Len(buf') + 1 ELSE i' <= Len(buf')
  <2>1. ASSUME NEW list \in Seq(Recs), Len(list) = Len(buf), Advance(list),
               Permutation(list, link_binaries_buf)
        PROVE  /\ i' \in Nat \ {0} /\ sorted' \in BOOLEAN /\ buf' \in Seq(Recs)
               /\ Permutation(buf', link_binaries_buf)
               /\ IF sorted' THEN i' = Len(buf') + 1 ELSE i' <= Len(buf')
    <3>1. i \in 1..Len(list) /\ Len(list) \in Nat
      BY <1>1, <1>2, <2>1
    <3>2. /\ i' = i + 1 /\ buf' \in Seq(Recs) /\ Len(buf') = Len(list)
          /\ \A j \in 1..Len(list) : buf'[j].name = list[j].name
          /\ sorted' \in BOOLEAN /\ (sorted' <=> i = Len(list))
      BY <1>1, <1>2, <2>1, <3>1, AdvanceList
    <3>3. Permutation(buf', link_binaries_buf)
      BY <2>1, <3>1, <3>2, SameNamesPermute
    <3> QED BY <3>1, <3>2, <3>3
  <2>2. CASE ~NeededLater /\ Advance(Looked)
    <3>1. /\ Looked \in Seq(Recs) /\ Len(Looked) = Len(buf)
          /\ \A j \in 1..Len(buf) : Looked[j].name = buf[j].name
      BY <1>1, LookedList
    <3>2. Permutation(Looked, link_binaries_buf)
      BY <1>2, <3>1, SameNamesPermute
    <3> QED BY <2>1, <2>2, <3>1, <3>2
  <2>3. CASE NeededLater /\ Exhausted /\ Advance(MovedToEnd)
    <3>1. /\ MovedToEnd \in Seq(Recs) /\ Len(MovedToEnd) = Len(buf)
          /\ Permutation(MovedToEnd, link_binaries_buf)
      BY <1>1, <1>2, <2>3, MovedList, MovedPermutes
    <3> QED BY <2>1, <2>3, <3>1
  <2>4. CASE NeededLater /\ ~Exhausted /\ buf' = MovedToEnd /\ i' = i /\ sorted' = sorted
    <3>1. /\ MovedToEnd \in Seq(Recs) /\ Len(MovedToEnd) = Len(buf)
          /\ Permutation(MovedToEnd, link_binaries_buf)
      BY <1>1, <1>2, <2>4, MovedList, MovedPermutes
    <3> QED BY <1>1, <1>2, <2>4, <3>1
  <2> QED BY <2>2, <2>3, <2>4, SortCases
<1>4. Shape'
  BY <1>1, <1>3 DEF Shape, Recs, maps, Elements
<1>5. Permuted'
  <2>1. CASE sorted'
    BY <1>1, <1>3, <2>1 DEF Permuted, Sorting
  <2>2. CASE ~sorted'
    BY <1>1, <1>3, <2>2 DEF Permuted, Sorting
  <2> QED BY <2>1, <2>2
<1> QED BY <1>4, <1>5

\* The list starts as link_binaries_buf.
LEMMA StartSortPermuted ==
  ASSUME Shape, LinkList, Permuted, StartSort
  PROVE  /\ Shape' /\ Permuted' /\ phase' = "sort" /\ i' = 1 /\ Len(buf') = Len(link_binaries_buf)
         /\ \A j \in 1..Len(buf') : buf'[j].seen = 0
<1> DEFINE l == link_binaries_buf
           b == [j \in 1..Len(l) |-> [name |-> l[j], seen |-> 0]]
<1>1. /\ phase = "search" /\ queue = <<>> /\ phase' = "sort"
      /\ UNCHANGED <<queue, nth, maps, link_binaries_buf, exclude, needed_out, neededs, i, sorted>>
  BY DEF StartSort
<1>2. l \in Seq(Names) /\ Len(l) \in Nat /\ DOMAIN l = 1..Len(l)
  BY DEF Shape
<1>3. buf' = b
  BY <1>2 DEF StartSort, ListOf
<1>4. b \in Seq(Recs) /\ Len(b) = Len(l) /\ \A j \in 1..Len(l) : b[j].name = l[j] /\ b[j].seen = 0
  <2>1. \A j \in 1..Len(l) : l[j] \in Names
    BY <1>2
  <2>2. b \in [1..Len(l) -> Recs]
    BY <2>1 DEF Recs
  <2>3. \A j \in 1..Len(l) : b[j].name = l[j] /\ b[j].seen = 0
    OBVIOUS
  <2> HIDE DEF b
  <2>4. b \in Seq(Recs) /\ Len(b) = Len(l)
    BY <1>2, <2>2
  <2> QED BY <2>3, <2>4
<1> HIDE DEF b
<1>5. Permutation(b, l)
  BY <1>2, <1>4 DEF Permutation, LinkList, l
<1>6. Shape'
  BY <1>1, <1>3, <1>4 DEF Shape, Recs, maps, Elements
<1>7. Permuted'
  <2>1. i = 1 /\ ~sorted /\ Len(b) >= 1
    BY <1>1, <1>5 DEF Permuted, Permutation
  <2> QED BY <1>1, <1>3, <1>5, <2>1 DEF Permuted, Sorting, l
<1>8. i' = 1
  BY <1>1 DEF Permuted
<1> QED BY <1>1, <1>3, <1>4, <1>6, <1>7, <1>8

LEMMA BuildDynamicKeeps ==
  ASSUME Shape, Permuted, BuildDynamic
  PROVE  Shape' /\ Permuted'
<1>1. /\ phase = "dynamic" /\ needed_out' = NeededOut /\ phase' = "done"
      /\ UNCHANGED <<queue, nth, maps, link_binaries_buf, exclude, neededs, sort>>
  BY DEF BuildDynamic
<1>2. NeededOut \subseteq Libs
  BY DEF NeededOut, Shape
<1>3. Shape'
  BY <1>1, <1>2 DEF Shape, maps, sort, Elements
<1>4. NeededOut' = NeededOut
  BY <1>1 DEF NeededOut, Order, Elements, maps, sort
<1>5. Permuted'
  BY <1>1, <1>4 DEF Permuted, Sorting, sort
<1> QED BY <1>3, <1>5

LEMMA SearchPermuted ==
  ASSUME Permuted, SkipNeeded \/ LoadNeeded \/ PopBinary \/ AbortOnRunPath
  PROVE  Permuted' /\ phase' \notin Sorting
<1>1. phase = "search" /\ phase' \in {"search", "aborted"} /\ UNCHANGED sort
  BY DEF SkipNeeded, LoadNeeded, PopBinary, AbortOnRunPath, Searching, AtBinary
<1> QED BY <1>1 DEF Permuted, Sorting, sort

-----------------------------------------------------------------------------
(***************************************************************************)
(* Without cycles the sort never gives up.                                 *)
(***************************************************************************)
\* Of any positions of the list, one holds a binary the others do not need.
LEMMA SomeUnneeded ==
  ASSUME Acyclic, Shape, Permutation(buf, link_binaries_buf),
         NEW P \in SUBSET (1..Len(buf)), P # {}
  PROVE  \E k \in P : \A j \in P : ~Needs(buf[j].name, buf[k].name)
<1> DEFINE S == {buf[j].name : j \in P}
<1>1. DOMAIN link_binaries_buf = 1..Len(link_binaries_buf)
  BY DEF Shape
<1>2. Linked = {buf[j].name : j \in 1..Len(buf)}
  BY <1>1 DEF Linked, Elements, Permutation
<1>3. S \in SUBSET Linked /\ S # {}
  BY <1>2
<1>4. PICK n \in S : \A m \in S : ~Needs(m, n)
  BY <1>3 DEF Acyclic
<1> QED BY <1>4

\* The binaries of the list were read, so that none of them needs the main binary.
LEMMA NoneNeedsRoot ==
  ASSUME Shape, LinkList, Permutation(buf, link_binaries_buf), NEW j \in 1..Len(buf)
  PROVE  ~Needs(buf[j].name, Root)
<1>1. PICK k \in 1..Len(link_binaries_buf) : buf[j].name = link_binaries_buf[k]
  BY DEF Permutation
<1>2. k = 1 \/ k \in 2..Len(link_binaries_buf)
  BY <1>1
<1>3. buf[j].name \in DOMAIN libraries \cup {Root}
  BY <1>1, <1>2 DEF LinkList
<1>4. neededs[buf[j].name] \in Seq(Libs)
  BY <1>3 DEF Shape
<1>5. \A p \in DOMAIN neededs[buf[j].name] : neededs[buf[j].name][p] \in Libs
  BY <1>4
<1> QED BY <1>5, RootAssumption DEF Needs

\* The binary at the position of the sort was not looked at in this pass: otherwise
\* all that are left were, and each is needed by another.
LEMMA HeadUnseen ==
  ASSUME Acyclic, Shape, Permutation(buf, link_binaries_buf), Untangling(buf, i),
         i \in 1..Len(buf), buf \in Seq(Recs)
  PROVE  buf[i].seen = 0
<1> SUFFICES ASSUME buf[i].seen # 0 PROVE FALSE
  OBVIOUS
<1> DEFINE P == i..Len(buf)
<1>1. Len(buf) \in Nat /\ \A k \in P : k \in 1..Len(buf)
  OBVIOUS
<1>2. \A k \in P : buf[k].seen \in Nat
  <2>1. \A k \in P : buf[k] \in Recs
    BY <1>1
  <2> QED BY <2>1 DEF Recs
<1>3. i \in P /\ buf[i].seen = 1
  BY <1>1, <1>2 DEF Untangling
<1>4. \A k \in P : buf[k].seen = 1
  BY <1>1, <1>2, <1>3 DEF Untangling
<1>5. \A k \in P : \E j \in P : Needs(buf[j].name, buf[k].name)
  BY <1>4 DEF Untangling
<1>6. P \in SUBSET (1..Len(buf)) /\ P # {}
  BY <1>1, <1>3
<1> HIDE DEF P
<1> QED BY <1>5, <1>6, SomeUnneeded

LEMMA NeverExhausted ==
  ASSUME NeededLater, Untangling(buf, i), i \in 1..Len(buf), buf \in Seq(Recs),
         Permutation(buf, link_binaries_buf)
  PROVE  ~Exhausted
<1>1. i < Len(buf) /\ Len(buf) \in Nat
  BY RootStays
<1>2. MovedToEnd[i] = buf[i + 1]
  BY <1>1, MovedList
<1>3. i + 1 \in i..Len(buf) /\ buf[i + 1] \in Recs
  BY <1>1
<1>4. buf[i + 1].seen <= 1 /\ buf[i + 1].seen \in Nat
  BY <1>3 DEF Untangling, Recs
<1> QED BY <1>1, <1>2, <1>4 DEF Exhausted, n_rest

\* The sort moves on past a binary that nothing behind it needs.
LEMMA AdvanceUntangles ==
  ASSUME Acyclic, Shape, LinkList, Permutation(buf, link_binaries_buf), Untangling(buf, i),
         i \in 1..Len(buf), buf \in Seq(Recs), ~NeededLater, NEW b \in Seq(Recs),
         Len(b) = Len(buf), \A j \in 1..Len(buf) : b[j].name = buf[j].name,
         \A j \in 1..Len(buf) : j > i => b[j].seen = 0
  PROVE  Untangling(b, i + 1)
<1>1. Len(buf) \in Nat
  OBVIOUS
<1>2. ASSUME NEW k \in 1..i, NEW j \in 1..Len(b), k <= j
      PROVE  ~Needs(b[j].name, b[k].name)
  <2>1. k \in 1..Len(buf) /\ j \in 1..Len(buf) /\ b[j].name = buf[j].name /\ b[k].name = buf[k].name
    BY <1>1, <1>2
  <2>2. CASE k < i
    <3>1. k \in 1..(i - 1)
      BY <2>2, <1>2
    <3> QED BY <1>2, <2>1, <3>1 DEF Untangling
  <2>3. CASE k = i /\ j = i
    <3>1. \E m \in {i} : \A l \in {i} : ~Needs(buf[l].name, buf[m].name)
      <4>1. {i} \in SUBSET (1..Len(buf)) /\ {i} # {}
        OBVIOUS
      <4> QED BY <4>1, SomeUnneeded
    <3> QED BY <2>1, <2>3, <3>1
  <2>4. CASE k = i /\ j > i /\ buf[i].name = Root
    BY <2>1, <2>4, NoneNeedsRoot
  <2>5. CASE k = i /\ j > i /\ buf[i].name # Root
    <3>1. j \in (i + 1)..Len(buf)
      BY <1>1, <2>1, <2>5
    <3> QED BY <2>1, <2>5, <3>1 DEF NeededLater
  <2> QED BY <1>1, <1>2, <2>2, <2>3, <2>4, <2>5
<1>3. \A k \in (i + 1)..Len(b) : k \in 1..Len(buf) /\ k > i /\ b[k].seen = 0
  BY <1>1
<1>4. \A k \in (i + 1)..Len(b) : \A j \in k..Len(b) : j \in (i + 1)..Len(b)
  BY <1>1
<1>5. (i + 1) - 1 = i
  OBVIOUS
<1>6. \A k \in (i + 1)..Len(b) :
          /\ b[k].seen <= 1
          /\ \A j \in k..Len(b) : b[k].seen <= b[j].seen
          /\ b[k].seen = 1 => \E j \in (i + 1)..Len(b) : Needs(b[j].name, b[k].name)
  BY <1>3, <1>4
<1> QED BY <1>2, <1>5, <1>6 DEF Untangling

\* It sends a binary that something behind it needs to the end.
LEMMA MoveUntangles ==
  ASSUME Acyclic, Shape, Permutation(buf, link_binaries_buf), Untangling(buf, i),
         i \in 1..Len(buf), buf \in Seq(Recs), NeededLater
  PROVE  Untangling(MovedToEnd, i)
<1> DEFINE m == MovedToEnd
           n == Len(buf)
<1>1. /\ Len(m) = n /\ n \in Nat /\ i \in 1..n
      /\ \A j \in 1..(i - 1) : m[j] = buf[j]
      /\ \A j \in i..(n - 1) : m[j] = buf[j + 1]
      /\ m[n].name = buf[i].name /\ m[n].seen = buf[i].seen + 1
  BY MovedList, LookedList
<1>2. buf[i].seen = 0 /\ i < n
  BY HeadUnseen, RootStays
<1>3. PICK k0 \in (i + 1)..n : Needs(buf[k0].name, buf[i].name)
  BY DEF NeededLater, n
<1>4. \A k \in 1..(i - 1), j \in 1..n : k <= j => ~Needs(buf[j].name, buf[k].name)
  BY DEF Untangling, n
<1>5. \A k \in i..n :
          /\ buf[k].seen <= 1
          /\ \A j \in k..n : buf[k].seen <= buf[j].seen
          /\ buf[k].seen = 1 => \E j \in i..n : Needs(buf[j].name, buf[k].name)
  BY DEF Untangling, n
<1>6. \A k \in 1..n : buf[k].seen \in Nat
  <2>1. \A k \in 1..n : buf[k] \in Recs
    OBVIOUS
  <2> QED BY <2>1 DEF Recs
<1> HIDE DEF m, n
<1>7. ASSUME NEW k \in 1..(i - 1), NEW j \in 1..n, k <= j
      PROVE  ~Needs(m[j].name, m[k].name)
  <2>1. CASE j < i
    BY <1>1, <1>4, <1>7, <2>1
  <2>2. CASE j >= i /\ j < n
    <3>1. m[j] = buf[j + 1] /\ j + 1 \in 1..n /\ k <= j + 1
      BY <1>1, <1>7, <2>2, SMTT(40)
    <3> QED BY <1>1, <1>4, <1>7, <3>1
  <2>3. CASE j = n
    <3>1. i \in 1..n /\ k <= i
      BY <1>1, <1>7
    <3> QED BY <1>1, <1>4, <1>7, <2>3, <3>1
  <2> QED BY <1>1, <1>7, <2>1, <2>2, <2>3
<1>8. \A j \in i..n : \E l \in i..n : m[l].name = buf[j].name
  <2>1. SUFFICES ASSUME NEW j \in i..n PROVE \E l \in i..n : m[l].name = buf[j].name
    OBVIOUS
  <2>2. CASE j = i
    <3>1. n \in i..n
      BY <1>1, <1>2
    <3> QED BY <1>1, <2>2, <3>1
  <2>3. CASE j # i
    <3>1. j - 1 \in i..(n - 1) /\ j - 1 \in i..n /\ (j - 1) + 1 = j
      BY <1>1, <1>2, <2>3
    <3> QED BY <1>1, <3>1
  <2> QED BY <2>2, <2>3
<1>9. \A k \in i..n : k = n \/ (k \in i..(n - 1) /\ k + 1 \in i..n /\ m[k] = buf[k + 1])
  BY <1>1, <1>2
<1>10. m[n].seen = 1
  BY <1>1, <1>2
<1>11. ASSUME NEW k \in i..n
       PROVE  /\ m[k].seen <= 1
              /\ m[k].seen = 1 => \E j \in i..n : Needs(m[j].name, m[k].name)
  <2>1. CASE k = n
    <3>1. k0 \in i..n
      BY <1>1, <1>2, <1>3
    <3>2. PICK l \in i..n : m[l].name = buf[k0].name
      BY <1>8, <3>1
    <3> QED BY <1>1, <1>3, <1>10, <2>1, <3>2
  <2>2. CASE k + 1 \in i..n /\ m[k] = buf[k + 1]
    <3>1. m[k].seen <= 1
      BY <1>5, <2>2
    <3>2. ASSUME m[k].seen = 1 PROVE \E j \in i..n : Needs(m[j].name, m[k].name)
      <4>1. PICK j \in i..n : Needs(buf[j].name, buf[k + 1].name)
        BY <1>5, <2>2, <3>2
      <4>2. PICK l \in i..n : m[l].name = buf[j].name
        BY <1>8
      <4> QED BY <2>2, <4>1, <4>2
    <3> QED BY <3>1, <3>2
  <2> QED BY <1>9, <2>1, <2>2
<1>12. ASSUME NEW k \in i..n, NEW j \in k..n
       PROVE  m[k].seen <= m[j].seen
  <2>1. j \in i..n
    BY <1>1
  <2>2. CASE j = n
    BY <1>10, <1>11, <2>2
  <2>3. CASE j # n
    <3>1. k # n
      BY <1>1, <2>3
    <3>2. /\ m[j] = buf[j + 1] /\ m[k] = buf[k + 1]
          /\ j + 1 \in (k + 1)..n /\ k + 1 \in i..n
      BY <1>1, <1>9, <2>1, <2>3, <3>1
    <3> QED BY <1>5, <3>2
  <2> QED BY <2>2, <2>3
<1>13. m = MovedToEnd /\ n = Len(m)
  BY <1>1 DEF m
<1> QED BY <1>7, <1>11, <1>12, <1>13 DEF Untangling

LEMMA SortUntangles ==
  ASSUME Shape, LinkList, Permuted, Untangled, Sort
  PROVE  Untangled'
<1>1. /\ buf \in Seq(Recs) /\ i \in 1..Len(buf) /\ ~sorted /\ phase = "sort"
      /\ UNCHANGED <<link_binaries_buf, neededs>>
  BY SortCases
<1>2. Acyclic' = Acyclic
  BY <1>1 DEF Acyclic, Linked, Elements, Needs
<1>3. SUFFICES ASSUME Acyclic PROVE Untangling(buf, i)'
  BY <1>2 DEF Untangled
<1>4. /\ Permutation(buf, link_binaries_buf) /\ Untangling(buf, i) /\ sorted \in BOOLEAN
  BY <1>1, <1>3 DEF Permuted, Untangled, Sorting, Shape
<1>5. ASSUME NEW b, NEW p, Untangling(b, p), buf' = b, i' = p
      PROVE  Untangling(buf, i)'
  <2>1. \A x, y : Needs(x, y)' <=> Needs(x, y)
    BY <1>1 DEF Needs
  <2> QED BY <1>5, <2>1 DEF Untangling
<1>6. CASE ~NeededLater /\ Advance(Looked)
  <2>1. /\ Looked \in Seq(Recs) /\ Len(Looked) = Len(buf)
        /\ \A j \in 1..Len(buf) : Looked[j].name = buf[j].name
    BY <1>1, LookedList
  <2>2. /\ i' = i + 1 /\ buf' \in Seq(Recs) /\ Len(buf') = Len(Looked)
        /\ \A j \in 1..Len(Looked) : /\ buf'[j].name = Looked[j].name
                                     /\ j > i => buf'[j].seen = 0
    BY <1>1, <1>4, <1>6, <2>1, AdvanceList
  <2> DEFINE b == buf'
  <2>3. /\ b \in Seq(Recs) /\ Len(b) = Len(buf)
        /\ \A j \in 1..Len(buf) : b[j].name = buf[j].name
        /\ \A j \in 1..Len(buf) : j > i => b[j].seen = 0
    BY <2>1, <2>2
  <2> HIDE DEF b
  <2>4. Untangling(b, i + 1)
    BY <1>1, <1>3, <1>4, <1>6, <2>3, AdvanceUntangles
  <2>5. buf' = b
    BY DEF b
  <2> QED BY <1>5, <2>2, <2>4, <2>5
<1>7. CASE NeededLater /\ Exhausted /\ Advance(MovedToEnd)
  BY <1>1, <1>4, <1>7, NeverExhausted
<1>8. CASE NeededLater /\ ~Exhausted /\ buf' = MovedToEnd /\ i' = i /\ sorted' = sorted
  BY <1>1, <1>3, <1>4, <1>5, <1>8, MoveUntangles
<1> QED BY <1>6, <1>7, <1>8, SortCases

LEMMA StartSortUntangled ==
  ASSUME Shape, LinkList, Permuted, StartSort
  PROVE  Untangled'
<1>1. i' = 1 /\ \A j \in 1..Len(buf') : buf'[j].seen = 0
  BY StartSortPermuted
<1>2. Untangling(buf, i)'
  <2>1. \A k \in 1..(1 - 1) : FALSE
    OBVIOUS
  <2>2. Len(buf') \in Nat
    BY StartSortPermuted DEF Shape
  <2>3. \A k \in 1..Len(buf') : \A j \in k..Len(buf') : j \in 1..Len(buf')
    BY <2>2
  <2> QED BY <1>1, <2>1, <2>3 DEF Untangling
<1> QED BY <1>2 DEF Untangled

LEMMA BuildDynamicUntangled ==
  ASSUME Untangled, BuildDynamic
  PROVE  Untangled'
<1>1. phase = "dynamic" /\ UNCHANGED <<link_binaries_buf, neededs, buf, i>>
  BY DEF BuildDynamic, sort
<1>2. Acyclic' = Acyclic /\ Untangling(buf, i)' = Untangling(buf, i)
  BY <1>1 DEF Acyclic, Linked, Elements, Needs, Untangling
<1> QED BY <1>1, <1>2 DEF Untangled, Sorting

-----------------------------------------------------------------------------
(***************************************************************************)
(* The invariant is inductive.                                             *)
(***************************************************************************)
LEMMA ResolveInit == Init => ResolveInv
<1> SUFFICES ASSUME Init PROVE ResolveInv
  OBVIOUS
<1>1. phase = "search" /\ i = 1 /\ sorted = FALSE
  BY DEF Init
<1>2. Permuted /\ Untangled
  BY <1>1 DEF Permuted, Untangled, Sorting
<1> QED BY <1>2, SearchInit DEF ResolveInv

LEMMA ResolveStep == ResolveInv /\ [Next]_vars => ResolveInv'
<1> SUFFICES ASSUME ResolveInv, [Next]_vars PROVE ResolveInv'
  OBVIOUS
<1>1. Shape /\ Tables /\ LinkList /\ Searched /\ Reached /\ Permuted /\ Untangled
  BY DEF ResolveInv
<1>2. CASE SkipNeeded \/ LoadNeeded \/ PopBinary
  <2>1. Shape' /\ Tables' /\ LinkList' /\ Searched' /\ Reached'
    BY <1>1, <1>2, SkipKeeps, LoadKeeps, PopKeeps
  <2>2. Permuted' /\ Untangled'
    BY <1>1, <1>2, SearchPermuted DEF Untangled
  <2> QED BY <2>1, <2>2 DEF ResolveInv
<1>3. CASE AbortOnRunPath
  <2>1. /\ phase' = "aborted"
        /\ UNCHANGED <<queue, nth, maps, link_binaries_buf, exclude, needed_out, neededs, sort>>
    BY <1>3 DEF AbortOnRunPath
  <2>2. Shape'
    BY <1>1, <2>1 DEF Shape, maps, sort, Elements
  <2>3. Tables' /\ LinkList' /\ Searched' /\ Reached'
    BY <1>1, <2>1, StaysFound
  <2>4. Permuted' /\ Untangled'
    BY <1>1, <1>3, SearchPermuted DEF Untangled
  <2> QED BY <2>2, <2>3, <2>4 DEF ResolveInv
<1>4. CASE StartSort
  <2>1. /\ queue = <<>>
        /\ UNCHANGED <<queue, nth, maps, link_binaries_buf, exclude, neededs>>
    BY <1>4 DEF StartSort
  <2>2. Tables' /\ LinkList' /\ Searched' /\ Reached'
    BY <1>1, <2>1, StaysFound
  <2> QED BY <1>1, <1>4, <2>2, StartSortPermuted, StartSortUntangled DEF ResolveInv
<1>5. CASE Sort
  <2>1. /\ phase = "sort"
        /\ UNCHANGED <<queue, nth, maps, link_binaries_buf, exclude, neededs>>
    BY <1>1, <1>5, SortCases
  <2>2. queue = <<>>
    BY <1>1, <2>1 DEF Searched
  <2>3. Tables' /\ LinkList' /\ Searched' /\ Reached'
    BY <1>1, <2>1, <2>2, StaysFound
  <2> QED BY <1>1, <1>5, <2>3, SortPermuted, SortUntangles DEF ResolveInv
<1>6. CASE BuildDynamic
  <2>1. /\ phase = "dynamic"
        /\ UNCHANGED <<queue, nth, maps, link_binaries_buf, exclude, neededs>>
    BY <1>6 DEF BuildDynamic
  <2>2. queue = <<>>
    BY <1>1, <2>1 DEF Searched
  <2>3. Tables' /\ LinkList' /\ Searched' /\ Reached'
    BY <1>1, <2>1, <2>2, StaysFound
  <2> QED BY <1>1, <1>6, <2>3, BuildDynamicKeeps, BuildDynamicUntangled DEF ResolveInv
<1>7. CASE UNCHANGED vars
  <2>1. /\ UNCHANGED <<queue, nth, maps, link_binaries_buf, exclude, neededs>>
        /\ UNCHANGED <<phase, needed_out, sort>>
    BY <1>7 DEF vars
  <2>2. phase' \notin {"search", "aborted"} => queue = <<>>
    BY <1>1, <2>1 DEF Searched
  <2>3. Tables' /\ LinkList' /\ Searched' /\ Reached'
    BY <1>1, <2>1, <2>2, StaysFound
  <2>4. Shape'
    BY <1>1, <2>1 DEF Shape, maps, sort, Elements
  <2>5. Permuted'
    <3>1. UNCHANGED <<phase, buf, i, sorted, link_binaries_buf, needed_out, libraries>>
      BY <2>1 DEF maps, sort
    <3>2. NeededOut' = NeededOut
      BY <3>1 DEF NeededOut, Order, Elements
    <3>3. Permutation(buf, link_binaries_buf)' <=> Permutation(buf, link_binaries_buf)
      BY <3>1 DEF Permutation
    <3> QED BY <1>1, <3>1, <3>2, <3>3 DEF Permuted
  <2>6. Acyclic' = Acyclic /\ Untangling(buf, i)' = Untangling(buf, i)
    BY <2>1 DEF Acyclic, Linked, Elements, Needs, Untangling, sort
  <2>7. Untangled'
    BY <1>1, <2>1, <2>6 DEF Untangled
  <2> QED BY <2>3, <2>4, <2>5, <2>7 DEF ResolveInv
<1> QED BY <1>2, <1>3, <1>4, <1>5, <1>6, <1>7 DEF Next

LEMMA ResolveInductive == Spec => []ResolveInv
<1> QED BY ResolveInit, ResolveStep, PTL DEF Spec

-----------------------------------------------------------------------------
(***************************************************************************)
(* What the invariant says of the output.                                  *)
(***************************************************************************)
\* The names of a list being sorted are those of the binaries to link.
LEMMA OrderElements ==
  ASSUME Shape, Permuted, phase \in Sorting
  PROVE  /\ Elements(Order) = Elements(link_binaries_buf)
         /\ DOMAIN buf = 1..Len(buf) /\ DOMAIN link_binaries_buf = 1..Len(link_binaries_buf)
<1>1. /\ DOMAIN buf = 1..Len(buf) /\ DOMAIN link_binaries_buf = 1..Len(link_binaries_buf)
      /\ Permutation(buf, link_binaries_buf)
  BY DEF Shape, Permuted
<1>2. DOMAIN Order = DOMAIN buf /\ \A j \in DOMAIN buf : Order[j] = buf[j].name
  BY DEF Order
<1>3. Elements(Order) = {buf[j].name : j \in 1..Len(buf)}
  BY <1>1, <1>2 DEF Elements
<1>4. Elements(link_binaries_buf) = {link_binaries_buf[j] : j \in 1..Len(link_binaries_buf)}
  BY <1>1 DEF Elements
<1> QED BY <1>1, <1>3, <1>4 DEF Permutation

\* Whatever the files contain and wherever they are, every variable keeps its
\* type: no DT_NEEDED entry is looked up in a binary that was not read.
THEOREM ResolveTypeCorrect == Spec => []TypeOK
<1>1. ResolveInv => TypeOK
  <2>1. Shape => TypeOK
    <3> SUFFICES ASSUME Shape PROVE TypeOK
      OBVIOUS
    <3>1. Elements(link_binaries_buf) \subseteq Names
      BY DEF Shape, Elements
    <3>2. DOMAIN neededs = DOMAIN libraries \cup {Root}
      BY DEF Shape
    <3> QED BY <3>1, <3>2 DEF Shape, TypeOK
  <2> QED BY <2>1 DEF ResolveInv
<1> QED BY <1>1, ResolveInductive, PTL

\* A soname that GetVersion reads off a file leads back to a file of that soname.
THEOREM SonameRoundTripHolds == Spec => []SonameRoundTrip
<1>1. ResolveInv => SonameRoundTrip
  BY DEF ResolveInv, Tables, SonameRoundTrip
<1> QED BY <1>1, ResolveInductive, PTL

\* The sort returns what it was given, the main binary first, also when it gives up.
THEOREM SortPermutesHolds == Spec => []SortPermutes
<1>1. ResolveInv => SortPermutes
  <2> SUFFICES ASSUME ResolveInv, phase \in Sorting
               PROVE  /\ Len(buf) = Len(link_binaries_buf)
                      /\ Elements(Order) = Elements(link_binaries_buf)
                      /\ \A j, k \in DOMAIN buf : buf[j].name = buf[k].name => j = k
                      /\ buf[1].name = Root
    BY DEF SortPermutes, Sorting
  <2>1. /\ Elements(Order) = Elements(link_binaries_buf) /\ DOMAIN buf = 1..Len(buf)
    BY OrderElements DEF ResolveInv
  <2>2. Permutation(buf, link_binaries_buf)
    BY DEF ResolveInv, Permuted
  <2> QED BY <2>1, <2>2 DEF Permutation
<1> QED BY <1>1, ResolveInductive, PTL

\* When there is no cycle among the linked binaries, the sort never gives up and
\* puts every binary before the binaries it needs.
THEOREM DependentsFirstHolds == Spec => []DependentsFirst
<1>1. ResolveInv => DependentsFirst
  <2> SUFFICES ASSUME ResolveInv, phase = "done", Acyclic,
                      NEW j \in DOMAIN buf, NEW k \in DOMAIN buf, Needs(buf[j].name, buf[k].name)
               PROVE  j < k
    BY DEF DependentsFirst
  <2>1. DOMAIN buf = 1..Len(buf) /\ i = Len(buf) + 1 /\ Untangling(buf, i) /\ Len(buf) \in Nat
    BY OrderElements DEF ResolveInv, Shape, Permuted, Untangled, Sorting
  <2>2. k \in 1..(i - 1) /\ j \in 1..Len(buf)
    BY <2>1
  <2>3. ~(k <= j)
    BY <2>1, <2>2 DEF Untangling
  <2> QED BY <2>2, <2>3
<1> QED BY <1>1, ResolveInductive, PTL

\* Only the main binary can be linked under two names.
THEOREM OnlyMainLinkedTwiceHolds == Spec => []OnlyMainLinkedTwice
<1>1. ResolveInv => OnlyMainLinkedTwice
  <2> DEFINE l == link_binaries_buf
  <2> SUFFICES ASSUME ResolveInv, NEW j \in DOMAIN l, NEW k \in DOMAIN l,
                      j < k, FileName(l[j]) = FileName(l[k]), l[j] # Root
               PROVE  FALSE
    BY DEF OnlyMainLinkedTwice
  <2>1. DOMAIN l = 1..Len(l) /\ LinkList
    BY DEF ResolveInv, Shape
  <2>2. j \in 1..Len(l) /\ k \in 2..Len(l)
    BY <2>1
  <2>3. l[k] \in Libs /\ l[k] # Root
    BY <2>1, <2>2, RootAssumption DEF LinkList, ResolveInv, Shape
  <2>4. l[j] = l[k]
    BY <2>3 DEF FileName
  <2> QED BY <2>1, <2>2, <2>4 DEF LinkList
<1> QED BY <1>1, ResolveInductive, PTL

\* The linked binaries and the DT_NEEDED entries of the output are together what
\* the main binary needs, directly or not: what was read is closed under DT_NEEDED,
\* and every set that is closed and holds the main binary holds it.
THEOREM OutputCoversNeedsHolds == Spec => []OutputCoversNeeds
<1>1. ResolveInv => OutputCoversNeeds
  <2> SUFFICES ASSUME ResolveInv, phase = "done"
               PROVE  /\ Elements(Order) \cup needed_out = Closure
                      /\ Elements(Order) \cap needed_out = {}
                      /\ \A n \in Elements(Order) \ {Root} : ShouldLink(Soname[n])
    BY DEF OutputCoversNeeds
  <2>1. /\ Elements(Order) = Elements(link_binaries_buf)
        /\ DOMAIN link_binaries_buf = 1..Len(link_binaries_buf)
    BY OrderElements DEF ResolveInv, Sorting
  <2>2. /\ LinkList /\ Searched /\ Reached
        /\ needed_out = DOMAIN libraries \ Elements(Order) /\ queue = <<>>
        /\ DOMAIN libraries \subseteq Libs /\ DOMAIN neededs = DOMAIN libraries \cup {Root}
    BY DEF ResolveInv, Permuted, Searched, NeededOut, Shape
  <2>3. /\ Root \in Elements(Order)
        /\ \A n \in Elements(Order) : n = Root \/ (n \in DOMAIN libraries /\ ShouldLink(Soname[n]))
    <3>1. \A p \in 1..Len(link_binaries_buf) : p = 1 \/ p \in 2..Len(link_binaries_buf)
      OBVIOUS
    <3>2. 1 \in 1..Len(link_binaries_buf)
      <4>1. Len(link_binaries_buf) \in Nat
        BY DEF ResolveInv, Shape
      <4> QED BY <2>2, <4>1 DEF LinkList
    <3> QED BY <2>1, <2>2, <3>1, <3>2 DEF LinkList, Elements
  <2>4. Elements(Order) \cup needed_out = DOMAIN neededs
    BY <2>2, <2>3
  <2>5. DOMAIN neededs = Closure
    <3>1. DOMAIN neededs \subseteq Names
      BY <2>2 DEF Names
    <3>2. Elements(queue) = {}
      BY <2>2 DEF Elements
    <3>3. \A n \in DOMAIN neededs : Elements(neededs[n]) \subseteq DOMAIN neededs
      BY <2>2, <3>2 DEF Searched
    <3>4. Closed(DOMAIN neededs)
      BY <3>3 DEF Closed
    <3>5. Closure \subseteq DOMAIN neededs
      BY <2>2, <3>1, <3>4 DEF Closure
    <3>6. DOMAIN neededs \subseteq Closure
      BY <2>2, <3>1 DEF Closure, Reached
    <3> QED BY <3>5, <3>6
  <2> QED BY <2>2, <2>3, <2>4, <2>5
<1> QED BY <1>1, ResolveInductive, PTL

-----------------------------------------------------------------------------
(***************************************************************************)
(* The breadth-first walk.  The search is at entry nth of the binary p + 1 *)
(* of a walk w, whose first p binaries have been searched.                 *)
(***************************************************************************)
\* x is what seq becomes when the first n entries of needs are met.
MetTo(seq, needs, n, x) ==
    \E g \in [0..n -> Seq(Names)] :
        /\ g[0] = seq /\ g[n] = x
        /\ \A j \in 1..n : g[j] = AppendNew(g[j - 1], needs[j])

\* x is the walk when the needs of its first p binaries are met; nd are the
\* DT_NEEDED lists of the binaries read.
WalkTo(nd, p, x) ==
    \E s \in [0..p -> Seq(Names)] :
        /\ s[0] = <<Root>> /\ s[p] = x
        /\ \A k \in 1..p : /\ k \in DOMAIN s[k - 1] /\ s[k - 1][k] \in DOMAIN nd
                           /\ MetTo(s[k - 1], nd[s[k - 1][k]], Len(nd[s[k - 1][k]]), s[k])

\* The binaries read are those of w, in this order, and the last of them are queued.
Queued(w, p) ==
    /\ w \in Seq(Names) /\ p \in Nat
    /\ \A j, k \in 1..Len(w) : w[j] = w[k] => j = k
    /\ Elements(w) = DOMAIN neededs
    /\ Len(w) = p + Len(queue) /\ \A j \in 1..Len(queue) : queue[j] = w[p + j]

\* Between two binaries w is the walk x of the first p; while the needs of the
\* next are met, w is x with those before nth.
Underway(w, x, p) ==
    /\ x \in Seq(Names) /\ WalkTo(neededs, p, x)
    /\ queue = <<>> => w = x
    /\ queue # <<>> => /\ p + 1 \in 1..Len(x) /\ x[p + 1] = Head(queue)
                       /\ nth - 1 <= Len(neededs[Head(queue)])
                       /\ MetTo(x, neededs[Head(queue)], nth - 1, w)

\* Binary k of w is the first to need f, and f is where its search path leads.
FoundFrom(w, k, f) ==
    /\ f \in Elements(neededs[w[k]])
    /\ \A l \in 1..(k - 1) : f \notin Elements(neededs[w[l]])
    /\ libraries[f] = Locate(w[k], f)

Copied(w, p) ==
    \A f \in DOMAIN libraries : \E k \in 1..Len(w) : k <= p + 1 /\ FoundFrom(w, k, f)

Walking == \E w, x, p : Queued(w, p) /\ Underway(w, x, p) /\ Copied(w, p)

LEMMA MetNone ==
  ASSUME NEW seq \in Seq(Names), NEW needs
  PROVE  MetTo(seq, needs, 0, seq)
<1> DEFINE g == [j \in 0..0 |-> seq]
<1>1. /\ g \in [0..0 -> Seq(Names)] /\ g[0] = seq
      /\ \A j \in 1..0 : g[j] = AppendNew(g[j - 1], needs[j])
  OBVIOUS
<1> HIDE DEF g
<1> QED BY <1>1 DEF MetTo

LEMMA MetOne ==
  ASSUME NEW seq, NEW needs, NEW n \in Nat, NEW x, MetTo(seq, needs, n, x),
         NEW y \in Seq(Names), y = AppendNew(x, needs[n + 1])
  PROVE  MetTo(seq, needs, n + 1, y)
<1>1. PICK g \in [0..n -> Seq(Names)] :
         /\ g[0] = seq /\ g[n] = x
         /\ \A j \in 1..n : g[j] = AppendNew(g[j - 1], needs[j])
  BY DEF MetTo
<1> DEFINE h == [j \in 0..(n + 1) |-> IF j = n + 1 THEN y ELSE g[j]]
<1>2. h \in [0..(n + 1) -> Seq(Names)]
  <2>1. \A j \in 0..(n + 1) : j = n + 1 \/ j \in 0..n
    OBVIOUS
  <2> QED BY <2>1
<1>3. h[0] = seq /\ h[n + 1] = y /\ \A j \in 0..n : h[j] = g[j]
  BY <1>1
<1>4. \A j \in 1..(n + 1) : h[j] = AppendNew(h[j - 1], needs[j])
  <2>1. SUFFICES ASSUME NEW j \in 1..(n + 1) PROVE h[j] = AppendNew(h[j - 1], needs[j])
    OBVIOUS
  <2>2. j - 1 \in 0..n /\ (j = n + 1 \/ j \in 1..n)
    OBVIOUS
  <2>3. CASE j \in 1..n
    <3>1. h[j] = g[j] /\ h[j - 1] = g[j - 1]
      BY <1>3, <2>2, <2>3
    <3> QED BY <1>1, <2>3, <3>1
  <2>4. CASE j = n + 1
    <3>1. h[j] = y /\ h[j - 1] = x /\ n \in 0..n
      BY <1>1, <1>3, <2>4
    <3> QED BY <2>4, <3>1
  <2> QED BY <2>2, <2>3, <2>4
<1> HIDE DEF h
<1> QED BY <1>2, <1>3, <1>4 DEF MetTo

\* h meets one entry after the other.
Meets(h, seq, needs, n) == h[0] = seq /\ \A j \in 1..n : h[j] = AppendNew(h[j - 1], needs[j])

\* What is met of the first n entries is one list.
LEMMA MetUnique ==
  ASSUME NEW seq, NEW needs, NEW n \in Nat, NEW x, MetTo(seq, needs, n, x),
         NEW h, Meets(h, seq, needs, n)
  PROVE  h[n] = x
<1> USE DEF Meets
<1>1. PICK g \in [0..n -> Seq(Names)] :
         /\ g[0] = seq /\ g[n] = x
         /\ \A j \in 1..n : g[j] = AppendNew(g[j - 1], needs[j])
  BY DEF MetTo
<1> DEFINE T == {j \in 0..n : h[j] = g[j]}
<1>2. 0 \in T
  BY <1>1
<1>3. \A m \in 0..n : m \in T /\ m < n => m + 1 \in T
  <2>1. SUFFICES ASSUME NEW m \in 0..n, h[m] = g[m], m < n PROVE m + 1 \in 0..n /\ h[m + 1] = g[m + 1]
    OBVIOUS
  <2>2. m + 1 \in 1..n /\ m + 1 \in 0..n /\ (m + 1) - 1 = m
    BY <2>1
  <2>3. h[m + 1] = AppendNew(h[m], needs[m + 1]) /\ g[m + 1] = AppendNew(g[m], needs[m + 1])
    BY <1>1, <2>2
  <2> QED BY <2>1, <2>2, <2>3
<1> HIDE DEF T
<1>4. 0..n \subseteq T
  BY <1>2, <1>3, IntervalInduction
<1>5. n \in T
  BY <1>4
<1> QED BY <1>1, <1>5 DEF T

\* It is what Met chooses.
LEMMA MetChosen ==
  ASSUME NEW seq \in Seq(Names), NEW k, NEW needs,
         needs = (IF k \in DOMAIN seq THEN neededs[seq[k]] ELSE <<>>),
         Len(needs) \in Nat, NEW x, MetTo(seq, needs, Len(needs), x)
  PROVE  Met(seq, k) = x
<1> DEFINE n == Len(needs)
           met == CHOOSE g : g = [j \in 0..n |-> IF j = 0 THEN seq ELSE AppendNew(g[j - 1], needs[j])]
<1>1. Met(seq, k) = met[n]
  BY DEF Met
<1>2. met = [j \in 0..n |-> IF j = 0 THEN seq ELSE AppendNew(met[j - 1], needs[j])]
  <2>1. PICK g \in [0..n -> Seq(Names)] :
           /\ g[0] = seq /\ g[n] = x
           /\ \A j \in 1..n : g[j] = AppendNew(g[j - 1], needs[j])
    BY DEF MetTo
  <2>2. g = [j \in 0..n |-> g[j]]
    BY <2>1
  <2>3. \A j \in 0..n : g[j] = IF j = 0 THEN seq ELSE AppendNew(g[j - 1], needs[j])
    BY <2>1
  <2>4. g = [j \in 0..n |-> IF j = 0 THEN seq ELSE AppendNew(g[j - 1], needs[j])]
    BY <2>2, <2>3
  <2> QED BY <2>4
<1> HIDE DEF met
<1>3. n \in Nat /\ MetTo(seq, needs, n, x)
  OBVIOUS
<1> HIDE DEF n
<1>4. met[0] = seq
  BY <1>2, <1>3
<1>5. \A j \in 1..n : met[j] = AppendNew(met[j - 1], needs[j])
  <2>1. \A j \in 1..n : j \in 0..n /\ j # 0
    BY <1>3
  <2> QED BY <1>2, <2>1
<1>6. Meets(met, seq, needs, n)
  BY <1>4, <1>5 DEF Meets
<1>7. met[n] = x
  BY <1>3, <1>6, MetUnique
<1> QED BY <1>1, <1>7

\* One more binary of the walk.
LEMMA WalkOne ==
  ASSUME NEW nd, NEW p \in Nat, NEW x, WalkTo(nd, p, x), NEW y \in Seq(Names),
         p + 1 \in DOMAIN x, x[p + 1] \in DOMAIN nd,
         MetTo(x, nd[x[p + 1]], Len(nd[x[p + 1]]), y)
  PROVE  WalkTo(nd, p + 1, y)
<1>1. PICK s \in [0..p -> Seq(Names)] :
         /\ s[0] = <<Root>> /\ s[p] = x
         /\ \A k \in 1..p : /\ k \in DOMAIN s[k - 1] /\ s[k - 1][k] \in DOMAIN nd
                            /\ MetTo(s[k - 1], nd[s[k - 1][k]], Len(nd[s[k - 1][k]]), s[k])
  BY DEF WalkTo
<1> DEFINE t == [k \in 0..(p + 1) |-> IF k = p + 1 THEN y ELSE s[k]]
<1>2. t \in [0..(p + 1) -> Seq(Names)]
  <2>1. \A k \in 0..(p + 1) : k = p + 1 \/ k \in 0..p
    OBVIOUS
  <2> QED BY <2>1
<1>3. t[0] = <<Root>> /\ t[p + 1] = y /\ \A k \in 0..p : t[k] = s[k]
  BY <1>1
<1> HIDE DEF t
<1>4. \A k \in 1..(p + 1) : /\ k \in DOMAIN t[k - 1] /\ t[k - 1][k] \in DOMAIN nd
                            /\ MetTo(t[k - 1], nd[t[k - 1][k]], Len(nd[t[k - 1][k]]), t[k])
  <2>1. SUFFICES ASSUME NEW k \in 1..(p + 1)
                 PROVE  /\ k \in DOMAIN t[k - 1] /\ t[k - 1][k] \in DOMAIN nd
                        /\ MetTo(t[k - 1], nd[t[k - 1][k]], Len(nd[t[k - 1][k]]), t[k])
    OBVIOUS
  <2>2. k - 1 \in 0..p /\ (k = p + 1 \/ k \in 1..p)
    OBVIOUS
  <2>3. CASE k \in 1..p
    <3>1. t[k] = s[k] /\ t[k - 1] = s[k - 1]
      BY <1>3, <2>2, <2>3
    <3> QED BY <1>1, <2>3, <3>1
  <2>4. CASE k = p + 1
    <3>1. t[k] = y /\ t[k - 1] = x /\ k - 1 = p
      BY <1>1, <1>3, <2>4
    <3> QED BY <2>4, <3>1
  <2> QED BY <2>2, <2>3, <2>4
<1> QED BY <1>2, <1>3, <1>4 DEF WalkTo

\* A library that is read leaves the walk so far as it is.
LEMMA WalkStays ==
  ASSUME NEW nd, NEW md, NEW p, NEW x, WalkTo(nd, p, x),
         \A n \in DOMAIN nd : n \in DOMAIN md /\ md[n] = nd[n]
  PROVE  WalkTo(md, p, x)
<1>1. PICK s \in [0..p -> Seq(Names)] :
         /\ s[0] = <<Root>> /\ s[p] = x
         /\ \A k \in 1..p : /\ k \in DOMAIN s[k - 1] /\ s[k - 1][k] \in DOMAIN nd
                            /\ MetTo(s[k - 1], nd[s[k - 1][k]], Len(nd[s[k - 1][k]]), s[k])
  BY DEF WalkTo
<1>2. \A k \in 1..p : /\ k \in DOMAIN s[k - 1] /\ s[k - 1][k] \in DOMAIN md
                      /\ MetTo(s[k - 1], md[s[k - 1][k]], Len(md[s[k - 1][k]]), s[k])
  BY <1>1
<1> QED BY <1>1, <1>2 DEF WalkTo

\* When all binaries of the list w have been searched, w is the walk.
LEMMA WalkChosen ==
  ASSUME Shape, NEW w \in Seq(Names), WalkTo(neededs, Len(w), w),
         Cardinality(DOMAIN neededs) = Len(w)
  PROVE  Walk = w
<1> DEFINE N == Cardinality(DOMAIN neededs)
           walk == CHOOSE g : g = [k \in 0..N |-> IF k = 0 THEN <<Root>> ELSE Met(g[k - 1], k)]
<1>9. Walk = walk[N]
  BY DEF Walk
<1>10. N = Len(w)
  OBVIOUS
<1> HIDE DEF N, walk
<1>0. Walk = walk[N] /\ N \in Nat
  BY <1>9, <1>10
<1>1. PICK s \in [0..N -> Seq(Names)] :
         /\ s[0] = <<Root>> /\ s[N] = w
         /\ \A k \in 1..N : /\ k \in DOMAIN s[k - 1] /\ s[k - 1][k] \in DOMAIN neededs
                            /\ MetTo(s[k - 1], neededs[s[k - 1][k]], Len(neededs[s[k - 1][k]]), s[k])
  BY <1>10 DEF WalkTo
<1>2. \A k \in 1..N : Met(s[k - 1], k) = s[k]
  <2>1. SUFFICES ASSUME NEW k \in 1..N PROVE Met(s[k - 1], k) = s[k]
    OBVIOUS
  <2> DEFINE seq == s[k - 1]
             needs == neededs[seq[k]]
  <2>2. k - 1 \in 0..N
    BY <1>0
  <2>3. seq \in Seq(Names) /\ k \in DOMAIN seq /\ seq[k] \in DOMAIN neededs
        /\ MetTo(seq, needs, Len(needs), s[k])
    BY <1>1, <2>2
  <2>4. Len(needs) \in Nat
    BY <2>3 DEF Shape
  <2>5. needs = IF k \in DOMAIN seq THEN neededs[seq[k]] ELSE <<>>
    BY <2>3
  <2> HIDE DEF seq, needs
  <2>6. Met(seq, k) = s[k]
    BY <2>3, <2>4, <2>5, MetChosen
  <2> QED BY <2>6 DEF seq
<1>3. walk = [k \in 0..N |-> IF k = 0 THEN <<Root>> ELSE Met(walk[k - 1], k)]
  <2>1. s = [k \in 0..N |-> s[k]]
    BY <1>1
  <2>2. \A k \in 0..N : s[k] = IF k = 0 THEN <<Root>> ELSE Met(s[k - 1], k)
    <3>1. \A k \in 0..N : k = 0 \/ k \in 1..N
      BY <1>0
    <3> QED BY <1>1, <1>2, <3>1
  <2>3. s = [k \in 0..N |-> IF k = 0 THEN <<Root>> ELSE Met(s[k - 1], k)]
    BY <2>1, <2>2
  <2> QED BY <2>3 DEF walk
<1> DEFINE T == {k \in 0..N : walk[k] = s[k]}
<1>4. 0 \in T
  BY <1>0, <1>1, <1>3
<1>5. \A m \in 0..N : m \in T /\ m < N => m + 1 \in T
  <2>1. SUFFICES ASSUME NEW m \in 0..N, walk[m] = s[m], m < N
                 PROVE  m + 1 \in 0..N /\ walk[m + 1] = s[m + 1]
    OBVIOUS
  <2>2. m + 1 \in 1..N /\ m + 1 \in 0..N /\ (m + 1) - 1 = m /\ m + 1 # 0
    BY <1>0, <2>1
  <2>3. walk[m + 1] = Met(walk[m], m + 1)
    BY <1>3, <2>2
  <2>4. Met(s[m], m + 1) = s[m + 1]
    BY <1>2, <2>2
  <2> QED BY <2>1, <2>2, <2>3, <2>4
<1> HIDE DEF T
<1>6. 0..N \subseteq T
  BY <1>0, <1>4, <1>5, IntervalInduction
<1>7. N \in T
  BY <1>0, <1>6
<1> QED BY <1>0, <1>1, <1>7 DEF T

-----------------------------------------------------------------------------
(***************************************************************************)
(* The search follows the walk.                                            *)
(***************************************************************************)
\* At the start the walk is the main binary.
LEMMA WalkingInit == Init => Walking
<1> SUFFICES ASSUME Init PROVE Walking
  OBVIOUS
<1> DEFINE w == <<Root>>
<1>1. PICK ns \in NeededLists[Root] : neededs = [n \in {Root} |-> ns]
  BY DEF Init
<1>2. /\ w \in Seq(Names) /\ Len(w) = 1 /\ w[1] = Root /\ Head(w) = Root /\ Elements(w) = {Root}
      /\ w # <<>>
  <2>1. Root \in Names
    BY DEF Names
  <2> QED BY <2>1, SingletonList
<1>3. /\ queue = w /\ nth = 1 /\ DOMAIN libraries = {} /\ DOMAIN neededs = {Root}
      /\ neededs[Root] = ns /\ ns \in Seq(Libs)
  BY <1>1, PathAssumption DEF Init, Names
<1>4. WalkTo(neededs, 0, w)
  <2> DEFINE s == [k \in 0..0 |-> w]
  <2>1. s \in [0..0 -> Seq(Names)] /\ s[0] = w /\ 1..0 = {}
    BY <1>2
  <2> HIDE DEF s
  <2> QED BY <2>1 DEF WalkTo
<1> HIDE DEF w
<1>5. Queued(w, 0)
  BY <1>2, <1>3 DEF Queued
<1>6. MetTo(w, neededs[Head(queue)], nth - 1, w)
  <2>1. nth - 1 = 0
    BY <1>3
  <2> QED BY <1>2, <2>1, MetNone
<1>7. Underway(w, w, 0)
  <2>1. Len(ns) \in Nat
    BY <1>3
  <2> QED BY <1>2, <1>3, <1>4, <1>6, <2>1 DEF Underway
<1>8. Copied(w, 0)
  BY <1>3 DEF Copied
<1> QED BY <1>5, <1>7, <1>8 DEF Walking

\* Nothing of this changes once the search is over or has failed.
LEMMA WalkingStays ==
  ASSUME Walking, UNCHANGED <<queue, nth, libraries, neededs>>
  PROVE  Walking'
<1>1. PICK w, x, p : Queued(w, p) /\ Underway(w, x, p) /\ Copied(w, p)
  BY DEF Walking
<1>2. \A b, f : Locate(b, f)' = Locate(b, f)
  BY DEF Locate, Found, GetLibraryPaths, Resolved, Origin
<1>3. Queued(w, p)'
  BY <1>1 DEF Queued
<1>4. Underway(w, x, p)'
  BY <1>1 DEF Underway
<1>5. Copied(w, p)'
  BY <1>1, <1>2 DEF Copied, FoundFrom
<1> QED BY <1>3, <1>4, <1>5 DEF Walking

\* A library that is known is in the walk already.
LEMMA WalkingSkip ==
  ASSUME Shape, Walking, SkipNeeded
  PROVE  Walking'
<1>1. PICK w, x, p : Queued(w, p) /\ Underway(w, x, p) /\ Copied(w, p)
  BY DEF Walking
<1>2. /\ Searching /\ Needed \in DOMAIN libraries /\ nth' = nth + 1
      /\ queue' = queue /\ libraries' = libraries /\ neededs' = neededs
  BY DEF SkipNeeded, Known, maps
<1>3. /\ queue # <<>> /\ nth \in 1..Len(neededs[Head(queue)]) /\ nth \in Nat \ {0}
      /\ Len(neededs[Head(queue)]) \in Nat
  <2>1. queue # <<>>
    BY <1>2 DEF Searching, AtBinary
  <2>2. neededs[Head(queue)] \in Seq(Libs)
    BY <1>2, NeededIsLibrary DEF Shape
  <2> QED BY <1>2, <2>1, <2>2, NeededIsLibrary DEF Shape
<1>4. AppendNew(w, Needed) = w
  <2>1. Needed \in Elements(w)
    BY <1>1, <1>2 DEF Queued, Shape
  <2> QED BY <2>1 DEF AppendNew
<1>5. MetTo(x, neededs[Head(queue)], nth, w)
  <2>1. MetTo(x, neededs[Head(queue)], nth - 1, w) /\ w \in Seq(Names)
    BY <1>1, <1>3 DEF Underway, Queued
  <2>2. nth - 1 \in Nat /\ (nth - 1) + 1 = nth
    BY <1>3
  <2>3. w = AppendNew(w, neededs[Head(queue)][(nth - 1) + 1])
    BY <1>4, <2>2 DEF Needed
  <2>4. MetTo(x, neededs[Head(queue)], (nth - 1) + 1, w)
    BY <2>1, <2>2, <2>3, MetOne
  <2> QED BY <2>2, <2>4
<1>6. Queued(w, p)'
  BY <1>1, <1>2 DEF Queued
<1>7. Underway(w, x, p)'
  <2>1. nth' - 1 = nth
    BY <1>2, <1>3
  <2> QED BY <1>1, <1>2, <1>3, <1>5, <2>1 DEF Underway
<1>8. Copied(w, p)'
  <2>1. \A b, f : Locate(b, f)' = Locate(b, f)
    BY <1>2 DEF Locate, Found, GetLibraryPaths, Resolved, Origin
  <2> QED BY <1>1, <1>2, <2>1 DEF Copied, FoundFrom
<1> QED BY <1>6, <1>7, <1>8 DEF Walking

\* A binary that is done with has met all it needs: the walk so far ends there.
LEMMA WalkingPop ==
  ASSUME Shape, Walking, PopBinary
  PROVE  Walking'
<1>1. PICK w, x, p : Queued(w, p) /\ Underway(w, x, p) /\ Copied(w, p)
  BY DEF Walking
<1>2. /\ queue # <<>> /\ nth > Len(neededs[Head(queue)])
      /\ queue' = Tail(queue) /\ nth' = 1 /\ libraries' = libraries /\ neededs' = neededs
  BY DEF PopBinary, AtBinary, maps
<1>3. /\ queue \in Seq(Names) /\ Head(queue) = queue[1] /\ Len(queue) \in Nat \ {0}
      /\ Len(Tail(queue)) = Len(queue) - 1
      /\ \A j \in 1..(Len(queue) - 1) : Tail(queue)[j] = queue[j + 1]
      /\ Tail(queue) \in Seq(Names)
  BY <1>2 DEF Shape
<1>4. Head(queue) \in DOMAIN neededs /\ Len(neededs[Head(queue)]) \in Nat /\ nth \in Nat
  <2>1. Head(queue) \in DOMAIN neededs
    BY <1>2, <1>3, TailElements DEF Shape
  <2> QED BY <2>1 DEF Shape
<1>5. /\ p \in Nat /\ w \in Seq(Names) /\ Len(w) = p + Len(queue) /\ Len(w) \in Nat
      /\ \A j \in 1..Len(queue) : queue[j] = w[p + j]
  BY <1>1 DEF Queued
<1>6. Queued(w, p + 1)'
  <2>1. Len(w) = (p + 1) + Len(Tail(queue))
    BY <1>3, <1>5
  <2>2. \A j \in 1..Len(Tail(queue)) : Tail(queue)[j] = w[(p + 1) + j]
    <3>1. SUFFICES ASSUME NEW j \in 1..Len(Tail(queue)) PROVE Tail(queue)[j] = w[(p + 1) + j]
      OBVIOUS
    <3>2. j \in 1..(Len(queue) - 1) /\ j + 1 \in 1..Len(queue) /\ p + (j + 1) = (p + 1) + j
      BY <1>3, <1>5
    <3> QED BY <1>3, <1>5, <3>2
  <2> QED BY <1>1, <1>2, <1>5, <2>1, <2>2 DEF Queued
<1>7. WalkTo(neededs, p + 1, w)
  <2>1. /\ WalkTo(neededs, p, x) /\ x \in Seq(Names) /\ p + 1 \in 1..Len(x) /\ x[p + 1] = Head(queue)
        /\ nth - 1 <= Len(neededs[Head(queue)]) /\ MetTo(x, neededs[Head(queue)], nth - 1, w)
    BY <1>1, <1>2 DEF Underway
  <2>2. nth - 1 = Len(neededs[Head(queue)])
    BY <1>2, <1>4, <2>1
  <2>3. p + 1 \in DOMAIN x
    BY <2>1
  <2> QED BY <1>4, <1>5, <2>1, <2>2, <2>3, WalkOne
<1>8. Underway(w, w, p + 1)'
  <2>1. WalkTo(neededs', p + 1, w)
    BY <1>2, <1>7
  <2>2. ASSUME Tail(queue) # <<>>
        PROVE  /\ (p + 1) + 1 \in 1..Len(w) /\ w[(p + 1) + 1] = Head(Tail(queue))
               /\ 0 <= Len(neededs[Head(Tail(queue))])
               /\ MetTo(w, neededs[Head(Tail(queue))], 0, w)
    <3>1. Len(Tail(queue)) # 0 /\ Head(Tail(queue)) = Tail(queue)[1]
      BY <1>3, <2>2
    <3>2. 1 \in 1..(Len(queue) - 1) /\ Tail(queue)[1] = queue[2] /\ 2 \in 1..Len(queue)
      BY <1>3, <3>1
    <3>3. (p + 1) + 1 \in 1..Len(w) /\ p + 2 = (p + 1) + 1
      BY <1>3, <1>5, <3>2
    <3>4. Head(Tail(queue)) \in DOMAIN neededs
      BY <1>2, <1>3, <2>2, TailElements DEF Shape
    <3>5. Len(neededs[Head(Tail(queue))]) \in Nat
      BY <3>4 DEF Shape
    <3>6. MetTo(w, neededs[Head(Tail(queue))], 0, w)
      BY <1>5, MetNone
    <3> QED BY <1>5, <3>1, <3>2, <3>3, <3>5, <3>6
  <2>3. nth' - 1 = 0
    BY <1>2
  <2> QED BY <1>2, <1>5, <2>1, <2>2, <2>3 DEF Underway
<1>9. Copied(w, p + 1)'
  <2>1. \A b, f : Locate(b, f)' = Locate(b, f)
    BY <1>2 DEF Locate, Found, GetLibraryPaths, Resolved, Origin
  <2>2. \A k \in 1..Len(w) : k <= p + 1 => k <= (p + 1) + 1
    BY <1>5
  <2> QED BY <1>1, <1>2, <2>1, <2>2 DEF Copied, FoundFrom
<1> QED BY <1>6, <1>8, <1>9 DEF Walking

\* A library that is read was needed by nothing searched before, and goes to the
\* end of the walk.
LEMMA WalkingLoad ==
  ASSUME Shape, Searched, Walking, Searching, ~Known(Needed), NEW ns \in Contents(Needed), Loads(ns)
  PROVE  Walking'
<1>1. PICK w, x, p : Queued(w, p) /\ Underway(w, x, p) /\ Copied(w, p)
  BY DEF Walking
<1>2. /\ nth' = nth + 1 /\ queue' = Append(queue, Needed) /\ neededs' = Put(neededs, Needed, ns)
      /\ libraries' = Put(libraries, Needed, Locate(Head(queue), Needed))
  BY DEF Loads, Enqueued, Inserted
<1>3. /\ Needed \in Names /\ Needed \in Elements(neededs[Head(queue)])
      /\ Head(queue) \in DOMAIN neededs /\ nth \in 1..Len(neededs[Head(queue)])
      /\ Needed \notin DOMAIN neededs /\ Needed \notin DOMAIN libraries
  <2>1. Needed \notin DOMAIN neededs
    BY LoadedNeededs
  <2> QED BY <2>1, NeededIsLibrary DEF Known
<1>4. /\ DOMAIN neededs' = DOMAIN neededs \cup {Needed}
      /\ DOMAIN libraries' = DOMAIN libraries \cup {Needed}
      /\ \A n \in DOMAIN neededs : neededs'[n] = neededs[n]
      /\ queue # <<>> /\ queue' # <<>> /\ Head(queue') = Head(queue)
  <2>1. \A n \in DOMAIN neededs : neededs'[n] = neededs[n]
    BY <1>2, LoadedNeededs
  <2> QED BY <2>1, LoadShape
<1>5. /\ p \in Nat /\ w \in Seq(Names) /\ Len(w) = p + Len(queue) /\ Len(w) \in Nat
      /\ \A j, k \in 1..Len(w) : w[j] = w[k] => j = k
      /\ Elements(w) = DOMAIN neededs /\ DOMAIN w = 1..Len(w)
      /\ \A j \in 1..Len(queue) : queue[j] = w[p + j]
      /\ queue \in Seq(Names) /\ Len(queue) \in Nat \ {0} /\ Head(queue) = queue[1]
  BY <1>1, <1>4 DEF Queued, Shape
<1>13. PICK v : v = Append(w, Needed)
  OBVIOUS
<1>6. /\ v \in Seq(Names) /\ Len(v) = Len(w) + 1 /\ v[Len(w) + 1] = Needed
      /\ \A j \in 1..Len(w) : v[j] = w[j]
      /\ Elements(v) = DOMAIN neededs'
  <2>1. Elements(v) = Elements(w) \cup {Needed}
    BY <1>3, <1>5, <1>13, AppendElements
  <2>2. w \in Seq(Names) /\ Needed \in Names
    BY <1>3, <1>5
  <2>3. /\ v \in Seq(Names) /\ Len(v) = Len(w) + 1 /\ v[Len(w) + 1] = Needed
        /\ \A j \in 1..Len(w) : v[j] = w[j]
    BY <1>13, <2>2
  <2> QED BY <1>4, <1>5, <2>1, <2>3
<1>7. \A k \in 1..Len(w) : w[k] \in DOMAIN neededs
  BY <1>5 DEF Elements
<1>8. AppendNew(w, Needed) = v
  BY <1>3, <1>5, <1>13 DEF AppendNew
<1>9. Queued(v, p)'
  <2>1. \A j, k \in 1..Len(v) : v[j] = v[k] => j = k
    <3>1. \A j \in 1..Len(v) : j \in 1..Len(w) \/ j = Len(w) + 1
      <4>1. Len(w) \in Nat /\ Len(v) = Len(w) + 1
        BY <1>5, <1>6
      <4> QED BY <4>1
    <3>2. \A j \in 1..Len(w) : v[j] # Needed
      BY <1>3, <1>6, <1>7
    <3> QED BY <1>5, <1>6, <3>1, <3>2
  <2>2. Len(queue') = Len(queue) + 1 /\ queue'[Len(queue) + 1] = Needed
        /\ \A j \in 1..Len(queue) : queue'[j] = queue[j]
    BY <1>2, <1>3, <1>5
  <2>3. Len(v) = p + Len(queue')
    BY <1>5, <1>6, <2>2
  <2>4. \A j \in 1..Len(queue') : queue'[j] = v[p + j]
    <3>1. SUFFICES ASSUME NEW j \in 1..Len(queue') PROVE queue'[j] = v[p + j]
      OBVIOUS
    <3>2. CASE j \in 1..Len(queue)
      <4>1. p + j \in 1..Len(w)
        BY <1>5, <3>2
      <4> QED BY <1>5, <1>6, <2>2, <3>2, <4>1
    <3>3. CASE j = Len(queue) + 1
      <4>1. p + j = Len(w) + 1
        BY <1>5, <3>3
      <4> QED BY <1>6, <2>2, <3>3, <4>1
    <3> QED BY <1>5, <2>2, <3>2, <3>3
  <2> QED BY <1>5, <1>6, <2>1, <2>3, <2>4 DEF Queued
<1>10. Underway(v, x, p)'
  <2>1. /\ x \in Seq(Names) /\ WalkTo(neededs, p, x) /\ p + 1 \in 1..Len(x) /\ x[p + 1] = Head(queue)
        /\ MetTo(x, neededs[Head(queue)], nth - 1, w)
    BY <1>1, <1>4 DEF Underway
  <2>2. WalkTo(neededs', p, x)
    BY <1>4, <2>1, WalkStays
  <2>3. nth - 1 \in Nat /\ (nth - 1) + 1 = nth /\ nth' - 1 = nth
    BY <1>2, <1>3
  <2>4. MetTo(x, neededs[Head(queue)], (nth - 1) + 1, v)
    <3>1. v = AppendNew(w, neededs[Head(queue)][(nth - 1) + 1])
      BY <1>8, <2>3 DEF Needed
    <3> QED BY <1>6, <2>1, <2>3, <3>1, MetOne
  <2>5. neededs'[Head(queue')] = neededs[Head(queue)]
    BY <1>3, <1>4
  <2>6. nth <= Len(neededs[Head(queue)])
    BY <1>3
  <2>7. MetTo(x, neededs'[Head(queue')], nth' - 1, v)
    BY <2>3, <2>4, <2>5
  <2> QED BY <1>4, <2>1, <2>2, <2>3, <2>5, <2>6, <2>7 DEF Underway
<1>11. \A n \in DOMAIN neededs : \A f : Locate(n, f)' = Locate(n, f)
  <2>1. SUFFICES ASSUME NEW n \in DOMAIN neededs, NEW f PROVE Locate(n, f)' = Locate(n, f)
    OBVIOUS
  <2>2. n = Root \/ n \in DOMAIN libraries
    BY DEF Shape
  <2>3. Origin(n)' = Origin(n)
    BY <1>2, <1>3, <2>2 DEF Origin, Put
  <2>4. GetLibraryPaths(n)' = GetLibraryPaths(n)
    BY <2>3 DEF GetLibraryPaths, Resolved
  <2> QED BY <2>4 DEF Locate, Found
<1>12. Copied(v, p)'
  <2>1. SUFFICES ASSUME NEW f \in DOMAIN libraries'
                 PROVE  \E k \in 1..Len(v) : k <= p + 1 /\ FoundFrom(v, k, f)'
    BY DEF Copied
  <2>2. \A k \in 1..Len(w) : k \in 1..Len(v) /\ v[k] = w[k] /\ neededs'[v[k]] = neededs[w[k]]
    BY <1>4, <1>5, <1>6, <1>7
  <2>3. CASE f \in DOMAIN libraries
    <3>1. PICK k \in 1..Len(w) : k <= p + 1 /\ FoundFrom(w, k, f)
      BY <1>1, <2>3 DEF Copied
    <3>2. \A l \in 1..(k - 1) : l \in 1..Len(w)
      BY <1>5
    <3>3. libraries'[f] = libraries[f]
      BY <1>2, <1>3, <2>3 DEF Put
    <3>4. Locate(v[k], f)' = Locate(w[k], f)
      BY <1>7, <1>11, <2>2
    <3>5. f \in Elements(neededs'[v[k]])
      BY <2>2, <3>1 DEF FoundFrom
    <3>6. \A l \in 1..(k - 1) : f \notin Elements(neededs'[v[l]])
      BY <2>2, <3>1, <3>2 DEF FoundFrom
    <3>7. libraries'[f] = Locate(v[k], f)'
      BY <3>1, <3>3, <3>4 DEF FoundFrom
    <3>8. FoundFrom(v, k, f)'
      BY <3>5, <3>6, <3>7 DEF FoundFrom
    <3> QED BY <2>2, <3>1, <3>8
  <2>4. CASE f = Needed
    <3>1. p + 1 \in 1..Len(w) /\ w[p + 1] = Head(queue)
      BY <1>5
    <3>2. \A l \in 1..((p + 1) - 1) : l \in 1..Len(w) /\ f \notin Elements(neededs[w[l]])
      <4>1. SUFFICES ASSUME NEW l \in 1..((p + 1) - 1)
                     PROVE  l \in 1..Len(w) /\ f \notin Elements(neededs[w[l]])
        OBVIOUS
      <4>2. l \in 1..Len(w) /\ l \in 1..p
        BY <1>5
      <4>3. w[l] \notin Elements(queue)
        <5>1. \A j \in 1..Len(queue) : p + j \in 1..Len(w) /\ p + j # l
          BY <1>5, <4>2
        <5>2. \A j \in 1..Len(queue) : queue[j] # w[l]
          BY <1>5, <4>2, <5>1
        <5> QED BY <1>5, <5>2 DEF Elements
      <4>4. Elements(neededs[w[l]]) \subseteq DOMAIN libraries
        BY <1>7, <4>2, <4>3 DEF Searched
      <4> QED BY <1>3, <2>4, <4>2, <4>4
    <3>3. libraries'[f] = Locate(w[p + 1], f)
      BY <1>2, <2>4, <3>1 DEF Put
    <3>4. Locate(v[p + 1], f)' = Locate(w[p + 1], f)
      BY <1>7, <1>11, <2>2, <3>1
    <3>5. f \in Elements(neededs'[v[p + 1]])
      BY <1>3, <2>2, <2>4, <3>1
    <3>6. \A l \in 1..((p + 1) - 1) : f \notin Elements(neededs'[v[l]])
      BY <2>2, <3>2
    <3>7. FoundFrom(v, p + 1, f)'
      BY <3>3, <3>4, <3>5, <3>6 DEF FoundFrom
    <3> QED BY <1>5, <2>2, <3>1, <3>7
  <2> QED BY <1>4, <2>1, <2>3, <2>4
<1> QED BY <1>9, <1>10, <1>12 DEF Walking

LEMMA WalkingStep ==
  ASSUME ResolveInv, Walking, [Next]_vars
  PROVE  Walking'
<1>1. Shape /\ Searched
  BY DEF ResolveInv
<1>2. CASE SkipNeeded \/ PopBinary
  BY <1>1, <1>2, WalkingSkip, WalkingPop
<1>3. CASE LoadNeeded
  <2>1. Searching /\ ~Known(Needed)
    BY <1>3 DEF LoadNeeded
  <2>2. CASE \E ns \in Contents(Needed) : Loads(ns)
    BY <1>1, <2>1, <2>2, WalkingLoad
  <2>3. CASE UNCHANGED <<neededs, maps, queue, nth>>
    BY <2>3, WalkingStays DEF maps
  <2> QED BY <1>3, <2>2, <2>3, LoadCases
<1>4. CASE AbortOnRunPath \/ StartSort \/ BuildDynamic \/ UNCHANGED vars
  <2>1. UNCHANGED <<queue, nth, libraries, neededs>>
    BY <1>4 DEF AbortOnRunPath, StartSort, BuildDynamic, vars, maps
  <2> QED BY <2>1, WalkingStays
<1>5. CASE Sort
  <2>1. UNCHANGED <<queue, nth, libraries, neededs>>
    BY <1>1, <1>5, SortCases DEF maps, ResolveInv
  <2> QED BY <2>1, WalkingStays
<1> QED BY <1>2, <1>3, <1>4, <1>5 DEF Next

\* When directories hold different copies of a library, the copy that is linked is
\* the one found from the first binary of a breadth-first walk that needs it
\* (ResolveLibraryPaths).
THEOREM CopyOfFirstNeederHolds == Spec => []CopyOfFirstNeeder
<1>1. ResolveInv /\ Walking => CopyOfFirstNeeder
  <2> SUFFICES ASSUME ResolveInv, Walking, phase = "dynamic", NEW f \in DOMAIN libraries
               PROVE  libraries[f] = Locate(Needer(f), f)
    BY DEF CopyOfFirstNeeder
  <2>1. Shape /\ queue = <<>>
    BY DEF ResolveInv, Searched
  <2>2. PICK w, x, p : Queued(w, p) /\ Underway(w, x, p) /\ Copied(w, p)
    BY DEF Walking
  <2>3. /\ w \in Seq(Names) /\ p \in Nat /\ Len(w) = p /\ DOMAIN w = 1..p
        /\ \A j, k \in 1..p : w[j] = w[k] => j = k
        /\ Elements(w) = DOMAIN neededs
        /\ WalkTo(neededs, p, w)
    <3>1. Len(<<>>) = 0
      OBVIOUS
    <3>2. w \in Seq(Names) /\ p \in Nat /\ Len(w) = p
      BY <2>1, <2>2, <3>1 DEF Queued
    <3> QED BY <2>1, <2>2, <3>2 DEF Queued, Underway
  <2>4. Cardinality(DOMAIN neededs) = p
    <3>1. w \in Bijection(1..p, DOMAIN neededs)
      <4>1. w \in [1..p -> DOMAIN neededs]
        BY <2>3 DEF Elements
      <4>2. w \in Injection(1..p, DOMAIN neededs)
        BY <2>3, <4>1 DEF Injection, IsInjective
      <4>3. w \in Surjection(1..p, DOMAIN neededs)
        <5>1. \A n \in DOMAIN neededs : \E j \in 1..p : w[j] = n
          BY <2>3 DEF Elements
        <5> QED BY <4>1, <5>1 DEF Surjection
      <4> QED BY <4>2, <4>3 DEF Bijection
    <3> QED BY <2>3, <3>1, FS_CountingElements DEF ExistsBijection
  <2>5. Walk = w
    BY <2>1, <2>3, <2>4, WalkChosen
  <2>6. PICK k \in 1..p : FoundFrom(w, k, f)
    BY <2>2, <2>3 DEF Copied
  <2> DEFINE First(j) == /\ f \in Elements(neededs[w[j]])
                         /\ \A l \in 1..(j - 1) : f \notin Elements(neededs[w[l]])
  <2>7. \A j \in DOMAIN w : First(j) => j = k
    <3>1. SUFFICES ASSUME NEW j \in 1..p, First(j) PROVE j = k
      BY <2>3
    <3>2. CASE j < k
      <4>1. j \in 1..(k - 1)
        BY <3>2
      <4> QED BY <2>6, <3>1, <4>1 DEF FoundFrom
    <3>3. CASE k < j
      <4>1. k \in 1..(j - 1)
        BY <3>3
      <4> QED BY <2>6, <3>1, <4>1 DEF FoundFrom
    <3> QED BY <3>2, <3>3
  <2>8. First(k) /\ k \in DOMAIN w
    BY <2>3, <2>6 DEF FoundFrom
  <2>9. (CHOOSE j \in DOMAIN w : First(j)) = k
    BY <2>7, <2>8
  <2>10. FirstNeeder(w, f) = w[k]
    BY <2>9 DEF FirstNeeder
  <2> QED BY <2>5, <2>6, <2>10 DEF Needer, FoundFrom
<1>2. Init => Walking
  BY WalkingInit
<1>3. ResolveInv /\ Walking /\ [Next]_vars => Walking'
  BY WalkingStep
<1> QED BY <1>1, <1>2, <1>3, ResolveInductive, PTL DEF Spec
=============================================================================
