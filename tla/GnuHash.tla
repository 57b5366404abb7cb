------------------------------ MODULE GnuHash --------------------------------
(***************************************************************************)
(* The DT_GNU_HASH table that sold and renamer write: one bucket, one      *)
(* bloom word of ones, the symbols from 1 on in one chain.  A table is     *)
(* [nbuckets, symndx, buckets, hashvals]; the hash value of symbol n is    *)
(* hashvals[n - symndx + 1].  names[i + 1] is the name of symbol i.        *)
(***************************************************************************)
EXTENDS Integers, Sequences

CONSTANT HashWidth   \* the modulus that stands for 2^32

HashWidthAssumption == HashWidth \in Nat \ {0} /\ HashWidth % 2 = 0

CalcGnuHash(name) ==
    LET h[k \in 0..Len(name)] ==
          IF k = 0 THEN 5381 % HashWidth ELSE (h[k - 1] * 33 + name[k]) % HashWidth
    IN  h[Len(name)]

IsOdd(v) == v % 2 = 1

Even(v) == v - (v % 2)

\* The lowest bit is given up for the mark on the last symbol of the chain.
HashValue(names, i) ==
    Even(CalcGnuHash(names[i + 1])) + (IF i = Len(names) - 1 THEN 1 ELSE 0)

\* "If there is no symbols in gnu_hash, bucket must be 0."
BucketOf(names) == IF Len(names) > 1 THEN 1 ELSE 0

EmitGnuHash(names) ==
    [nbuckets |-> 1, symndx |-> 1, buckets |-> <<BucketOf(names)>>,
     hashvals |-> [i \in 1..(Len(names) - 1) |-> HashValue(names, i)]]

\* The symbols in the chain that starts at n: up to the first odd value or,
\* in a table nobody should write, to the end of what is there.
ChainFrom(tab, n) ==
    LET Last == Len(tab.hashvals) + tab.symndx - 1
        hv(k) == tab.hashvals[k - tab.symndx + 1]
    IN  {k \in n..Last : \A j \in n..(k - 1) : ~IsOdd(hv(j))}

\* What the loader finds for a name; 0 when it finds nothing.
Lookup(tab, names, name) ==
    LET h == CalcGnuHash(name)
        n == tab.buckets[(h % tab.nbuckets) + 1]
        Hits == {k \in ChainFrom(tab, n) :
                   /\ tab.hashvals[k - tab.symndx + 1] \div 2 = h \div 2
                   /\ names[k + 1] = name}
    IN  IF n = 0 \/ Hits = {} THEN 0 ELSE CHOOSE k \in Hits : \A j \in Hits : k <= j
=============================================================================
