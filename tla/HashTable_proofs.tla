-------------------------- MODULE HashTable_proofs --------------------------
(***************************************************************************)
(* Proofs about HashTable, for all keys, hash functions, sizes of tables   *)
(* and places of entries: the links stay what the operations rely on, an   *)
(* iteration gives no key twice, and the table implements Map.             *)
(*                                                                         *)
(* The links of a bucket spell a sequence of entries.  That is said with   *)
(* Path and Holds, and every operation is followed through the sequence    *)
(* it leaves: one with an entry in front, one with two entries swapped,    *)
(* one without an entry.                                                   *)
(***************************************************************************)
EXTENDS HashTable, SequenceTheorems, FiniteSetTheorems, NaturalsInduction, TLAPS

\* A set of natural numbers that is not empty has a least one.
LEMMA LeastNumber ==
  ASSUME NEW T \in SUBSET Nat, T # {}
  PROVE  \E x \in T : \A y \in T : x <= y
<1> DEFINE R == OpToRel(<, Nat)
<1>1. PICK x \in T : \A y \in T : <<y, x>> \notin R
  BY NatLessThanWellFounded, WFMin
<1>2. \A y \in T : ~(y < x)
  BY <1>1 DEF OpToRel
<1> QED
  BY <1>2

----------------------------------------------------------------------------
(* The size of a table.                                                    *)

Doubling(n, p) ==
  p = [i \in 0..n |-> IF i = 0 THEN 1 ELSE 2 * p[i - 1]]

\* The powers of two up to the n-th exist, and grow beyond their number.
LEMMA PowersExist ==
  ASSUME NEW n \in Nat
  PROVE  \E p : Doubling(n, p)
<1> DEFINE Missing == {m \in Nat : ~\E p : Doubling(m, p)}
<1> SUFFICES Missing = {}
  OBVIOUS
<1> SUFFICES ASSUME Missing # {} PROVE FALSE
  OBVIOUS
<1>1. PICK m \in Missing : \A k \in Missing : m <= k
  <2> HIDE DEF Missing
  <2>1. Missing \in SUBSET Nat
    BY DEF Missing
  <2> QED
    BY <2>1, LeastNumber
<1>2. CASE m = 0
  <2>1. Doubling(0, [i \in 0..0 |-> 1])
    BY DEF Doubling
  <2> QED
    BY <1>1, <1>2, <2>1
<1>3. CASE m # 0
  <2>1. m - 1 \in Nat /\ ~(m <= m - 1)
    BY <1>1, <1>3
  <2>2. PICK p : Doubling(m - 1, p)
    BY <1>1, <2>1
  <2> DEFINE q == [i \in 0..m |-> IF i = 0 THEN 1 ELSE 2 * p[i - 1]]
  <2>3. \A i \in 0..m : i # 0 => q[i - 1] = p[i - 1]
    BY <1>1, <2>2 DEF Doubling
  <2>4. Doubling(m, q)
    BY <1>1, <2>3 DEF Doubling
  <2> QED
    BY <1>1, <2>4
<1> QED
  BY <1>2, <1>3

LEMMA PowersGrow ==
  ASSUME NEW n \in Nat, NEW p, Doubling(n, p)
  PROVE  \A i \in 0..n : p[i] \in Nat /\ p[i] > i
<1> DEFINE Wrong == {i \in 0..n : ~(p[i] \in Nat /\ p[i] > i)}
<1> SUFFICES ASSUME Wrong # {} PROVE FALSE
  OBVIOUS
<1>1. PICK m \in Wrong : \A k \in Wrong : m <= k
  <2> HIDE DEF Wrong
  <2>1. Wrong \in SUBSET Nat
    BY DEF Wrong
  <2> QED
    BY <2>1, LeastNumber
<1>2. p[0] = 1
  BY DEF Doubling
<1>3. CASE m # 0
  <2>1. m - 1 \in 0..n /\ p[m] = 2 * p[m - 1]
    BY <1>1, <1>3 DEF Doubling
  <2>2. p[m - 1] \in Nat /\ p[m - 1] > m - 1
    BY <1>1, <1>3, <2>1
  <2> QED
    BY <1>1, <2>1, <2>2
<1> QED
  BY <1>1, <1>2, <1>3

\* A table has at least one bucket.
LEMMA RoundUpIs ==
  ASSUME NEW n \in Nat \ {0}
  PROVE  RoundUp(n) \in Nat \ {0}
<1> DEFINE power == CHOOSE p : Doubling(n, p)
           T == {i \in 0..n : power[i] >= n}
           Chosen(i) == power[i] >= n /\ \A j \in 0..i - 1 : power[j] < n
<1>1. Doubling(n, power)
  BY PowersExist
<1>2. RoundUp(n) = power[CHOOSE i \in 0..n : Chosen(i)]
  BY DEF RoundUp, Doubling
<1> HIDE DEF power
<1>3. \A i \in 0..n : power[i] \in Nat /\ power[i] > i
  BY <1>1, PowersGrow
<1>4. T \in SUBSET Nat /\ n \in T
  BY <1>3
<1>5. PICK i \in T : \A j \in T : i <= j
  <2> HIDE DEF T
  <2> QED
    BY <1>4, LeastNumber
<1>6. Chosen(i)
  BY <1>3, <1>5
<1> DEFINE c == CHOOSE k \in 0..n : Chosen(k)
<1>7. c \in 0..n
  <2> HIDE DEF Chosen
  <2> QED
    BY <1>5, <1>6
<1> HIDE DEF c
<1>8. power[c] \in Nat /\ power[c] > c
  BY <1>3, <1>7
<1> QED
  BY <1>2, <1>7, <1>8 DEF c

----------------------------------------------------------------------------
(* Paths.                                                                  *)

\* The links from a on spell s.
Path(he, a, s) ==
  /\ s \in Seq(DOMAIN he)
  /\ \A i, j \in 1..Len(s) : s[i] = s[j] => i = j
  /\ a = IF Len(s) = 0 THEN Null ELSE s[1]
  /\ \A i \in 1..Len(s) : he[s[i]].p_next = IF i = Len(s) THEN Null ELSE s[i + 1]

\* A sequence without repetitions is not longer than there are addresses.
LEMMA NotLonger ==
  ASSUME NEW s \in Seq(Address), \A i, j \in 1..Len(s) : s[i] = s[j] => i = j
  PROVE  Cardinality(Address) \in Nat /\ Len(s) <= Cardinality(Address)
<1>1. s \in Injection(1..Len(s), Address)
  BY DEF Injection, IsInjective
<1>2. Cardinality(1..Len(s)) <= Cardinality(Address)
  BY <1>1, FS_Injection, AddressAssumption
<1>3. Cardinality(1..Len(s)) = Len(s)
  <2>1. Len(s) \in Int /\ 1 \in Int
    OBVIOUS
  <2> QED
    BY <2>1, FS_Interval
<1> QED
  BY <1>2, <1>3, FS_CardinalityType, AddressAssumption

\* What Chain collects is what the links spell.
LEMMA ChainIs ==
  ASSUME NEW t, NEW a, NEW s, DOMAIN t.he \subseteq Address, Path(t.he, a, s)
  PROVE  Chain(t, a) = s
<1> DEFINE C == Cardinality(Address)
           Further(r, n) ==
             IF Len(r) < n - 1 \/ t.he[Last(r)].p_next = Null THEN r
             ELSE Append(r, t.he[Last(r)].p_next)
           Next1(f, n) ==
             IF n = 0 \/ a = Null THEN <<>> ELSE IF n = 1 THEN <<a>> ELSE Further(f[n - 1], n)
           upto == CHOOSE f : f = [n \in 0..C |-> Next1(f, n)]
           g == [n \in 0..C |-> SubSeq(s, 1, IF n <= Len(s) THEN n ELSE Len(s))]
<1>1. Chain(t, a) = upto[C]
  BY DEF Chain
<1>2. s \in Seq(Address) /\ C \in Nat /\ Len(s) <= C /\ Len(s) \in Nat
  BY NotLonger, SeqMonotonic DEF Path
<1>3. \A i \in 1..Len(s) : s[i] \in Address /\ s[i] # Null /\ s[i] \in Nat
  <2>1. s \in Seq(Address)
    BY <1>2
  <2>2. \A i \in 1..Len(s) : s[i] \in Address
    BY <2>1
  <2>3. \A x \in Address : x # Null /\ x \in Nat
    BY AddressAssumption DEF Null
  <2> QED
    BY <2>2, <2>3
<1>4. a = Null <=> Len(s) = 0
  BY <1>2, <1>3 DEF Path
<1>5. \A n \in 0..C : n <= Len(s) => g[n] = SubSeq(s, 1, n)
  BY <1>2
<1>6. \A n \in 0..C : ~(n <= Len(s)) => g[n] = s
  BY <1>2
<1>7. ASSUME NEW n \in 0..C PROVE g[n] = Next1(g, n)
  <2>1. CASE n = 0 \/ a = Null
    <3>1. g[n] = <<>>
      BY <1>2, <1>4, <2>1
    <3> QED
      BY <2>1, <3>1
  <2>2. CASE n = 1 /\ a # Null
    <3>1. g[n] = SubSeq(s, 1, 1) /\ 1 \in 1..Len(s)
      BY <1>2, <1>4, <1>5, <2>2
    <3>2. SubSeq(s, 1, 1) = <<s[1]>>
      <4> DEFINE q == SubSeq(s, 1, 1)
                 o == <<s[1]>>
      <4>1. q \in Seq(Address) /\ Len(q) = 1 /\ q[1] = s[1]
        BY <1>2, <3>1
      <4>2. o \in Seq(Address) /\ Len(o) = 1 /\ o[1] = s[1]
        BY <1>3, <3>1
      <4> HIDE DEF q, o
      <4>3. q = o
        BY <4>1, <4>2, SeqEqual
      <4> QED
        BY <4>3 DEF q, o
    <3> QED
      BY <1>4, <2>2, <3>1, <3>2 DEF Path
  <2>3. CASE n > 1 /\ a # Null
    <3> DEFINE r == g[n - 1]
    <3>1. n - 1 \in 0..C /\ n - 1 \in 1..C /\ Len(s) > 0
      BY <1>2, <1>4, <2>3
    <3>5. Next1(g, n) = Further(r, n)
      <4> HIDE DEF g, Further
      <4> QED
        BY <2>3
    <3>2. CASE n - 1 > Len(s)
      <4>1. r = s /\ g[n] = s
        BY <1>2, <1>6, <3>1, <3>2
      <4>2. Further(s, n) = s
        BY <1>2, <3>2
      <4> HIDE DEF g, Further, Next1
      <4> QED
        BY <3>5, <4>1, <4>2
    <3>3. CASE n - 1 = Len(s)
      <4>1. r = s /\ g[n] = s
        <5>1. r = SubSeq(s, 1, Len(s))
          BY <1>5, <3>1, <3>3
        <5>2. g[n] = s
          BY <1>6, <3>1, <3>3
        <5> QED
          BY <1>2, <5>1, <5>2, SubSeqFull
      <4>2. Further(s, n) = s
        BY <1>2, <3>1 DEF Path, Last
      <4> HIDE DEF g, Further, Next1
      <4> QED
        BY <3>5, <4>1, <4>2
    <3>4. CASE n <= Len(s)
      <4>1. r = SubSeq(s, 1, n - 1) /\ g[n] = SubSeq(s, 1, n)
        BY <1>5, <3>1, <3>4
      <4>2. Len(r) = n - 1 /\ Last(r) = s[n - 1]
        <5> HIDE DEF g
        <5> QED
          BY <1>2, <3>1, <3>4, <4>1 DEF Last
      <4>3. t.he[s[n - 1]].p_next = s[n] /\ s[n] # Null
        <5>1. n - 1 \in 1..Len(s) /\ n - 1 # Len(s) /\ (n - 1) + 1 = n /\ n \in 1..Len(s)
          BY <1>2, <3>1, <3>4
        <5> QED
          BY <1>3, <5>1 DEF Path
      <4>4. Append(SubSeq(s, 1, n - 1), s[n]) = SubSeq(s, 1, n)
        BY <1>2, <3>1, <3>4
      <4>5. Further(r, n) = Append(r, s[n])
        <5> HIDE DEF g
        <5> QED
          BY <3>1, <4>2, <4>3
      <4> HIDE DEF g, Further, Next1
      <4> QED
        BY <3>5, <4>1, <4>4, <4>5
    <3> HIDE DEF g, Further, Next1
    <3> QED
      BY <1>2, <3>2, <3>3, <3>4
  <2> HIDE DEF g, Next1
  <2> QED
    BY <1>2, <2>1, <2>2, <2>3
<1>8. g = [n \in 0..C |-> Next1(g, n)]
  <2> HIDE DEF Next1
  <2> QED
    BY <1>7
<1>9. upto = [n \in 0..C |-> Next1(upto, n)]
  <2> HIDE DEF g, Next1
  <2> QED
    BY <1>8
<1>10. \A n \in 0..C : upto[n] = Next1(upto, n)
  <2> HIDE DEF Next1, upto
  <2> QED
    BY <1>9
<1> HIDE DEF upto
<1>11. \A n \in 0..C : upto[n] = g[n]
  <2> DEFINE Wrong == {n \in 0..C : upto[n] # g[n]}
  <2> SUFFICES ASSUME Wrong # {} PROVE FALSE
    OBVIOUS
  <2>1. PICK m \in Wrong : \A k \in Wrong : m <= k
    <3>1. Wrong \in SUBSET Nat
      BY <1>2
    <3> HIDE DEF Wrong
    <3> QED
      BY <3>1, LeastNumber
  <2>2. m \in 0..C /\ upto[m] # g[m] /\ \A k \in 0..C : k < m => upto[k] = g[k]
    <3> HIDE DEF g
    <3> QED
      BY <1>2, <2>1
  <2>3. Next1(upto, m) = Next1(g, m)
    <3> HIDE DEF g
    <3>1. CASE m = 0
      BY <3>1
    <3>2. CASE m # 0
      <4>1. upto[m - 1] = g[m - 1]
        BY <1>2, <2>2, <3>2
      <4> HIDE DEF Further
      <4> QED
        BY <4>1
    <3> QED
      BY <3>1, <3>2
  <2> HIDE DEF g, Next1
  <2> QED
    BY <1>7, <1>10, <2>2, <2>3
<1>12. g[C] = s
  <2>1. CASE C = Len(s)
    BY <1>2, <1>5, <2>1, SubSeqFull
  <2>2. CASE C # Len(s)
    BY <1>2, <1>6, <2>2
  <2> QED
    BY <2>1, <2>2
<1> HIDE DEF g
<1> QED
  BY <1>1, <1>2, <1>11, <1>12
\* What the links from an entry of a path on spell.
LEMMA PathFrom ==
  ASSUME NEW he, NEW a, NEW s, Path(he, a, s), NEW j \in 1..Len(s)
  PROVE  /\ Path(he, s[j], SubSeq(s, j, Len(s)))
         /\ ToSet(SubSeq(s, j, Len(s))) = {s[i] : i \in j..Len(s)}
<1> DEFINE q == SubSeq(s, j, Len(s))
           n == Len(s) - (j - 1)
<1>1. s \in Seq(DOMAIN he) /\ Len(s) \in Nat
  BY DEF Path
<1>2. q \in Seq(DOMAIN he) /\ Len(q) = n /\ \A i \in 1..n : q[i] = s[(j - 1) + i]
  BY <1>1
<1>3. \A i \in 1..n : (j - 1) + i \in 1..Len(s) /\ (j - 1) + (i + 1) = ((j - 1) + i) + 1
  BY <1>1
<1>4. n \in Nat \ {0} /\ (j - 1) + 1 = j
  BY <1>1
<1>5. \A i, k \in 1..n : q[i] = q[k] => i = k
  <2> TAKE i, k \in 1..n
  <2>1. s[(j - 1) + i] = s[(j - 1) + k] => (j - 1) + i = (j - 1) + k
    BY <1>3 DEF Path
  <2> QED
    BY <1>1, <1>2, <2>1
<1>6. \A i \in 1..n : he[q[i]].p_next = IF i = n THEN Null ELSE q[i + 1]
  <2> TAKE i \in 1..n
  <2> DEFINE m == (j - 1) + i
  <2>1. m \in 1..Len(s) /\ (m = Len(s) <=> i = n) /\ m + 1 = (j - 1) + (i + 1)
    BY <1>1
  <2>2. i # n => i + 1 \in 1..n
    BY <1>4
  <2>3. he[s[m]].p_next = IF m = Len(s) THEN Null ELSE s[m + 1]
    BY <2>1 DEF Path
  <2>4. q[i] = s[m] /\ (i # n => q[i + 1] = s[m + 1])
    BY <1>2, <2>1, <2>2
  <2> HIDE DEF q, n, m
  <2> QED
    BY <2>1, <2>3, <2>4
<1>7. Path(he, s[j], q)
  <2>1. q[1] = s[j]
    BY <1>2, <1>4
  <2> HIDE DEF q, n
  <2> QED
    BY <1>2, <1>4, <1>5, <1>6, <2>1 DEF Path
<1>8. ToSet(q) = {s[i] : i \in j..Len(s)}
  <2>1. ASSUME NEW i \in j..Len(s) PROVE \E k \in 1..n : q[k] = s[i]
    <3>1. i - (j - 1) \in 1..n /\ (j - 1) + (i - (j - 1)) = i
      BY <1>1
    <3> QED
      BY <1>2, <3>1
  <2>2. ASSUME NEW k \in 1..n PROVE \E i \in j..Len(s) : q[k] = s[i]
    <3>1. (j - 1) + k \in j..Len(s)
      BY <1>1
    <3> QED
      BY <1>2, <3>1
  <2>3. DOMAIN q = 1..n
    BY <1>2
  <2>4. ToSet(q) = {q[k] : k \in 1..n}
    BY <2>3 DEF ToSet
  <2> DEFINE R == {s[i] : i \in j..Len(s)}
  <2> HIDE DEF q, n
  <2>5. \A x \in R : x \in ToSet(q)
    BY <2>1, <2>4
  <2>6. \A x \in ToSet(q) : x \in R
    BY <2>2, <2>4
  <2> HIDE DEF R
  <2>7. ToSet(q) = R
    BY <2>5, <2>6
  <2> QED
    BY <2>7 DEF R
<1> QED
  BY <1>7, <1>8

----------------------------------------------------------------------------
(* Tables.                                                                 *)

Entries == [key : Keys, data : Values, p_next : Nat, p_prev : Nat]

Shaped(t) ==
  /\ t \in [i_size : Nat \ {0}, i_items : Int,
            pp_entries : [0..t.i_size - 1 -> Nat], p_nr : [0..t.i_size - 1 -> Int],
            i_heuristics : Heuristics, i_automatic_rehash : BOOLEAN,
            he : [DOMAIN t.he -> Entries]]
  /\ DOMAIN t.he \subseteq Address

\* The links of bucket l spell s, backwards too; it is the entries whose keys
\* belong there, and they are counted.
Holds(t, l, s) ==
  /\ Path(t.he, t.pp_entries[l], s)
  /\ \A i \in 1..Len(s) : t.he[s[i]].p_prev = IF i = 1 THEN Null ELSE s[i - 1]
  /\ ToSet(s) = {a \in DOMAIN t.he : BucketOf(t, t.he[a].key) = l}
  /\ t.p_nr[l] = Len(s)

Distinct(t) == \A a, b \in DOMAIN t.he : t.he[a].key = t.he[b].key => a = b

\* The inductive invariant of a table that exists.
WellLinked(t) ==
  /\ Shaped(t)
  /\ \A l \in 0..t.i_size - 1 : Holds(t, l, Bucket(t, l))
  /\ Distinct(t)
  /\ t.i_items = Cardinality(DOMAIN t.he)

LEMMA BucketRange ==
  ASSUME NEW t, t.i_size \in Nat \ {0}, NEW k \in Keys
  PROVE  BucketOf(t, k) \in 0..t.i_size - 1
<1>1. Hash[k] \in Nat
  BY HashAssumption
<1> QED
  BY <1>1 DEF BucketOf

LEMMA HoldsIs ==
  ASSUME NEW t, Shaped(t), NEW l, NEW s, Holds(t, l, s)
  PROVE  Bucket(t, l) = s
  BY ChainIs DEF Shaped, Holds, Bucket

LEMMA EntryIs ==
  ASSUME NEW t, Shaped(t), NEW a \in DOMAIN t.he
  PROVE  /\ t.he[a] \in Entries
         /\ t.he[a].key \in Keys /\ t.he[a].data \in Values
         /\ t.he[a].p_next \in Nat /\ t.he[a].p_prev \in Nat
         /\ a \in Address /\ a \in Nat /\ a # Null
         /\ BucketOf(t, t.he[a].key) \in 0..t.i_size - 1
<1>1. t.he \in [DOMAIN t.he -> Entries] /\ t.i_size \in Nat \ {0}
  BY DEF Shaped
<1>2. t.he[a] \in Entries
  BY <1>1
<1> QED
  BY <1>1, <1>2, BucketRange, AddressAssumption DEF Shaped, Entries, Null

\* Searching finds the entry with the key.
LEMMA SearchIs ==
  ASSUME NEW t, WellLinked(t), NEW k \in Keys
  PROVE  LET e == Search(t, BucketOf(t, k), k)
         IN  \/ e = Null /\ \A a \in DOMAIN t.he : t.he[a].key # k
             \/ e \in DOMAIN t.he /\ e # Null /\ t.he[e].key = k
<1> DEFINE l == BucketOf(t, k)
           found == {a \in DOMAIN t.he : a \in InChain(t, l) /\ t.he[a].key = k}
<1>1. l \in 0..t.i_size - 1
  BY BucketRange DEF WellLinked, Shaped
<1>2. InChain(t, l) = {a \in DOMAIN t.he : BucketOf(t, t.he[a].key) = l}
  BY <1>1 DEF WellLinked, Holds, InChain
<1>3. found = {a \in DOMAIN t.he : t.he[a].key = k}
  BY <1>2
<1>4. Search(t, l, k) = IF found = {} THEN Null ELSE CHOOSE a \in found : TRUE
  BY DEF Search
<1>5. CASE found = {}
  BY <1>3, <1>4, <1>5
<1>6. CASE found # {}
  <2>1. Search(t, l, k) \in found
    BY <1>4, <1>6
  <2> QED
    BY <1>3, <2>1, EntryIs DEF WellLinked
<1> QED
  BY <1>5, <1>6

\* Apart from bucket l, table u is linked as table t.
Elsewhere(t, u, l) ==
  /\ u.i_size = t.i_size
  /\ \A m \in 0..t.i_size - 1 : m # l =>
       u.pp_entries[m] = t.pp_entries[m] /\ u.p_nr[m] = t.p_nr[m]
  /\ \A a \in DOMAIN t.he : BucketOf(t, t.he[a].key) # l =>
       a \in DOMAIN u.he /\ u.he[a] = t.he[a]
  /\ \A a \in DOMAIN u.he : BucketOf(u, u.he[a].key) # l =>
       a \in DOMAIN t.he /\ u.he[a] = t.he[a]

SameBuckets(t, u, l) ==
  \A m \in 0..t.i_size - 1 : m # l => Bucket(u, m) = Bucket(t, m)

\* A table of which one bucket is linked anew.
LEMMA Relinked ==
  ASSUME NEW t, WellLinked(t), NEW u, Shaped(u), NEW l \in 0..t.i_size - 1,
         Elsewhere(t, u, l), NEW s, Holds(u, l, s),
         Distinct(u), u.i_items = Cardinality(DOMAIN u.he)
  PROVE  WellLinked(u) /\ Bucket(u, l) = s /\ SameBuckets(t, u, l)
<1>1. Bucket(u, l) = s
  BY HoldsIs
<1>2. u.i_size = t.i_size /\ \A k : BucketOf(u, k) = BucketOf(t, k)
  BY DEF BucketOf, Elsewhere
<1>3. ASSUME NEW m \in 0..t.i_size - 1, m # l
      PROVE  Holds(u, m, Bucket(t, m)) /\ Bucket(u, m) = Bucket(t, m)
  <2> DEFINE q == Bucket(t, m)
  <2>1. Holds(t, m, q)
    BY DEF WellLinked
  <2> HIDE DEF q
  <2>2. ToSet(q) = {a \in DOMAIN u.he : BucketOf(u, u.he[a].key) = m}
    BY <1>2, <1>3, <2>1 DEF Holds, Elsewhere
  <2>3. q \in Seq(DOMAIN t.he) /\ \A i \in 1..Len(q) : q[i] \in ToSet(q)
    BY <2>1 DEF Holds, Path, ToSet
  <2>8. \A b \in DOMAIN t.he : BucketOf(t, t.he[b].key) = m => b \in DOMAIN u.he /\ u.he[b] = t.he[b]
    BY <1>3 DEF Elsewhere
  <2>4. \A i \in 1..Len(q) : q[i] \in DOMAIN u.he /\ u.he[q[i]] = t.he[q[i]]
    BY <2>1, <2>3, <2>8 DEF Holds
  <2>5. q \in Seq(DOMAIN u.he)
    BY <2>3, <2>4
  <2>6. Path(u.he, u.pp_entries[m], q)
    BY <1>3, <2>1, <2>4, <2>5 DEF Holds, Path, Elsewhere
  <2>7. Holds(u, m, q)
    BY <1>3, <2>1, <2>2, <2>4, <2>6 DEF Holds, Elsewhere
  <2> QED
    BY <2>7, HoldsIs DEF q
<1> QED
  BY <1>1, <1>2, <1>3 DEF WellLinked, SameBuckets
----------------------------------------------------------------------------
(* The operations on one bucket.                                           *)

LEMMA UpdateIs ==
  ASSUME NEW D, NEW R, NEW g \in [D -> R], NEW l \in D, NEW v \in R
  PROVE  [g EXCEPT ![l] = v] \in [D -> R]
  OBVIOUS

LEMMA FunctionIsSeq ==
  ASSUME NEW D, NEW n \in Nat, NEW q \in [1..n -> D]
  PROVE  q \in Seq(D) /\ Len(q) = n /\ DOMAIN q = 1..n
  OBVIOUS

\* A new entry becomes the first of its bucket.
LEMMA PlaceFirstIs ==
  ASSUME NEW t, WellLinked(t), NEW a \in Address \ DOMAIN t.he,
         NEW k \in Keys, NEW v \in Values, \A b \in DOMAIN t.he : t.he[b].key # k
  PROVE  LET l == BucketOf(t, k)
             u == PlaceFirst(t, l, a, k, v)
         IN  /\ WellLinked(u)
             /\ u.i_size = t.i_size
             /\ u.i_heuristics = t.i_heuristics
             /\ u.i_automatic_rehash = t.i_automatic_rehash
             /\ DOMAIN u.he = DOMAIN t.he \cup {a}
             /\ u.he[a].key = k /\ u.he[a].data = v
             /\ \A b \in DOMAIN t.he :
                  /\ u.he[b].key = t.he[b].key /\ u.he[b].data = t.he[b].data
                  /\ u.he[b].p_next = t.he[b].p_next
             /\ SameBuckets(t, u, l)
             /\ ToSet(Bucket(u, l)) = ToSet(Bucket(t, l)) \cup {a}
<1> DEFINE l == BucketOf(t, k)
           u == PlaceFirst(t, l, a, k, v)
           s == Bucket(t, l)
           f == t.pp_entries[l]
           q == [i \in 1..Len(s) + 1 |-> IF i = 1 THEN a ELSE s[i - 1]]
           New == [key |-> k, data |-> v, p_next |-> f, p_prev |-> Null]
<1>1. l \in 0..t.i_size - 1 /\ Shaped(t)
  BY BucketRange DEF WellLinked, Shaped
<1>2. Holds(t, l, s)
  BY <1>1 DEF WellLinked
<1> HIDE DEF s, l
<1>3. /\ t.pp_entries \in [0..t.i_size - 1 -> Nat] /\ t.p_nr \in [0..t.i_size - 1 -> Int]
      /\ t.i_items \in Int /\ f \in Nat /\ f = t.pp_entries[l] /\ t.i_size \in Nat \ {0}
      /\ a \in Nat /\ a # Null /\ Null \in Nat
      /\ \A b \in DOMAIN t.he : t.he[b] \in Entries /\ b # a
  BY <1>1, AddressAssumption DEF Shaped, Null
<1>4. New \in Entries
  BY <1>3 DEF Entries
<1>5. /\ u.i_size = t.i_size
      /\ u.i_items = t.i_items + 1
      /\ u.i_heuristics = t.i_heuristics
      /\ u.i_automatic_rehash = t.i_automatic_rehash
      /\ u.pp_entries = [t.pp_entries EXCEPT ![l] = a]
      /\ u.p_nr = [t.p_nr EXCEPT ![l] = @ + 1]
      /\ u.he = [n \in DOMAIN t.he \cup {a} |->
           IF n = a THEN New ELSE IF n = f THEN [t.he[n] EXCEPT !.p_prev = a] ELSE t.he[n]]
      /\ u = [t EXCEPT !.pp_entries = u.pp_entries, !.p_nr = u.p_nr,
                       !.i_items = u.i_items, !.he = u.he]
  BY <1>1 DEF PlaceFirst, Shaped
<1> HIDE DEF u, New, f
<1>6. /\ u.he[a] = New
      /\ \A b \in DOMAIN t.he : /\ u.he[b] \in Entries
                                /\ u.he[b].key = t.he[b].key
                                /\ u.he[b].data = t.he[b].data
                                /\ u.he[b].p_next = t.he[b].p_next
                                /\ u.he[b].p_prev = IF b = f THEN a ELSE t.he[b].p_prev
                                /\ b # f => u.he[b] = t.he[b]
  <2>1. a \in DOMAIN u.he /\ u.he[a] = New
    BY <1>5
  <2> SUFFICES ASSUME NEW b \in DOMAIN t.he
               PROVE  /\ u.he[b] \in Entries
                      /\ u.he[b].key = t.he[b].key
                      /\ u.he[b].data = t.he[b].data
                      /\ u.he[b].p_next = t.he[b].p_next
                      /\ u.he[b].p_prev = IF b = f THEN a ELSE t.he[b].p_prev
                      /\ b # f => u.he[b] = t.he[b]
    BY <2>1
  <2>2. u.he[b] = IF b = f THEN [t.he[b] EXCEPT !.p_prev = a] ELSE t.he[b]
    BY <1>3, <1>5
  <2>3. t.he[b] \in Entries
    BY <1>3
  <2>4. CASE b = f
    <3>1. u.he[b] = [t.he[b] EXCEPT !.p_prev = a]
      BY <2>2, <2>4
    <3> QED
      BY <1>3, <2>3, <2>4, <3>1 DEF Entries
  <2> QED
    BY <2>2, <2>3, <2>4
<1>7. Shaped(u)
  <2>1. u.he \in [DOMAIN u.he -> Entries] /\ DOMAIN u.he = DOMAIN t.he \cup {a}
    <3>1. /\ DOMAIN u.he = DOMAIN t.he \cup {a}
          /\ u.he = [n \in DOMAIN u.he |-> u.he[n]]
      BY <1>5, Zenon
    <3>2. \A n \in DOMAIN t.he \cup {a} : u.he[n] \in Entries
      BY <1>4, <1>6
    <3> QED
      BY <3>1, <3>2, Zenon
  <2>2. /\ u.pp_entries \in [0..t.i_size - 1 -> Nat] /\ u.p_nr \in [0..t.i_size - 1 -> Int]
        /\ u.i_items \in Int
    <3>1. t.p_nr[l] + 1 \in Int
      <4>1. t.p_nr \in [0..t.i_size - 1 -> Int] /\ l \in 0..t.i_size - 1
        BY <1>1, <1>3
      <4>2. t.p_nr[l] \in Int
        BY <4>1
      <4> QED
        BY <4>2
    <3>2. u.p_nr = [t.p_nr EXCEPT ![l] = t.p_nr[l] + 1]
      BY <1>5
    <3>3. u.p_nr \in [0..t.i_size - 1 -> Int]
      BY <1>3, <3>1, <3>2
    <3>4. /\ u.pp_entries = [t.pp_entries EXCEPT ![l] = a] /\ a \in Nat
          /\ t.pp_entries \in [0..t.i_size - 1 -> Nat]
      BY <1>3, <1>5
    <3>5. u.pp_entries \in [0..t.i_size - 1 -> Nat]
      BY <3>4
    <3> QED
      BY <1>3, <1>5, <3>3, <3>5
  <2> QED
    BY <1>1, <1>5, <2>1, <2>2 DEF Shaped
<1>8. s \in Seq(DOMAIN t.he) /\ Len(s) \in Nat /\ q \in Seq(DOMAIN u.he) /\ Len(q) = Len(s) + 1
  <2>1. s \in Seq(DOMAIN t.he) /\ Len(s) \in Nat
    BY <1>2 DEF Holds, Path
  <2>2. ASSUME NEW i \in 1..Len(s) + 1 PROVE (IF i = 1 THEN a ELSE s[i - 1]) \in DOMAIN u.he
    <3>1. i # 1 => i - 1 \in 1..Len(s)
      BY <2>1
    <3> QED
      BY <1>5, <2>1, <3>1
  <2>3. q \in [1..Len(s) + 1 -> DOMAIN u.he] /\ Len(s) + 1 \in Nat
    BY <2>1, <2>2
  <2> HIDE DEF q
  <2> QED
    BY <2>1, <2>3, FunctionIsSeq
<1>9. q[1] = a /\ \A i \in 1..Len(s) : q[i + 1] = s[i] /\ s[i] \in DOMAIN t.he
  BY <1>8
<1>21. \A i \in 1..Len(q) : i = 1 \/ (i - 1 \in 1..Len(s) /\ q[i] = s[i - 1] /\ s[i - 1] # a)
  BY <1>3, <1>8
<1> HIDE DEF q
<1>10. ToSet(q) = ToSet(s) \cup {a}
  <2>2. \A i \in 1..Len(s) : i + 1 \in 1..Len(q)
    BY <1>8
  <2>3. 1 \in 1..Len(q)
    BY <1>8
  <2>4. ASSUME NEW i \in 1..Len(q) PROVE q[i] \in ToSet(s) \cup {a}
    BY <1>8, <1>9, <1>21 DEF ToSet
  <2>5. ASSUME NEW i \in 1..Len(s) PROVE s[i] \in ToSet(q)
    BY <1>8, <1>9, <2>2 DEF ToSet
  <2>6. a \in ToSet(q)
    BY <1>8, <1>9, <2>3 DEF ToSet
  <2>7. ToSet(q) = {q[i] : i \in 1..Len(q)} /\ ToSet(s) = {s[i] : i \in 1..Len(s)}
    BY <1>8 DEF ToSet
  <2> QED
    BY <2>4, <2>5, <2>6, <2>7
<1>11. Path(u.he, a, q)
  <2>1. \A i, j \in 1..Len(q) : q[i] = q[j] => i = j
    <3> SUFFICES ASSUME NEW i \in 1..Len(q), NEW j \in 1..Len(q), q[i] = q[j] PROVE i = j
      OBVIOUS
    <3>1. i = 1 \/ (i - 1 \in 1..Len(s) /\ q[i] = s[i - 1] /\ q[i] # a)
      BY <1>21
    <3>2. j = 1 \/ (j - 1 \in 1..Len(s) /\ q[j] = s[j - 1] /\ q[j] # a)
      BY <1>21
    <3>3. i - 1 \in 1..Len(s) /\ j - 1 \in 1..Len(s) /\ s[i - 1] = s[j - 1] => i - 1 = j - 1
      BY <1>2 DEF Holds, Path
    <3> QED
      BY <1>8, <1>9, <3>1, <3>2, <3>3
  <2>2. ASSUME NEW i \in 1..Len(q)
        PROVE  u.he[q[i]].p_next = IF i = Len(q) THEN Null ELSE q[i + 1]
    <3>1. CASE i = 1
      <4>1. u.he[q[i]].p_next = f
        BY <1>6, <1>9, <3>1 DEF New
      <4>2. f = IF Len(s) = 0 THEN Null ELSE s[1]
        BY <1>2, <1>3 DEF Holds, Path
      <4>3. Len(s) # 0 => q[1 + 1] = s[1]
        BY <1>8, <1>9
      <4> QED
        BY <1>8, <3>1, <4>1, <4>2, <4>3
    <3>2. CASE i # 1
      <4> DEFINE j == i - 1
      <4>1. j \in 1..Len(s) /\ j + 1 = i /\ (j = Len(s) <=> i = Len(q))
        BY <1>8, <3>2
      <4> HIDE DEF j
      <4>2. q[i] = s[j] /\ (j # Len(s) => q[i + 1] = s[j + 1])
        BY <1>8, <1>9, <4>1
      <4>3. u.he[q[i]].p_next = t.he[s[j]].p_next
        BY <1>6, <1>9, <4>1, <4>2
      <4> QED
        BY <1>2, <4>1, <4>2, <4>3 DEF Holds, Path
    <3> QED
      BY <3>1, <3>2
  <2> QED
    BY <1>8, <1>9, <2>1, <2>2 DEF Path
<1>12. ASSUME NEW i \in 1..Len(q)
       PROVE  u.he[q[i]].p_prev = IF i = 1 THEN Null ELSE q[i - 1]
  <2>1. CASE i = 1
    BY <1>6, <1>9, <2>1 DEF New
  <2>2. CASE i # 1
    <3> DEFINE j == i - 1
    <3>1. j \in 1..Len(s) /\ j + 1 = i /\ 1 \in 1..Len(s)
      BY <1>8, <2>2
    <3> HIDE DEF j
    <3>2. q[i] = s[j] /\ s[j] \in DOMAIN t.he
      BY <1>9, <3>1
    <3>3. f = s[1] /\ (s[j] = s[1] => j = 1) /\ t.he[s[j]].p_prev = IF j = 1 THEN Null ELSE s[j - 1]
      <4>1. /\ f = IF Len(s) = 0 THEN Null ELSE s[1]
            /\ \A m, o \in 1..Len(s) : s[m] = s[o] => m = o
        BY <1>2, <1>3 DEF Holds, Path
      <4>2. \A m \in 1..Len(s) : t.he[s[m]].p_prev = IF m = 1 THEN Null ELSE s[m - 1]
        BY <1>2 DEF Holds
      <4>3. Len(s) # 0
        BY <1>8, <3>1
      <4> QED
        BY <3>1, <4>1, <4>2, <4>3
    <3>4. j # 1 => q[i - 1] = s[j - 1]
      <4>1. j # 1 => j - 1 \in 1..Len(s) /\ (j - 1) + 1 = i - 1
        BY <1>8, <3>1
      <4> QED
        BY <1>9, <4>1
    <3>5. u.he[q[i]].p_prev = IF s[j] = s[1] THEN a ELSE t.he[s[j]].p_prev
      BY <1>6, <3>2, <3>3
    <3>6. j = 1 => q[i - 1] = a
      BY <1>9, <3>1
    <3> QED
      BY <2>2, <3>3, <3>4, <3>5, <3>6
  <2> QED
    BY <2>1, <2>2
<1>13. \A x : BucketOf(u, x) = BucketOf(t, x)
  BY <1>5 DEF BucketOf
<1>14. u.he[a].key = k /\ u.he[a].data = v
  BY <1>6 DEF New
<1>15. ToSet(q) = {b \in DOMAIN u.he : BucketOf(u, u.he[b].key) = l}
  <2>1. ToSet(s) = {b \in DOMAIN t.he : BucketOf(t, t.he[b].key) = l}
    BY <1>2 DEF Holds
  <2>2. DOMAIN u.he = DOMAIN t.he \cup {a}
    BY <1>5
  <2>3. BucketOf(u, u.he[a].key) = l
    BY <1>13, <1>14 DEF l
  <2>4. \A b \in DOMAIN t.he : BucketOf(u, u.he[b].key) = BucketOf(t, t.he[b].key)
    BY <1>6, <1>13
  <2>5. ToSet(q) = ToSet(s) \cup {a}
    BY <1>10
  <2> HIDE DEF l, q
  <2> QED
    BY <2>1, <2>2, <2>3, <2>4, <2>5, Zenon
<1>16. Holds(u, l, q)
  <2>1. u.pp_entries[l] = a /\ u.p_nr[l] = Len(q)
    <3>1. /\ l \in DOMAIN t.pp_entries /\ l \in DOMAIN t.p_nr
          /\ u.pp_entries = [t.pp_entries EXCEPT ![l] = a]
          /\ u.p_nr = [t.p_nr EXCEPT ![l] = t.p_nr[l] + 1]
      BY <1>1, <1>3, <1>5
    <3>2. u.pp_entries[l] = a /\ u.p_nr[l] = t.p_nr[l] + 1
      BY <3>1
    <3>3. t.p_nr[l] = Len(s)
      BY <1>2 DEF Holds
    <3> QED
      BY <1>8, <3>2, <3>3
  <2> QED
    BY <1>11, <1>12, <1>15, <2>1 DEF Holds
<1>17. Distinct(u)
  <2>1. Distinct(t)
    BY DEF WellLinked
  <2>2. DOMAIN u.he = DOMAIN t.he \cup {a}
    BY <1>5
  <2> QED
    BY <1>6, <1>14, <2>1, <2>2 DEF Distinct
<1>18. u.i_items = Cardinality(DOMAIN u.he)
  <2>1. IsFiniteSet(DOMAIN t.he)
    BY <1>1, AddressAssumption, FS_Subset DEF Shaped
  <2>2. Cardinality(DOMAIN t.he \cup {a}) = Cardinality(DOMAIN t.he) + 1
    BY <2>1, FS_AddElement
  <2> QED
    BY <1>5, <2>2 DEF WellLinked
<1>19. Elsewhere(t, u, l)
  <2>1. f = Null \/ f \in ToSet(s)
    BY <1>2, <1>3, <1>8 DEF Holds, Path, ToSet
  <2>2. \A b \in DOMAIN t.he : BucketOf(t, t.he[b].key) # l => b # f
    <3>1. \A b \in ToSet(s) : BucketOf(t, t.he[b].key) = l
      BY <1>2 DEF Holds
    <3>2. \A b \in DOMAIN t.he : b # Null
      BY <1>1, EntryIs
    <3> QED
      BY <2>1, <3>1, <3>2
  <2>3. \A b \in DOMAIN u.he : b \in DOMAIN t.he \/ b = a
    BY <1>5
  <2>4. \A m \in 0..t.i_size - 1 : m # l =>
             u.pp_entries[m] = t.pp_entries[m] /\ u.p_nr[m] = t.p_nr[m]
    BY <1>3, <1>5
  <2>5. BucketOf(u, u.he[a].key) = l
    BY <1>13, <1>14 DEF l
  <2>6. \A b \in DOMAIN t.he : BucketOf(u, u.he[b].key) = BucketOf(t, t.he[b].key)
    BY <1>6, <1>13
  <2>7. \A b \in DOMAIN t.he : b \in DOMAIN u.he
    BY <1>5
  <2>8. \A b \in DOMAIN t.he : BucketOf(t, t.he[b].key) # l =>
          b \in DOMAIN u.he /\ u.he[b] = t.he[b]
    BY <1>6, <2>2, <2>7
  <2>9. ASSUME NEW b \in DOMAIN u.he, BucketOf(u, u.he[b].key) # l
        PROVE  b \in DOMAIN t.he /\ u.he[b] = t.he[b]
    <3>1. b \in DOMAIN t.he
      BY <2>3, <2>5, <2>9
    <3> QED
      BY <2>6, <2>8, <2>9, <3>1
  <2> QED
    BY <1>5, <2>4, <2>8, <2>9 DEF Elsewhere
<1>20. WellLinked(u) /\ Bucket(u, l) = q /\ SameBuckets(t, u, l)
  BY <1>1, <1>7, <1>16, <1>17, <1>18, <1>19, Relinked
<1> QED
  BY <1>5, <1>6, <1>10, <1>14, <1>20 DEF l, u, s
\* What the links of a bucket say, entry by entry.
Spells(t, l, s) ==
  /\ s \in Seq(DOMAIN t.he) /\ Len(s) \in Nat /\ DOMAIN s = 1..Len(s)
  /\ \A i, j \in 1..Len(s) : s[i] = s[j] => i = j
  /\ \A i \in 1..Len(s) :
       /\ s[i] \in DOMAIN t.he /\ s[i] \in Nat /\ s[i] # Null
       /\ BucketOf(t, t.he[s[i]].key) = l
       /\ t.he[s[i]].p_next = IF i = Len(s) THEN Null ELSE s[i + 1]
       /\ t.he[s[i]].p_prev = IF i = 1 THEN Null ELSE s[i - 1]
  /\ t.pp_entries[l] = IF Len(s) = 0 THEN Null ELSE s[1]
  /\ t.p_nr[l] = Len(s)
  /\ \A a \in DOMAIN t.he : BucketOf(t, t.he[a].key) = l <=> \E i \in 1..Len(s) : a = s[i]

LEMMA BucketSpells ==
  ASSUME NEW t, WellLinked(t), NEW l \in 0..t.i_size - 1
  PROVE  Spells(t, l, Bucket(t, l))
<1> DEFINE s == Bucket(t, l)
<1>1. Holds(t, l, s) /\ Shaped(t)
  BY DEF WellLinked
<1> HIDE DEF s
<1>2. s \in Seq(DOMAIN t.he) /\ Len(s) \in Nat /\ DOMAIN s = 1..Len(s)
  BY <1>1 DEF Holds, Path
<1>3. ToSet(s) = {s[i] : i \in 1..Len(s)}
  BY <1>2 DEF ToSet
<1>4. ToSet(s) = {a \in DOMAIN t.he : BucketOf(t, t.he[a].key) = l}
  BY <1>1 DEF Holds
<1>5. \A i \in 1..Len(s) : s[i] \in DOMAIN t.he /\ BucketOf(t, t.he[s[i]].key) = l
  BY <1>2, <1>3, <1>4
<1>6. \A i \in 1..Len(s) : s[i] \in Nat /\ s[i] # Null
  BY <1>1, <1>5, EntryIs
<1>7. \A a \in DOMAIN t.he : BucketOf(t, t.he[a].key) = l <=> \E i \in 1..Len(s) : a = s[i]
  BY <1>3, <1>4
<1>8. Spells(t, l, s)
  BY <1>1, <1>2, <1>5, <1>6, <1>7 DEF Holds, Path, Spells
<1> QED
  BY <1>8 DEF s

\* u has some of the entries of t, all those that are not in bucket l, and
\* bucket l is linked in the order of q.
Arranged(t, u, l, q) ==
  /\ Shaped(u)
  /\ u.i_size = t.i_size
  /\ \A m \in 0..t.i_size - 1 : m # l =>
       u.pp_entries[m] = t.pp_entries[m] /\ u.p_nr[m] = t.p_nr[m]
  /\ \A a \in DOMAIN u.he : a \in DOMAIN t.he /\ u.he[a].key = t.he[a].key
  /\ \A a \in DOMAIN t.he : BucketOf(t, t.he[a].key) # l =>
       a \in DOMAIN u.he /\ u.he[a] = t.he[a]
  /\ q \in Seq(DOMAIN u.he)
  /\ \A i, j \in 1..Len(q) : q[i] = q[j] => i = j
  /\ \A i \in 1..Len(q) : BucketOf(t, t.he[q[i]].key) = l
  /\ \A a \in DOMAIN u.he : BucketOf(t, t.he[a].key) = l => \E i \in 1..Len(q) : a = q[i]
  /\ u.pp_entries[l] = IF Len(q) = 0 THEN Null ELSE q[1]
  /\ \A i \in 1..Len(q) : u.he[q[i]].p_next = IF i = Len(q) THEN Null ELSE q[i + 1]
  /\ \A i \in 1..Len(q) : u.he[q[i]].p_prev = IF i = 1 THEN Null ELSE q[i - 1]
  /\ u.p_nr[l] = Len(q)
  /\ u.i_items = Cardinality(DOMAIN u.he)

LEMMA Rearranged ==
  ASSUME NEW t, WellLinked(t), NEW l \in 0..t.i_size - 1, NEW u, NEW q,
         Arranged(t, u, l, q)
  PROVE  WellLinked(u) /\ Bucket(u, l) = q /\ SameBuckets(t, u, l)
<1>1. \A k : BucketOf(u, k) = BucketOf(t, k)
  BY DEF BucketOf, Arranged
<1>2. Elsewhere(t, u, l)
  <2>1. \A a \in DOMAIN u.he : BucketOf(u, u.he[a].key) # l => a \in DOMAIN t.he /\ u.he[a] = t.he[a]
    BY <1>1 DEF Arranged
  <2> QED
    BY <2>1 DEF Elsewhere, Arranged
<1>3. Distinct(u)
  <2>1. Distinct(t)
    BY DEF WellLinked
  <2> QED
    BY <2>1 DEF Distinct, Arranged
<1>4. Path(u.he, u.pp_entries[l], q)
  BY DEF Path, Arranged
<1>5. ToSet(q) = {a \in DOMAIN u.he : BucketOf(u, u.he[a].key) = l}
  <2>1. ToSet(q) = {q[i] : i \in 1..Len(q)}
    BY DEF ToSet, Arranged
  <2>2. \A a \in DOMAIN u.he : BucketOf(u, u.he[a].key) = BucketOf(t, t.he[a].key)
    BY <1>1 DEF Arranged
  <2>3. \A i \in 1..Len(q) : q[i] \in DOMAIN u.he
    BY DEF Arranged
  <2>4. \A i \in 1..Len(q) : BucketOf(u, u.he[q[i]].key) = l
    BY <2>2, <2>3 DEF Arranged
  <2>5. \A a \in DOMAIN u.he : BucketOf(u, u.he[a].key) = l => a \in ToSet(q)
    BY <2>1, <2>2 DEF Arranged
  <2>6. \A a \in ToSet(q) : a \in DOMAIN u.he /\ BucketOf(u, u.he[a].key) = l
    BY <2>1, <2>3, <2>4
  <2> QED
    BY <2>5, <2>6
<1>6. Holds(u, l, q)
  BY <1>4, <1>5 DEF Holds, Arranged
<1>7. Shaped(u) /\ u.i_items = Cardinality(DOMAIN u.he)
  BY DEF Arranged
<1> QED
  BY <1>2, <1>3, <1>6, <1>7, Relinked
\* u has the entries of t, in whatever order.
SameContents(t, u) ==
  /\ u.i_size = t.i_size
  /\ u.i_heuristics = t.i_heuristics
  /\ u.i_automatic_rehash = t.i_automatic_rehash
  /\ DOMAIN u.he = DOMAIN t.he
  /\ \A a \in DOMAIN t.he : u.he[a].key = t.he[a].key /\ u.he[a].data = t.he[a].data

\* u is t with other links: f the first of bucket l, p behind and r before
\* every entry.
LinkedAnew(t, u, l, f, p, r) ==
  /\ f \in Nat /\ \A n \in DOMAIN t.he : p[n] \in Nat /\ r[n] \in Nat
  /\ u = [t EXCEPT !.pp_entries = u.pp_entries, !.he = u.he]
  /\ u.pp_entries = [t.pp_entries EXCEPT ![l] = f]
  /\ DOMAIN u.he = DOMAIN t.he /\ u.he = [n \in DOMAIN t.he |-> u.he[n]]
  /\ \A n \in DOMAIN t.he : u.he[n] = [t.he[n] EXCEPT !.p_next = p[n], !.p_prev = r[n]]

HasLinks(t, u, l, f, p, r) ==
  /\ Shaped(u) /\ SameContents(t, u)
  /\ u.p_nr = t.p_nr /\ u.i_items = t.i_items
  /\ u.pp_entries[l] = f
  /\ \A m \in 0..t.i_size - 1 : m # l => u.pp_entries[m] = t.pp_entries[m]
  /\ \A n \in DOMAIN t.he : u.he[n].p_next = p[n] /\ u.he[n].p_prev = r[n]

\* New links make no other entries.
LEMMA NewLinks ==
  ASSUME NEW t, Shaped(t), NEW l \in 0..t.i_size - 1, NEW u, NEW f, NEW p, NEW r,
         LinkedAnew(t, u, l, f, p, r)
  PROVE  HasLinks(t, u, l, f, p, r)
<1>1. \A n \in DOMAIN t.he :
        /\ u.he[n] \in Entries
        /\ u.he[n].key = t.he[n].key /\ u.he[n].data = t.he[n].data
        /\ u.he[n].p_next = p[n] /\ u.he[n].p_prev = r[n]
  <2> SUFFICES ASSUME NEW n \in DOMAIN t.he
               PROVE  /\ u.he[n] \in Entries
                      /\ u.he[n].key = t.he[n].key /\ u.he[n].data = t.he[n].data
                      /\ u.he[n].p_next = p[n] /\ u.he[n].p_prev = r[n]
    OBVIOUS
  <2>1. t.he[n] \in Entries /\ p[n] \in Nat /\ r[n] \in Nat
    BY EntryIs DEF LinkedAnew
  <2>2. u.he[n] = [t.he[n] EXCEPT !.p_next = p[n], !.p_prev = r[n]]
    BY DEF LinkedAnew
  <2> QED
    BY <2>1, <2>2 DEF Entries
<1>2. u.he \in [DOMAIN u.he -> Entries]
  BY <1>1 DEF LinkedAnew
<1>3. t.pp_entries \in [0..t.i_size - 1 -> Nat]
  BY DEF Shaped
<1>4. /\ u.pp_entries \in [0..t.i_size - 1 -> Nat]
      /\ u.pp_entries[l] = f
      /\ \A m \in 0..t.i_size - 1 : m # l => u.pp_entries[m] = t.pp_entries[m]
  <2>1. u.pp_entries = [t.pp_entries EXCEPT ![l] = f] /\ f \in Nat
    BY DEF LinkedAnew
  <2>2. u.pp_entries \in [0..t.i_size - 1 -> Nat]
    BY <1>3, <2>1, UpdateIs
  <2> QED
    BY <1>3, <2>1, <2>2
<1>5. /\ u.i_size = t.i_size /\ u.p_nr = t.p_nr /\ u.i_items = t.i_items
      /\ u.i_heuristics = t.i_heuristics /\ u.i_automatic_rehash = t.i_automatic_rehash
  BY DEF Shaped, LinkedAnew
<1>6. Shaped(u)
  BY <1>2, <1>4 DEF Shaped, LinkedAnew
<1> QED
  BY <1>1, <1>4, <1>5, <1>6 DEF SameContents, LinkedAnew, HasLinks
\* transpose swaps an entry and its predecessor.
LEMMA TransposeIs ==
  ASSUME NEW t, WellLinked(t), NEW e \in DOMAIN t.he,
         NEW l, l = BucketOf(t, t.he[e].key)
  PROVE  WellLinked(transpose(t, l, e)) /\ SameContents(t, transpose(t, l, e))
<1> DEFINE s == Bucket(t, l)
           x == t.he[e].p_prev
           a == t.he[x].p_prev
           b == t.he[e].p_next
           u == transpose(t, l, e)
           f == IF a = Null THEN e ELSE t.pp_entries[l]
           p == [n \in DOMAIN t.he |-> IF n = e THEN x ELSE IF n = x THEN b
                                       ELSE IF n = a THEN e ELSE t.he[n].p_next]
           r == [n \in DOMAIN t.he |-> IF n = e THEN a ELSE IF n = x THEN e
                                       ELSE IF n = b THEN x ELSE t.he[n].p_prev]
<1>1. Shaped(t) /\ l \in 0..t.i_size - 1
  BY EntryIs DEF WellLinked
<1>2. CASE x = Null
  <2>1. u = t
    BY <1>2 DEF transpose
  <2> HIDE DEF u
  <2> QED
    BY <2>1 DEF SameContents, u
<1>3. CASE x # Null
  <2>1. Spells(t, l, s)
    BY <1>1, BucketSpells
  <2> HIDE DEF s
  <2>15. Len(s) \in Nat /\ \A i \in 1..Len(s) : s[i] \in DOMAIN t.he /\ s[i] \in Nat /\ s[i] # Null
    BY <2>1 DEF Spells
  <2>16. \A i \in 1..Len(s) : /\ t.he[s[i]].p_next = IF i = Len(s) THEN Null ELSE s[i + 1]
                              /\ t.he[s[i]].p_prev = IF i = 1 THEN Null ELSE s[i - 1]
    BY <2>1 DEF Spells
  <2>17. \A i, j \in 1..Len(s) : s[i] = s[j] <=> i = j
    BY <2>1 DEF Spells
  <2>29. t.pp_entries[l] = IF Len(s) = 0 THEN Null ELSE s[1]
    BY <2>1, Zenon DEF Spells
  <2>30. \A i \in 1..Len(s) : BucketOf(t, t.he[s[i]].key) = l
    BY <2>1, Zenon DEF Spells
  <2>31. \A n \in DOMAIN t.he : BucketOf(t, t.he[n].key) = l <=> \E i \in 1..Len(s) : n = s[i]
    BY <2>1, Zenon DEF Spells
  <2>2. PICK m \in 1..Len(s) : e = s[m]
    BY <2>1 DEF Spells
  <2>3. /\ m # 1 /\ m - 1 \in 1..Len(s) /\ x = s[m - 1]
        /\ b = IF m = Len(s) THEN Null ELSE s[m + 1]
    <3>1. /\ x = IF m = 1 THEN Null ELSE s[m - 1]
          /\ b = IF m = Len(s) THEN Null ELSE s[m + 1]
      BY <2>2, <2>16
    <3>2. m # 1 => m - 1 \in 1..Len(s)
      BY <2>15
    <3> QED
      BY <1>3, <3>1, <3>2
  <2>4. a = IF m = 2 THEN Null ELSE s[m - 2]
    <3>1. PICK j \in 1..Len(s) : j = m - 1
      BY <2>3
    <3>2. a = IF j = 1 THEN Null ELSE s[j - 1]
      BY <2>3, <2>16, <3>1
    <3>3. (j = 1 <=> m = 2) /\ j - 1 = m - 2
      BY <2>15, <3>1
    <3> HIDE DEF a
    <3> QED
      BY <3>2, <3>3
  <2>5. /\ m # 2 => m - 2 \in 1..Len(s)
        /\ m # Len(s) => m + 1 \in 1..Len(s)
    <3> HIDE DEF x, b
    <3> QED
      BY <2>3, <2>15
  <2>6. /\ x \in DOMAIN t.he /\ x \in Nat
        /\ a \in Nat /\ (a = Null \/ a \in DOMAIN t.he)
        /\ b \in Nat /\ (b = Null \/ b \in DOMAIN t.he)
        /\ e \in Nat /\ Null \in Nat /\ \A n \in DOMAIN t.he : n # Null
    <3> HIDE DEF x, a, b
    <3>1. \A n \in DOMAIN t.he : n \in Nat /\ n # Null
      BY <1>1, EntryIs
    <3> QED
      BY <2>3, <2>4, <2>5, <2>15, <3>1 DEF Null
  <2>7. \A i \in 1..Len(s) : /\ s[i] = e <=> i = m
                             /\ s[i] = x <=> i = m - 1
                             /\ s[i] = a <=> i = m - 2
                             /\ s[i] = b <=> i = m + 1
    <3> SUFFICES ASSUME NEW i \in 1..Len(s)
                 PROVE  /\ s[i] = e <=> i = m
                        /\ s[i] = x <=> i = m - 1
                        /\ s[i] = a <=> i = m - 2
                        /\ s[i] = b <=> i = m + 1
      OBVIOUS
    <3> HIDE DEF x, a, b
    <3>1. s[i] # Null /\ \A j \in 1..Len(s) : s[i] = s[j] <=> i = j
      BY <2>15, <2>17
    <3>2. (s[i] = e <=> i = m) /\ (s[i] = x <=> i = m - 1)
      BY <2>2, <2>3, <3>1
    <3>3. s[i] = a <=> i = m - 2
      <4>1. CASE m = 2
        BY <2>4, <3>1, <4>1
      <4>2. CASE m # 2
        BY <2>4, <2>5, <3>1, <4>2
      <4> QED
        BY <4>1, <4>2
    <3>4. s[i] = b <=> i = m + 1
      <4>1. CASE m = Len(s)
        BY <2>3, <2>15, <3>1, <4>1
      <4>2. CASE m # Len(s)
        BY <2>3, <2>5, <3>1, <4>2
      <4> QED
        BY <4>1, <4>2
    <3> QED
      BY <3>2, <3>3, <3>4
  <2>8. e # x /\ e # a /\ e # b /\ x # a /\ x # b /\ (a = b => a = Null)
    <3> HIDE DEF x, a, b
    <3>1. a = b /\ a # Null => FALSE
      <4>1. a # Null => m - 2 \in 1..Len(s) /\ a = s[m - 2]
        BY <2>4, <2>5
      <4>2. m - 2 # m + 1
        BY <2>15
      <4> QED
        BY <2>7, <4>1, <4>2
    <3>2. e # x /\ e # a /\ e # b
      <4>1. m # m - 1 /\ m # m - 2 /\ m # m + 1
        BY <2>15
      <4> QED
        BY <2>2, <2>7, <4>1
    <3>3. x # a /\ x # b
      <4>1. m - 1 # m - 2 /\ m - 1 # m + 1
        BY <2>15
      <4> QED
        BY <2>3, <2>7, <4>1
    <3> QED
      BY <3>1, <3>2, <3>3
  <2>9. \A n \in DOMAIN t.he : p[n] \in Nat /\ r[n] \in Nat
    <3> HIDE DEF x, a, b
    <3> QED
      BY <1>1, <2>6, EntryIs
  <2>10. f \in Nat
    BY <1>1, <2>6 DEF Shaped
  <2>11. /\ u = [t EXCEPT !.pp_entries = u.pp_entries, !.he = u.he]
         /\ u.pp_entries = [t.pp_entries EXCEPT ![l] = f]
         /\ DOMAIN u.he = DOMAIN t.he /\ u.he = [n \in DOMAIN t.he |-> u.he[n]]
         /\ \A n \in DOMAIN t.he :
              u.he[n] = CASE n = e -> [t.he[n] EXCEPT !.p_next = x, !.p_prev = a]
                          [] n = x -> [t.he[n] EXCEPT !.p_next = b, !.p_prev = e]
                          [] n = a -> [t.he[n] EXCEPT !.p_next = e]
                          [] n = b -> [t.he[n] EXCEPT !.p_prev = x]
                          [] OTHER -> t.he[n]
    <3>1. DOMAIN t = {"i_size", "i_items", "pp_entries", "p_nr", "i_heuristics",
                      "i_automatic_rehash", "he"} /\ t = [z \in DOMAIN t |-> t[z]]
      BY <1>1 DEF Shaped
    <3>2. u = [t EXCEPT
                !.pp_entries = [t.pp_entries EXCEPT ![l] = IF a = Null THEN e ELSE @],
                !.he = [n \in DOMAIN t.he |->
                  CASE n = e -> [t.he[n] EXCEPT !.p_next = x, !.p_prev = a]
                    [] n = x -> [t.he[n] EXCEPT !.p_next = b, !.p_prev = e]
                    [] n = a -> [t.he[n] EXCEPT !.p_next = e]
                    [] n = b -> [t.he[n] EXCEPT !.p_prev = x]
                    [] OTHER -> t.he[n]]]
      BY <1>1, <1>3 DEF transpose, Shaped
    <3> HIDE DEF u, x, a, b
    <3> QED
      BY <1>1, <1>3, <3>1, <3>2 DEF Shaped, f
  <2> HIDE DEF u, x, a, b
  <2>12. \A n \in DOMAIN t.he : u.he[n] = [t.he[n] EXCEPT !.p_next = p[n], !.p_prev = r[n]]
    <3> SUFFICES ASSUME NEW n \in DOMAIN t.he
                 PROVE  u.he[n] = [t.he[n] EXCEPT !.p_next = p[n], !.p_prev = r[n]]
      OBVIOUS
    <3>1. t.he[n] \in Entries
      BY <1>1, EntryIs
    <3>2. t.he[n] = [t.he[n] EXCEPT !.p_next = t.he[n].p_next, !.p_prev = t.he[n].p_prev]
      BY <3>1 DEF Entries
    <3>3. CASE n = e
      BY <2>8, <2>11, <3>3
    <3>4. CASE n = x
      BY <2>8, <2>11, <3>4
    <3>5. CASE n = a
      <4>1. n # b /\ n # e /\ n # x
        BY <2>6, <2>8, <3>5
      <4>2. u.he[n] = [t.he[n] EXCEPT !.p_next = e]
        BY <2>11, <3>5, <4>1
      <4>3. p[n] = e /\ r[n] = t.he[n].p_prev
        BY <3>5, <4>1
      <4> HIDE DEF p, r
      <4> QED
        BY <3>1, <4>2, <4>3 DEF Entries
    <3>6. CASE n = b
      <4>1. n # a /\ n # e /\ n # x
        BY <2>6, <2>8, <3>6
      <4>2. u.he[n] = [t.he[n] EXCEPT !.p_prev = x]
        BY <2>11, <3>6, <4>1
      <4>3. p[n] = t.he[n].p_next /\ r[n] = x
        BY <3>6, <4>1
      <4> HIDE DEF p, r
      <4> QED
        BY <3>1, <4>2, <4>3 DEF Entries
    <3>7. CASE n # e /\ n # x /\ n # a /\ n # b
      <4>1. u.he[n] = t.he[n]
        BY <2>11, <3>7
      <4>2. p[n] = t.he[n].p_next /\ r[n] = t.he[n].p_prev
        BY <3>7
      <4> HIDE DEF p, r
      <4> QED
        BY <3>2, <4>1, <4>2
    <3> QED
      BY <3>3, <3>4, <3>5, <3>6, <3>7
  <2>13. /\ Shaped(u) /\ SameContents(t, u)
         /\ u.p_nr = t.p_nr /\ u.i_items = t.i_items
         /\ u.pp_entries[l] = f
         /\ \A k \in 0..t.i_size - 1 : k # l => u.pp_entries[k] = t.pp_entries[k]
         /\ \A n \in DOMAIN t.he : u.he[n].p_next = p[n] /\ u.he[n].p_prev = r[n]
    <3> HIDE DEF f, p, r
    <3>1. LinkedAnew(t, u, l, f, p, r)
      BY <2>9, <2>10, <2>11, <2>12 DEF LinkedAnew
    <3> QED
      BY <1>1, <3>1, NewLinks DEF HasLinks
  <2>14. \A i \in 1..Len(s) :
           /\ u.he[s[i]].p_next = IF i = m THEN x ELSE IF i = m - 1 THEN b
                                  ELSE IF i = m - 2 THEN e ELSE t.he[s[i]].p_next
           /\ u.he[s[i]].p_prev = IF i = m THEN a ELSE IF i = m - 1 THEN e
                                  ELSE IF i = m + 1 THEN x ELSE t.he[s[i]].p_prev
    BY <2>7, <2>13, <2>15
  <2> HIDE DEF u, p, r
  <2> DEFINE q == [i \in 1..Len(s) |-> s[IF i = m - 1 THEN m ELSE IF i = m THEN m - 1 ELSE i]]
  <2>18. \A i \in 1..Len(s) : q[i] = s[IF i = m - 1 THEN m ELSE IF i = m THEN m - 1 ELSE i]
    OBVIOUS
  <2>19. q \in Seq(DOMAIN u.he) /\ Len(q) = Len(s)
    <3>1. q \in [1..Len(s) -> DOMAIN t.he]
      BY <2>3, <2>15
    <3> HIDE DEF q
    <3> QED
      <4>1. DOMAIN u.he = DOMAIN t.he
        BY <2>13 DEF SameContents
      <4> QED
        BY <2>15, <3>1, <4>1, FunctionIsSeq
  <2> HIDE DEF q
  <2>20. q[m - 1] = e /\ q[m] = x /\ \A i \in 1..Len(s) : i # m - 1 /\ i # m => q[i] = s[i]
    BY <2>2, <2>3, <2>15, <2>18
  <2>21. \A i, j \in 1..Len(q) : q[i] = q[j] => i = j
    <3> SUFFICES ASSUME NEW i \in 1..Len(s), NEW j \in 1..Len(s), q[i] = q[j] PROVE i = j
      BY <2>19
    <3>1. PICK k \in 1..Len(s) : k = (IF i = m - 1 THEN m ELSE IF i = m THEN m - 1 ELSE i) /\ q[i] = s[k]
      BY <2>3, <2>18
    <3>2. PICK o \in 1..Len(s) : o = (IF j = m - 1 THEN m ELSE IF j = m THEN m - 1 ELSE j) /\ q[j] = s[o]
      BY <2>3, <2>18
    <3>3. k = o
      BY <2>17, <3>1, <3>2
    <3> QED
      BY <2>15, <3>1, <3>2, <3>3
  <2>22. \A i \in 1..Len(q) : \E k \in 1..Len(s) : q[i] = s[k]
    BY <2>3, <2>18, <2>19
  <2>23. \A k \in 1..Len(s) : \E i \in 1..Len(q) : s[k] = q[i]
    <3> SUFFICES ASSUME NEW k \in 1..Len(s) PROVE \E i \in 1..Len(q) : s[k] = q[i]
      OBVIOUS
    <3>1. CASE k = m
      BY <2>2, <2>3, <2>19, <2>20, <3>1
    <3>2. CASE k = m - 1
      BY <2>3, <2>19, <2>20, <3>2
    <3>3. CASE k # m /\ k # m - 1
      BY <2>19, <2>20, <3>3
    <3> QED
      BY <3>1, <3>2, <3>3
  <2>24. u.pp_entries[l] = IF Len(q) = 0 THEN Null ELSE q[1]
    <3>1. CASE m = 2
      <4>1. a = Null /\ f = e
        BY <2>4, <3>1
      <4>2. q[1] = e
        BY <2>20, <3>1
      <4>3. Len(q) # 0
        BY <2>15, <2>19, <3>1
      <4>4. u.pp_entries[l] = f
        BY <2>13
      <4> QED
        BY <4>1, <4>2, <4>3, <4>4
    <3>2. CASE m # 2
      <4>1. a # Null /\ 1 \in 1..Len(s) /\ 1 # m /\ 1 # m - 1
        BY <2>3, <2>4, <2>5, <2>15, <3>2
      <4>2. f = s[1]
        <5>1. t.pp_entries[l] = s[1]
          BY <2>15, <2>29, <4>1
        <5> QED
          BY <4>1, <5>1
      <4> QED
        BY <2>13, <2>19, <2>20, <4>1, <4>2
    <3> QED
      BY <3>1, <3>2
  <2>25. ASSUME NEW i \in 1..Len(q)
         PROVE  u.he[q[i]].p_next = IF i = Len(q) THEN Null ELSE q[i + 1]
    <3>1. CASE i = m - 1
      <4>1. i + 1 = m /\ i # Len(s) /\ q[i] = s[m]
        BY <2>2, <2>15, <2>20, <3>1
      <4> QED
        BY <2>14, <2>19, <2>20, <4>1
    <3>2. CASE i = m
      <4>1. q[i] = s[m - 1] /\ m - 1 # m
        BY <2>3, <2>15, <2>20, <3>2
      <4>2. u.he[q[i]].p_next = b
        BY <2>3, <2>14, <4>1
      <4>3. m # Len(s) => q[m + 1] = s[m + 1]
        <5>1. m + 1 # m /\ m + 1 # m - 1
          BY <2>15
        <5> QED
          BY <2>5, <2>20, <5>1
      <4> QED
        BY <2>3, <2>19, <3>2, <4>2, <4>3
    <3>3. CASE i = m - 2
      <4>1. i # m /\ i # m - 1 /\ i + 1 = m - 1 /\ i # Len(s) /\ i \in 1..Len(s)
        BY <2>15, <2>19, <3>3
      <4>2. q[i] = s[i]
        BY <2>20, <4>1
      <4>3. u.he[q[i]].p_next = e
        BY <2>14, <3>3, <4>1, <4>2
      <4> QED
        BY <2>19, <2>20, <4>1, <4>3
    <3>4. CASE i # m /\ i # m - 1 /\ i # m - 2
      <4>1. i \in 1..Len(s) /\ q[i] = s[i]
        BY <2>19, <2>20, <3>4
      <4>2. u.he[q[i]].p_next = IF i = Len(s) THEN Null ELSE s[i + 1]
        BY <2>14, <2>16, <3>4, <4>1
      <4>3. i # Len(s) => i + 1 \in 1..Len(s) /\ i + 1 # m /\ i + 1 # m - 1
        BY <2>15, <3>4, <4>1
      <4> QED
        BY <2>19, <2>20, <4>2, <4>3
    <3> QED
      BY <3>1, <3>2, <3>3, <3>4
  <2>26. ASSUME NEW i \in 1..Len(q)
         PROVE  u.he[q[i]].p_prev = IF i = 1 THEN Null ELSE q[i - 1]
    <3>1. CASE i = m - 1
      <4>1. i - 1 = m - 2 /\ (i = 1 <=> m = 2) /\ q[i] = s[m]
        BY <2>2, <2>15, <2>20, <3>1
      <4>2. u.he[q[i]].p_prev = a
        BY <2>14, <4>1
      <4>3. m # 2 => q[m - 2] = s[m - 2]
        <5>1. m - 2 # m /\ m - 2 # m - 1
          BY <2>15
        <5> QED
          BY <2>5, <2>20, <5>1
      <4> QED
        BY <2>4, <4>1, <4>2, <4>3
    <3>2. CASE i = m
      <4>1. q[i] = s[m - 1] /\ m - 1 # m /\ i # 1
        BY <2>3, <2>15, <2>20, <3>2
      <4>2. u.he[q[i]].p_prev = e
        BY <2>3, <2>14, <4>1
      <4> QED
        BY <2>20, <3>2, <4>1, <4>2
    <3>3. CASE i = m + 1
      <4>1. i # m /\ i # m - 1 /\ i - 1 = m /\ i # 1 /\ i \in 1..Len(s)
        BY <2>15, <2>19, <3>3
      <4>2. q[i] = s[i]
        BY <2>20, <4>1
      <4>3. u.he[q[i]].p_prev = x
        BY <2>14, <3>3, <4>1, <4>2
      <4> QED
        BY <2>20, <4>1, <4>3
    <3>4. CASE i # m /\ i # m - 1 /\ i # m + 1
      <4>1. i \in 1..Len(s) /\ q[i] = s[i]
        BY <2>19, <2>20, <3>4
      <4>2. u.he[q[i]].p_prev = IF i = 1 THEN Null ELSE s[i - 1]
        BY <2>14, <2>16, <3>4, <4>1
      <4>3. i # 1 => i - 1 \in 1..Len(s) /\ i - 1 # m
        BY <2>15, <3>4, <4>1
      <4>4. i # 1 /\ i - 1 # m - 1 => q[i - 1] = s[i - 1]
        BY <2>20, <4>3
      <4>5. i - 1 # m - 1
        BY <2>15, <3>4, <4>1
      <4> QED
        BY <4>2, <4>4, <4>5
    <3> QED
      BY <3>1, <3>2, <3>3, <3>4
  <2>27. Arranged(t, u, l, q)
    <3>1. DOMAIN u.he = DOMAIN t.he /\ u.i_size = t.i_size /\ \A n \in DOMAIN t.he : u.he[n].key = t.he[n].key
      BY <2>13 DEF SameContents
    <3>2. \A i \in 1..Len(q) : BucketOf(t, t.he[q[i]].key) = l
      <4> SUFFICES ASSUME NEW i \in 1..Len(q) PROVE BucketOf(t, t.he[q[i]].key) = l
        OBVIOUS
      <4>1. PICK k \in 1..Len(s) : q[i] = s[k]
        BY <2>22
      <4>2. BucketOf(t, t.he[s[k]].key) = l
        BY <2>30
      <4> QED
        BY <4>1, <4>2
    <3>3. \A n \in DOMAIN u.he : BucketOf(t, t.he[n].key) = l => \E i \in 1..Len(q) : n = q[i]
      <4> SUFFICES ASSUME NEW n \in DOMAIN t.he, BucketOf(t, t.he[n].key) = l
                   PROVE  \E i \in 1..Len(q) : n = q[i]
        BY <3>1
      <4>1. PICK k \in 1..Len(s) : n = s[k]
        BY <2>31
      <4> QED
        BY <2>23, <4>1
    <3>4. \A n \in DOMAIN t.he : BucketOf(t, t.he[n].key) # l => u.he[n] = t.he[n]
      <4> SUFFICES ASSUME NEW n \in DOMAIN t.he, BucketOf(t, t.he[n].key) # l
                   PROVE  u.he[n] = t.he[n]
        OBVIOUS
      <4>1. \A i \in 1..Len(s) : n # s[i]
        BY <2>31
      <4>2. n # e /\ n # x /\ n # a /\ n # b
        BY <1>1, <2>2, <2>3, <2>4, <2>5, <4>1, EntryIs
      <4> QED
        BY <2>11, <4>2
    <3>5. u.p_nr[l] = Len(q) /\ u.i_items = Cardinality(DOMAIN u.he)
      BY <2>1, <2>13, <2>19, <3>1 DEF Spells, WellLinked
    <3> QED
      BY <2>13, <2>19, <2>21, <2>24, <2>25, <2>26, <3>1, <3>2, <3>3, <3>4, <3>5 DEF Arranged
  <2>28. WellLinked(u)
    BY <1>1, <2>27, Rearranged
  <2> QED
    BY <2>13, <2>28 DEF u
<1> QED
  BY <1>2, <1>3
\* move_to_front puts an entry before the first of its bucket.
LEMMA MoveToFrontIs ==
  ASSUME NEW t, WellLinked(t), NEW e \in DOMAIN t.he,
         NEW l, l = BucketOf(t, t.he[e].key)
  PROVE  WellLinked(move_to_front(t, l, e)) /\ SameContents(t, move_to_front(t, l, e))
<1> DEFINE s == Bucket(t, l)
           x == t.he[e].p_prev
           b == t.he[e].p_next
           f == t.pp_entries[l]
           u == move_to_front(t, l, e)
           p == [n \in DOMAIN t.he |-> IF n = e THEN f ELSE IF n = x THEN b
                                       ELSE t.he[n].p_next]
           r == [n \in DOMAIN t.he |-> IF n = e THEN Null ELSE IF n = f THEN e
                                       ELSE IF n = b THEN x ELSE t.he[n].p_prev]
<1>1. Shaped(t) /\ l \in 0..t.i_size - 1
  BY EntryIs DEF WellLinked
<1>2. CASE e = f
  <2>1. u = t
    BY <1>2 DEF move_to_front
  <2> HIDE DEF u
  <2> QED
    BY <2>1 DEF SameContents, u
<1>3. CASE e # f
  <2>1. Spells(t, l, s)
    BY <1>1, BucketSpells
  <2> HIDE DEF s
  <2>2. Len(s) \in Nat /\ \A i \in 1..Len(s) : s[i] \in DOMAIN t.he /\ s[i] \in Nat /\ s[i] # Null
    BY <2>1 DEF Spells
  <2>3. \A i \in 1..Len(s) : /\ t.he[s[i]].p_next = IF i = Len(s) THEN Null ELSE s[i + 1]
                             /\ t.he[s[i]].p_prev = IF i = 1 THEN Null ELSE s[i - 1]
    BY <2>1 DEF Spells
  <2>4. \A i, j \in 1..Len(s) : s[i] = s[j] <=> i = j
    BY <2>1 DEF Spells
  <2>5. f = IF Len(s) = 0 THEN Null ELSE s[1]
    BY <2>1, Zenon DEF Spells
  <2>6. \A i \in 1..Len(s) : BucketOf(t, t.he[s[i]].key) = l
    BY <2>1, Zenon DEF Spells
  <2>7. \A n \in DOMAIN t.he : BucketOf(t, t.he[n].key) = l <=> \E i \in 1..Len(s) : n = s[i]
    BY <2>1, Zenon DEF Spells
  <2>8. PICK m \in 1..Len(s) : e = s[m]
    BY <2>1 DEF Spells
  <2>9. /\ m # 1 /\ m - 1 \in 1..Len(s) /\ 1 \in 1..Len(s)
        /\ m # Len(s) => m + 1 \in 1..Len(s)
        /\ f = s[1] /\ x = s[m - 1]
        /\ b = IF m = Len(s) THEN Null ELSE s[m + 1]
    <3> HIDE DEF f
    <3>1. /\ x = IF m = 1 THEN Null ELSE s[m - 1]
          /\ b = IF m = Len(s) THEN Null ELSE s[m + 1]
      BY <2>3, <2>8
    <3> HIDE DEF x, b
    <3>2. Len(s) # 0 /\ 1 \in 1..Len(s)
      BY <2>2
    <3>3. m # 1
      BY <1>3, <2>5, <2>8, <3>2
    <3>4. m - 1 \in 1..Len(s) /\ (m # Len(s) => m + 1 \in 1..Len(s))
      BY <2>2, <3>3
    <3> QED
      BY <2>5, <3>1, <3>2, <3>3, <3>4
  <2> HIDE DEF x, b, f
  <2>10. /\ x \in DOMAIN t.he /\ x \in Nat /\ f \in DOMAIN t.he /\ f \in Nat
         /\ b \in Nat /\ e \in Nat /\ Null \in Nat
    BY <2>2, <2>8, <2>9 DEF Null
  <2>11. \A i \in 1..Len(s) : /\ s[i] = e <=> i = m
                              /\ s[i] = x <=> i = m - 1
                              /\ s[i] = f <=> i = 1
                              /\ s[i] = b <=> i = m + 1
    <3> SUFFICES ASSUME NEW i \in 1..Len(s)
                 PROVE  /\ s[i] = e <=> i = m
                        /\ s[i] = x <=> i = m - 1
                        /\ s[i] = f <=> i = 1
                        /\ s[i] = b <=> i = m + 1
      OBVIOUS
    <3>1. s[i] # Null /\ \A j \in 1..Len(s) : s[i] = s[j] <=> i = j
      BY <2>2, <2>4
    <3>2. (s[i] = e <=> i = m) /\ (s[i] = x <=> i = m - 1) /\ (s[i] = f <=> i = 1)
      BY <2>8, <2>9, <3>1
    <3>3. s[i] = b <=> i = m + 1
      <4>1. CASE m = Len(s)
        BY <2>2, <2>9, <3>1, <4>1
      <4>2. CASE m # Len(s)
        BY <2>9, <3>1, <4>2
      <4> QED
        BY <4>1, <4>2
    <3> QED
      BY <3>2, <3>3
  <2>12. \A n \in DOMAIN t.he : p[n] \in Nat /\ r[n] \in Nat
    BY <1>1, <2>10, EntryIs
  <2>13. LinkedAnew(t, u, l, e, p, r)
    <3>1. /\ u = [t EXCEPT !.pp_entries = u.pp_entries, !.he = u.he]
          /\ u.pp_entries = [t.pp_entries EXCEPT ![l] = e]
          /\ DOMAIN u.he = DOMAIN t.he /\ u.he = [n \in DOMAIN t.he |-> u.he[n]]
          /\ \A n \in DOMAIN t.he :
               u.he[n] = [t.he[n] EXCEPT
                 !.p_next = IF n = e THEN f ELSE IF n = x THEN b ELSE @,
                 !.p_prev = IF n = e THEN Null ELSE IF n = f THEN e ELSE IF n = b THEN x ELSE @]
      <4> DEFINE he == [n \in DOMAIN t.he |-> [t.he[n] EXCEPT
                   !.p_next = IF n = e THEN f ELSE IF n = x THEN b ELSE @,
                   !.p_prev = IF n = e THEN Null ELSE IF n = f THEN e ELSE IF n = b THEN x ELSE @]]
      <4>1. u = [t EXCEPT !.pp_entries = [t.pp_entries EXCEPT ![l] = e], !.he = he]
        BY <1>1, <1>3 DEF move_to_front, Shaped, x, b, f
      <4>2. \A n \in DOMAIN t.he : he[n] = [t.he[n] EXCEPT
                 !.p_next = IF n = e THEN f ELSE IF n = x THEN b ELSE @,
                 !.p_prev = IF n = e THEN Null ELSE IF n = f THEN e ELSE IF n = b THEN x ELSE @]
        OBVIOUS
      <4>3. DOMAIN he = DOMAIN t.he /\ he = [n \in DOMAIN t.he |-> he[n]]
        OBVIOUS
      <4> HIDE DEF u, he
      <4>4. u.he = he /\ u.pp_entries = [t.pp_entries EXCEPT ![l] = e]
        BY <1>1, <4>1 DEF Shaped
      <4> QED
        BY <4>1, <4>2, <4>3, <4>4
    <3> HIDE DEF u
    <3>2. ASSUME NEW n \in DOMAIN t.he
          PROVE  u.he[n] = [t.he[n] EXCEPT !.p_next = p[n], !.p_prev = r[n]]
      <4>1. u.he[n] = [t.he[n] EXCEPT
                 !.p_next = IF n = e THEN f ELSE IF n = x THEN b ELSE t.he[n].p_next,
                 !.p_prev = IF n = e THEN Null ELSE IF n = f THEN e ELSE IF n = b THEN x
                            ELSE t.he[n].p_prev]
        BY <3>1
      <4> QED
        BY <4>1
    <3> HIDE DEF p, r
    <3> QED
      BY <2>10, <2>12, <3>1, <3>2 DEF LinkedAnew
  <2> HIDE DEF u
  <2>14. HasLinks(t, u, l, e, p, r)
    <3> HIDE DEF p, r
    <3> QED
      BY <1>1, <2>13, NewLinks
  <2>15. \A i \in 1..Len(s) :
           /\ u.he[s[i]].p_next = IF i = m THEN f ELSE IF i = m - 1 THEN b ELSE t.he[s[i]].p_next
           /\ u.he[s[i]].p_prev = IF i = m THEN Null ELSE IF i = 1 THEN e
                                  ELSE IF i = m + 1 THEN x ELSE t.he[s[i]].p_prev
    <3>1. \A n \in DOMAIN t.he : u.he[n].p_next = p[n] /\ u.he[n].p_prev = r[n]
      <4> HIDE DEF p, r
      <4> QED
        BY <2>14 DEF HasLinks
    <3> QED
      BY <2>2, <2>11, <3>1
  <2>16. /\ Shaped(u) /\ SameContents(t, u)
         /\ u.p_nr = t.p_nr /\ u.i_items = t.i_items
         /\ u.pp_entries[l] = e
         /\ \A k \in 0..t.i_size - 1 : k # l => u.pp_entries[k] = t.pp_entries[k]
    <3> HIDE DEF p, r
    <3> QED
      BY <2>14 DEF HasLinks
  <2>17. \A n \in DOMAIN t.he : BucketOf(t, t.he[n].key) # l => u.he[n] = t.he[n]
    <3> SUFFICES ASSUME NEW n \in DOMAIN t.he, BucketOf(t, t.he[n].key) # l
                 PROVE  u.he[n] = t.he[n]
      OBVIOUS
    <3>1. \A i \in 1..Len(s) : n # s[i]
      BY <2>7
    <3>2. n # e /\ n # x /\ n # f
      BY <2>8, <2>9, <3>1
    <3>3. n # b
      BY <1>1, <2>9, <3>1, EntryIs
    <3>4. u.he[n] = [t.he[n] EXCEPT !.p_next = t.he[n].p_next, !.p_prev = t.he[n].p_prev]
      BY <2>13, <3>2, <3>3 DEF LinkedAnew
    <3>5. t.he[n] \in Entries
      BY <1>1, EntryIs
    <3> QED
      BY <3>4, <3>5 DEF Entries
  <2> HIDE DEF p, r
  <2> DEFINE q == [i \in 1..Len(s) |-> s[IF i = 1 THEN m ELSE IF i <= m THEN i - 1 ELSE i]]
  <2>18. \A i \in 1..Len(s) : /\ q[i] = s[IF i = 1 THEN m ELSE IF i <= m THEN i - 1 ELSE i]
                              /\ (IF i = 1 THEN m ELSE IF i <= m THEN i - 1 ELSE i) \in 1..Len(s)
    BY <2>2
  <2>19. q \in Seq(DOMAIN u.he) /\ Len(q) = Len(s)
    <3>1. q \in [1..Len(s) -> DOMAIN t.he]
      BY <2>2, <2>18
    <3> HIDE DEF q
    <3>2. DOMAIN u.he = DOMAIN t.he
      BY <2>16 DEF SameContents
    <3> QED
      BY <2>2, <3>1, <3>2, FunctionIsSeq
  <2> HIDE DEF q
  <2>20. /\ q[1] = e
         /\ \A i \in 1..Len(s) : i # 1 /\ i <= m => i - 1 \in 1..Len(s) /\ q[i] = s[i - 1]
         /\ \A i \in 1..Len(s) : ~(i <= m) => q[i] = s[i]
    BY <2>2, <2>8, <2>9, <2>18
  <2>21. \A i, j \in 1..Len(q) : q[i] = q[j] => i = j
    <3> SUFFICES ASSUME NEW i \in 1..Len(s), NEW j \in 1..Len(s), q[i] = q[j] PROVE i = j
      BY <2>19
    <3>1. PICK k \in 1..Len(s) : k = (IF i = 1 THEN m ELSE IF i <= m THEN i - 1 ELSE i) /\ q[i] = s[k]
      BY <2>18
    <3>2. PICK o \in 1..Len(s) : o = (IF j = 1 THEN m ELSE IF j <= m THEN j - 1 ELSE j) /\ q[j] = s[o]
      BY <2>18
    <3>3. k = o
      <4>1. s[k] = s[o]
        BY <3>1, <3>2
      <4> QED
        BY <2>4, <4>1
    <3> QED
      BY <2>2, <3>1, <3>2, <3>3
  <2>22. \A i \in 1..Len(q) : \E k \in 1..Len(s) : q[i] = s[k]
    BY <2>18, <2>19
  <2>23. \A k \in 1..Len(s) : \E i \in 1..Len(q) : s[k] = q[i]
    <3> SUFFICES ASSUME NEW k \in 1..Len(s) PROVE \E i \in 1..Len(q) : s[k] = q[i]
      OBVIOUS
    <3>1. CASE k = m
      BY <2>8, <2>9, <2>19, <2>20, <3>1
    <3>2. CASE k < m
      <4>1. PICK i \in 1..Len(s) : i = k + 1
        BY <2>2, <3>2
      <4>2. i # 1 /\ i <= m /\ i - 1 = k
        BY <2>2, <3>2, <4>1
      <4> QED
        BY <2>19, <2>20, <4>2
    <3>3. CASE k > m
      <4>1. ~(k <= m)
        BY <2>2, <3>3
      <4> QED
        BY <2>19, <2>20, <4>1
    <3> QED
      BY <2>2, <3>1, <3>2, <3>3
  <2>24. u.pp_entries[l] = IF Len(q) = 0 THEN Null ELSE q[1]
    BY <2>2, <2>16, <2>19, <2>20
  <2>25. ASSUME NEW i \in 1..Len(q)
         PROVE  u.he[q[i]].p_next = IF i = Len(q) THEN Null ELSE q[i + 1]
    <3>1. CASE i = 1
      <4>1. PICK j \in 1..Len(s) : j = i + 1 /\ j # 1 /\ j <= m /\ j - 1 = 1 /\ i # Len(s)
        BY <2>2, <2>9, <3>1
      <4>2. q[j] = s[1]
        BY <2>20, <4>1
      <4>3. u.he[q[i]].p_next = f
        BY <2>8, <2>15, <2>20, <3>1
      <4> QED
        BY <2>9, <2>19, <4>1, <4>2, <4>3
    <3>2. CASE i = m
      <4>1. q[i] = s[m - 1] /\ m - 1 # m
        BY <2>2, <2>9, <2>20, <3>2
      <4>2. u.he[q[i]].p_next = b
        BY <2>9, <2>15, <4>1
      <4>3. m # Len(s) => q[m + 1] = s[m + 1]
        <5>1. ~(m + 1 <= m)
          BY <2>2
        <5> QED
          BY <2>9, <2>20, <5>1
      <4> QED
        BY <2>9, <2>19, <3>2, <4>2, <4>3
    <3>3. CASE i # 1 /\ i < m
      <4>1. PICK j \in 1..Len(s) : j = i - 1 /\ q[i] = s[j] /\ j # m /\ j # m - 1 /\ j # Len(s) /\ j + 1 = i
        BY <2>2, <2>19, <2>20, <3>3
      <4>2. u.he[q[i]].p_next = s[i]
        BY <2>3, <2>15, <4>1
      <4>3. PICK k \in 1..Len(s) : k = i + 1 /\ k # 1 /\ k <= m /\ k - 1 = i /\ i # Len(s)
        BY <2>2, <2>19, <3>3
      <4>4. q[k] = s[i]
        BY <2>20, <4>3
      <4> QED
        BY <2>19, <4>2, <4>3, <4>4
    <3>4. CASE i > m
      <4>1. i \in 1..Len(s) /\ q[i] = s[i] /\ i # m /\ i # m - 1
        BY <2>2, <2>19, <2>20, <3>4
      <4>2. u.he[q[i]].p_next = IF i = Len(s) THEN Null ELSE s[i + 1]
        BY <2>3, <2>15, <4>1
      <4>3. i # Len(s) => i + 1 \in 1..Len(s) /\ ~(i + 1 <= m)
        BY <2>2, <3>4, <4>1
      <4> QED
        BY <2>19, <2>20, <4>2, <4>3
    <3> QED
      BY <2>2, <3>1, <3>2, <3>3, <3>4
  <2>26. ASSUME NEW i \in 1..Len(q)
         PROVE  u.he[q[i]].p_prev = IF i = 1 THEN Null ELSE q[i - 1]
    <3>1. CASE i = 1
      BY <2>8, <2>15, <2>20, <3>1
    <3>2. CASE i = 2
      <4>1. i # 1 /\ i <= m /\ i - 1 = 1 /\ i \in 1..Len(s)
        BY <2>2, <2>9, <2>19, <3>2
      <4>2. q[i] = s[1]
        BY <2>20, <4>1
      <4>3. u.he[q[i]].p_prev = e
        BY <2>9, <2>15, <4>2
      <4> QED
        BY <2>20, <4>1, <4>3
    <3>3. CASE i > 2 /\ i <= m
      <4>1. PICK j \in 1..Len(s) : j = i - 1 /\ q[i] = s[j] /\ j # m /\ j # 1 /\ j # m + 1
        BY <2>2, <2>19, <2>20, <3>3
      <4>2. u.he[q[i]].p_prev = s[j - 1]
        BY <2>3, <2>15, <4>1
      <4>3. j <= m /\ i # 1
        BY <2>2, <3>3, <4>1
      <4> QED
        BY <2>20, <4>1, <4>2, <4>3
    <3>4. CASE i = m + 1
      <4>1. i \in 1..Len(s) /\ ~(i <= m) /\ i # m /\ i # 1 /\ i - 1 = m
        BY <2>2, <2>19, <3>4
      <4>2. u.he[q[i]].p_prev = x
        BY <2>15, <2>20, <3>4, <4>1
      <4>3. q[m] = s[m - 1]
        BY <2>2, <2>9, <2>20
      <4> QED
        BY <2>9, <4>1, <4>2, <4>3
    <3>5. CASE i > m + 1
      <4>1. PICK j \in 1..Len(s) : j = i - 1 /\ ~(j <= m) /\ ~(i <= m) /\ i # m /\ i # 1 /\ i # m + 1 /\ i \in 1..Len(s)
        BY <2>2, <2>19, <3>5
      <4>2. q[i] = s[i] /\ q[j] = s[j]
        BY <2>20, <4>1
      <4>3. u.he[q[i]].p_prev = s[i - 1]
        BY <2>3, <2>15, <4>1, <4>2
      <4> QED
        BY <4>1, <4>2, <4>3
    <3> QED
      BY <2>2, <2>19, <3>1, <3>2, <3>3, <3>4, <3>5
  <2>27. Arranged(t, u, l, q)
    <3>1. DOMAIN u.he = DOMAIN t.he /\ u.i_size = t.i_size /\ \A n \in DOMAIN t.he : u.he[n].key = t.he[n].key
      BY <2>16 DEF SameContents
    <3>2. \A i \in 1..Len(q) : BucketOf(t, t.he[q[i]].key) = l
      <4> SUFFICES ASSUME NEW i \in 1..Len(q) PROVE BucketOf(t, t.he[q[i]].key) = l
        OBVIOUS
      <4>1. PICK k \in 1..Len(s) : q[i] = s[k]
        BY <2>22
      <4>2. BucketOf(t, t.he[s[k]].key) = l
        BY <2>6
      <4> QED
        BY <4>1, <4>2
    <3>3. \A n \in DOMAIN u.he : BucketOf(t, t.he[n].key) = l => \E i \in 1..Len(q) : n = q[i]
      <4> SUFFICES ASSUME NEW n \in DOMAIN t.he, BucketOf(t, t.he[n].key) = l
                   PROVE  \E i \in 1..Len(q) : n = q[i]
        BY <3>1
      <4>1. PICK k \in 1..Len(s) : n = s[k]
        BY <2>7
      <4> QED
        BY <2>23, <4>1
    <3>4. u.p_nr[l] = Len(q) /\ u.i_items = Cardinality(DOMAIN u.he)
      BY <2>1, <2>16, <2>19, <3>1 DEF Spells, WellLinked
    <3> QED
      BY <2>16, <2>17, <2>19, <2>21, <2>24, <2>25, <2>26, <3>1, <3>2, <3>3, <3>4 DEF Arranged
  <2>28. WellLinked(u)
    BY <1>1, <2>27, Rearranged
  <2> QED
    BY <2>16, <2>28 DEF u
<1> QED
  BY <1>2, <1>3
\* What search_in_bucket does to a chain leaves the entries.
LEMMA TouchIs ==
  ASSUME NEW t, WellLinked(t), NEW e, NEW l,
         e = Null \/ (e # Null /\ e \in DOMAIN t.he /\ l = BucketOf(t, t.he[e].key))
  PROVE  /\ WellLinked(Touch(t, l, e))
         /\ SameContents(t, Touch(t, l, e))
         /\ t.i_heuristics = "none" => Touch(t, l, e) = t
<1>1. t.i_heuristics \in Heuristics
  BY DEF WellLinked, Shaped
<1>2. SameContents(t, t)
  BY DEF SameContents
<1>3. CASE e = Null
  BY <1>2, <1>3 DEF Touch
<1>4. CASE e # Null /\ t.i_heuristics = "none"
  BY <1>2, <1>4 DEF Touch
<1>5. CASE e # Null /\ t.i_heuristics = "transpose"
  <2>1. Touch(t, l, e) = transpose(t, l, e)
    BY <1>5 DEF Touch
  <2> QED
    BY <1>5, <2>1, TransposeIs
<1>6. CASE e # Null /\ t.i_heuristics = "move_to_front"
  <2>1. Touch(t, l, e) = move_to_front(t, l, e)
    BY <1>6 DEF Touch
  <2> QED
    BY <1>6, <2>1, MoveToFrontIs
<1> QED
  BY <1>1, <1>3, <1>4, <1>5, <1>6 DEF Heuristics

\* u is t without entry e.
Without(t, u, e) ==
  /\ u.i_size = t.i_size
  /\ u.i_heuristics = t.i_heuristics
  /\ u.i_automatic_rehash = t.i_automatic_rehash
  /\ DOMAIN u.he = DOMAIN t.he \ {e}
  /\ \A n \in DOMAIN u.he : /\ u.he[n].key = t.he[n].key /\ u.he[n].data = t.he[n].data
                            /\ t.he[n].p_next # e => u.he[n].p_next = t.he[n].p_next

\* Removal links the neighbours of an entry with each other.
LEMMA RemoveIs ==
  ASSUME NEW t, WellLinked(t), NEW k \in Keys, NEW e,
         e = Search(t, BucketOf(t, k), k), e # Null
  PROVE  /\ WellLinked(ght_remove(t, k))
         /\ Without(t, ght_remove(t, k), e)
         /\ SameBuckets(t, ght_remove(t, k), BucketOf(t, k))
<1> DEFINE l == BucketOf(t, k)
           s == Bucket(t, l)
           x == t.he[e].p_prev
           b == t.he[e].p_next
           u == ght_remove(t, k)
           f == IF x = Null THEN b ELSE t.pp_entries[l]
<1>1. Shaped(t) /\ l \in 0..t.i_size - 1 /\ e \in DOMAIN t.he /\ t.he[e].key = k
  BY SearchIs, BucketRange DEF WellLinked, Shaped
<1>2. Spells(t, l, s)
  BY <1>1, BucketSpells
<1> HIDE DEF s
<1>3. Len(s) \in Nat /\ \A i \in 1..Len(s) : s[i] \in DOMAIN t.he /\ s[i] \in Nat /\ s[i] # Null
  BY <1>2 DEF Spells
<1>4. \A i \in 1..Len(s) : /\ t.he[s[i]].p_next = IF i = Len(s) THEN Null ELSE s[i + 1]
                           /\ t.he[s[i]].p_prev = IF i = 1 THEN Null ELSE s[i - 1]
  BY <1>2 DEF Spells
<1>5. \A i, j \in 1..Len(s) : s[i] = s[j] <=> i = j
  BY <1>2 DEF Spells
<1>6. t.pp_entries[l] = IF Len(s) = 0 THEN Null ELSE s[1]
  BY <1>2, Zenon DEF Spells
<1>7. \A i \in 1..Len(s) : BucketOf(t, t.he[s[i]].key) = l
  BY <1>2, Zenon DEF Spells
<1>8. \A n \in DOMAIN t.he : BucketOf(t, t.he[n].key) = l <=> \E i \in 1..Len(s) : n = s[i]
  BY <1>2, Zenon DEF Spells
<1>9. PICK m \in 1..Len(s) : e = s[m]
  BY <1>1, <1>8
<1>10. t.p_nr[l] = Len(s)
  BY <1>2, Zenon DEF Spells
<1>11. /\ m # 1 => m - 1 \in 1..Len(s)
       /\ m # Len(s) => m + 1 \in 1..Len(s)
       /\ x = IF m = 1 THEN Null ELSE s[m - 1]
       /\ b = IF m = Len(s) THEN Null ELSE s[m + 1]
  <2>1. /\ x = IF m = 1 THEN Null ELSE s[m - 1]
        /\ b = IF m = Len(s) THEN Null ELSE s[m + 1]
    BY <1>4, <1>9
  <2> HIDE DEF x, b
  <2>2. (m # 1 => m - 1 \in 1..Len(s)) /\ (m # Len(s) => m + 1 \in 1..Len(s))
    BY <1>3
  <2> QED
    BY <2>1, <2>2
<1>12. /\ u = [t EXCEPT !.i_items = u.i_items, !.p_nr = u.p_nr,
                        !.pp_entries = u.pp_entries, !.he = u.he]
       /\ u.i_items = t.i_items - 1
       /\ u.p_nr = [t.p_nr EXCEPT ![l] = @ - 1]
       /\ u.pp_entries = [t.pp_entries EXCEPT ![l] = f]
       /\ u.he = [n \in DOMAIN t.he \ {e} |->
            [t.he[n] EXCEPT !.p_next = IF n = x THEN b ELSE @,
                            !.p_prev = IF n = b THEN x ELSE @]]
  <2> DEFINE he == [n \in DOMAIN t.he \ {e} |->
                      [t.he[n] EXCEPT !.p_next = IF n = x THEN b ELSE @,
                                      !.p_prev = IF n = b THEN x ELSE @]]
             p_nr == [t.p_nr EXCEPT ![l] = @ - 1]
             pp == [t.pp_entries EXCEPT ![l] = f]
  <2>1. u = [t EXCEPT !.i_items = t.i_items - 1, !.p_nr = p_nr, !.pp_entries = pp, !.he = he]
    BY <1>1 DEF ght_remove, Shaped
  <2> HIDE DEF u, he, p_nr, pp
  <2>2. u.i_items = t.i_items - 1 /\ u.p_nr = p_nr /\ u.pp_entries = pp /\ u.he = he
    BY <1>1, <2>1 DEF Shaped
  <2> HIDE DEF f, x, b, l
  <2> QED
    BY <2>1, <2>2 DEF he, p_nr, pp
<1> HIDE DEF u, x, b, l
<1>13. \A i \in 1..Len(s) : /\ s[i] = x <=> i = m - 1
                            /\ s[i] = b <=> i = m + 1
  <2> SUFFICES ASSUME NEW i \in 1..Len(s)
               PROVE  (s[i] = x <=> i = m - 1) /\ (s[i] = b <=> i = m + 1)
    OBVIOUS
  <2>1. s[i] # Null /\ \A j \in 1..Len(s) : s[i] = s[j] <=> i = j
    BY <1>3, <1>5
  <2>2. s[i] = x <=> i = m - 1
    <3>1. CASE m = 1
      BY <1>3, <1>11, <2>1, <3>1
    <3>2. CASE m # 1
      BY <1>11, <2>1, <3>2
    <3> QED
      BY <3>1, <3>2
  <2>3. s[i] = b <=> i = m + 1
    <3>1. CASE m = Len(s)
      BY <1>3, <1>11, <2>1, <3>1
    <3>2. CASE m # Len(s)
      BY <1>11, <2>1, <3>2
    <3> QED
      BY <3>1, <3>2
  <2> QED
    BY <2>2, <2>3
<1>14. /\ x \in Nat /\ b \in Nat
       /\ t.pp_entries \in [0..t.i_size - 1 -> Nat] /\ t.p_nr \in [0..t.i_size - 1 -> Int]
       /\ t.i_items \in Int /\ t.i_size \in Nat \ {0}
  BY <1>1, <1>3, <1>11 DEF Shaped, Null
<1>15. \A n \in DOMAIN t.he \ {e} :
         /\ u.he[n] \in Entries
         /\ u.he[n].key = t.he[n].key /\ u.he[n].data = t.he[n].data
         /\ u.he[n].p_next = IF n = x THEN b ELSE t.he[n].p_next
         /\ u.he[n].p_prev = IF n = b THEN x ELSE t.he[n].p_prev
         /\ n # x /\ n # b => u.he[n] = t.he[n]
  <2> SUFFICES ASSUME NEW n \in DOMAIN t.he \ {e}
               PROVE  /\ u.he[n] \in Entries
                      /\ u.he[n].key = t.he[n].key /\ u.he[n].data = t.he[n].data
                      /\ u.he[n].p_next = IF n = x THEN b ELSE t.he[n].p_next
                      /\ u.he[n].p_prev = IF n = b THEN x ELSE t.he[n].p_prev
                      /\ n # x /\ n # b => u.he[n] = t.he[n]
    OBVIOUS
  <2>1. t.he[n] \in Entries
    BY <1>1, EntryIs
  <2>2. PICK p, r : p = (IF n = x THEN b ELSE t.he[n].p_next) /\ r = (IF n = b THEN x ELSE t.he[n].p_prev)
    OBVIOUS
  <2>3. u.he[n] = [t.he[n] EXCEPT !.p_next = p, !.p_prev = r]
    BY <1>12, <2>2
  <2>4. p \in Nat /\ r \in Nat
    BY <1>14, <2>1, <2>2 DEF Entries
  <2>5. n # x /\ n # b => u.he[n] = t.he[n]
    BY <2>1, <2>2, <2>3 DEF Entries
  <2> QED
    BY <2>1, <2>2, <2>3, <2>4, <2>5 DEF Entries
<1>16. DOMAIN u.he = DOMAIN t.he \ {e}
  BY <1>12
<1>17. Shaped(u)
  <2>1. u.he \in [DOMAIN u.he -> Entries] /\ DOMAIN u.he \subseteq Address
    BY <1>1, <1>12, <1>15 DEF Shaped
  <2>2. f \in Nat
    BY <1>1, <1>14
  <2> HIDE DEF f
  <2>3. u.pp_entries \in [0..t.i_size - 1 -> Nat]
    <3>1. u.pp_entries = [t.pp_entries EXCEPT ![l] = f]
      BY <1>12
    <3> QED
      BY <1>1, <1>14, <2>2, <3>1, UpdateIs
  <2>4. u.i_items \in Int
    <3>1. u.i_items = t.i_items - 1
      BY <1>12
    <3> QED
      BY <1>14, <3>1
  <2>5. u.p_nr \in [0..t.i_size - 1 -> Int]
    <3>1. u.p_nr = [t.p_nr EXCEPT ![l] = t.p_nr[l] - 1]
      BY <1>12
    <3>2. t.p_nr[l] - 1 \in Int
      BY <1>1, <1>14
    <3> QED
      BY <1>1, <1>14, <3>1, <3>2, UpdateIs
  <2> QED
    BY <1>1, <1>12, <2>1, <2>3, <2>4, <2>5 DEF Shaped
<1>18. u.i_size = t.i_size /\ u.i_heuristics = t.i_heuristics /\ u.i_automatic_rehash = t.i_automatic_rehash
  <2> HIDE DEF f
  <2> QED
    BY <1>1, <1>12 DEF Shaped
<1>19. Without(t, u, e)
  <2>1. \A n \in DOMAIN t.he \ {e} : t.he[n].p_next # e => u.he[n].p_next = t.he[n].p_next
    <3>1. x # Null => x \in DOMAIN t.he /\ t.he[x].p_next = e
      <4> SUFFICES ASSUME x # Null PROVE x \in DOMAIN t.he /\ t.he[x].p_next = e
        OBVIOUS
      <4>1. PICK j \in 1..Len(s) : j = m - 1 /\ x = s[j]
        BY <1>11
      <4>2. j # Len(s) /\ j + 1 = m
        BY <1>3, <4>1
      <4> QED
        BY <1>3, <1>4, <1>9, <4>1, <4>2
    <3>2. x = Null => \A n \in DOMAIN t.he : n # x
      BY <1>1, EntryIs
    <3> QED
      BY <1>15, <3>1, <3>2
  <2> QED
    BY <1>15, <1>16, <1>18, <2>1 DEF Without
<1> DEFINE q == [i \in 1..Len(s) - 1 |-> s[IF i < m THEN i ELSE i + 1]]
<1>20. \A i \in 1..Len(s) - 1 : /\ q[i] = s[IF i < m THEN i ELSE i + 1]
                                /\ (IF i < m THEN i ELSE i + 1) \in 1..Len(s)
                                /\ (IF i < m THEN i ELSE i + 1) # m
  BY <1>3
<1>21. q \in Seq(DOMAIN u.he) /\ Len(q) = Len(s) - 1
  <2>1. q \in [1..Len(s) - 1 -> DOMAIN t.he \ {e}]
    <3>1. ASSUME NEW i \in 1..Len(s) - 1 PROVE s[IF i < m THEN i ELSE i + 1] \in DOMAIN t.he \ {e}
      <4>1. PICK j \in 1..Len(s) : j = (IF i < m THEN i ELSE i + 1) /\ j # m
        BY <1>20
      <4> QED
        BY <1>3, <1>5, <1>9, <4>1
    <3> QED
      BY <3>1
  <2>2. Len(s) - 1 \in Nat
    BY <1>3
  <2> HIDE DEF q
  <2> QED
    BY <1>16, <2>1, <2>2, FunctionIsSeq
<1> HIDE DEF q
<1>22. /\ \A i \in 1..Len(q) : i < m => i \in 1..Len(s) /\ q[i] = s[i]
       /\ \A i \in 1..Len(q) : ~(i < m) => i + 1 \in 1..Len(s) /\ q[i] = s[i + 1]
  BY <1>3, <1>20, <1>21
<1>23. \A i, j \in 1..Len(q) : q[i] = q[j] => i = j
  <2> SUFFICES ASSUME NEW i \in 1..Len(q), NEW j \in 1..Len(q), q[i] = q[j] PROVE i = j
    OBVIOUS
  <2>1. PICK n \in 1..Len(s) : n = (IF i < m THEN i ELSE i + 1) /\ q[i] = s[n]
    BY <1>20, <1>21
  <2>2. PICK o \in 1..Len(s) : o = (IF j < m THEN j ELSE j + 1) /\ q[j] = s[o]
    BY <1>20, <1>21
  <2>3. s[n] = s[o]
    BY <2>1, <2>2
  <2>4. n = o
    BY <1>5, <2>3
  <2> QED
    BY <1>3, <1>21, <2>1, <2>2, <2>4
<1>24. \A i \in 1..Len(q) : BucketOf(t, t.he[q[i]].key) = l
  <2> SUFFICES ASSUME NEW i \in 1..Len(q) PROVE BucketOf(t, t.he[q[i]].key) = l
    OBVIOUS
  <2>1. PICK j \in 1..Len(s) : q[i] = s[j]
    BY <1>20, <1>21
  <2>2. BucketOf(t, t.he[s[j]].key) = l
    BY <1>7
  <2> QED
    BY <2>1, <2>2
<1>25. \A n \in DOMAIN u.he : BucketOf(t, t.he[n].key) = l => \E i \in 1..Len(q) : n = q[i]
  <2> SUFFICES ASSUME NEW n \in DOMAIN t.he \ {e}, BucketOf(t, t.he[n].key) = l
               PROVE  \E i \in 1..Len(q) : n = q[i]
    BY <1>16
  <2>1. PICK j \in 1..Len(s) : n = s[j]
    BY <1>8
  <2>2. j # m
    BY <1>9, <2>1
  <2>3. CASE j < m
    <3>1. j \in 1..Len(q)
      BY <1>3, <1>21, <2>3
    <3> QED
      BY <1>22, <2>1, <2>3, <3>1
  <2>4. CASE j > m
    <3>1. PICK i \in 1..Len(q) : i = j - 1 /\ ~(i < m) /\ i + 1 = j
      BY <1>3, <1>21, <2>4
    <3> QED
      BY <1>22, <2>1, <3>1
  <2> QED
    BY <1>3, <2>2, <2>3, <2>4
<1>26. u.pp_entries[l] = IF Len(q) = 0 THEN Null ELSE q[1]
  <2>1. u.pp_entries[l] = f
    <3> HIDE DEF f
    <3> QED
      BY <1>1, <1>12, <1>14
  <2>2. CASE m = 1
    <3>1. f = b /\ (m = Len(s) <=> Len(q) = 0)
      BY <1>3, <1>11, <1>21, <2>2
    <3>2. Len(q) # 0 => 1 \in 1..Len(q) /\ ~(1 < m)
      BY <1>3, <1>21, <2>2
    <3>3. Len(q) # 0 => q[1] = s[m + 1]
      BY <1>22, <2>2, <3>2
    <3> QED
      BY <1>11, <2>1, <3>1, <3>3
  <2>3. CASE m # 1
    <3>1. Len(s) # 0 /\ Len(q) # 0 /\ 1 \in 1..Len(q) /\ 1 < m /\ m - 1 \in 1..Len(s)
      BY <1>3, <1>21, <2>3
    <3>2. q[1] = s[1] /\ x # Null
      BY <1>3, <1>11, <1>22, <2>3, <3>1
    <3> QED
      BY <1>6, <2>1, <3>1, <3>2
  <2> QED
    BY <2>2, <2>3
<1>27. ASSUME NEW i \in 1..Len(q)
       PROVE  u.he[q[i]].p_next = IF i = Len(q) THEN Null ELSE q[i + 1]
  <2>0. q[i] \in DOMAIN t.he \ {e}
    BY <1>16, <1>21
  <2>1. CASE i < m - 1
    <3>1. i \in 1..Len(s) /\ q[i] = s[i] /\ i # m - 1 /\ i # Len(q) /\ i # Len(s)
      BY <1>3, <1>21, <1>22, <2>1
    <3>2. u.he[q[i]].p_next = s[i + 1]
      BY <1>4, <1>13, <1>15, <2>0, <3>1
    <3>3. PICK j \in 1..Len(q) : j = i + 1 /\ j < m
      BY <1>3, <1>21, <2>1
    <3> QED
      BY <1>22, <3>1, <3>2, <3>3
  <2>2. CASE i = m - 1
    <3>1. i \in 1..Len(s) /\ q[i] = s[i] /\ i < m /\ (i = Len(q) <=> m = Len(s))
      BY <1>3, <1>21, <1>22, <2>2
    <3>2. u.he[q[i]].p_next = b
      BY <1>13, <1>15, <2>0, <2>2, <3>1
    <3>3. m # Len(s) => m \in 1..Len(q) /\ ~(m < m) /\ i + 1 = m
      BY <1>3, <1>21, <2>2
    <3>4. m # Len(s) => q[i + 1] = s[m + 1]
      BY <1>22, <3>3
    <3> QED
      BY <1>11, <3>1, <3>2, <3>4
  <2>3. CASE i > m - 1
    <3>1. PICK j \in 1..Len(s) : j = i + 1 /\ q[i] = s[j] /\ j # m - 1 /\ (i = Len(q) <=> j = Len(s))
      BY <1>3, <1>21, <1>22, <2>3
    <3>2. u.he[q[i]].p_next = IF j = Len(s) THEN Null ELSE s[j + 1]
      BY <1>4, <1>13, <1>15, <2>0, <3>1
    <3>3. i # Len(q) => j \in 1..Len(q) /\ ~(j < m)
      BY <1>3, <1>21, <2>3, <3>1
    <3>4. i # Len(q) => q[j] = s[j + 1]
      BY <1>22, <3>3
    <3> QED
      BY <3>1, <3>2, <3>4
  <2> QED
    BY <1>3, <1>21, <2>1, <2>2, <2>3
<1>28. ASSUME NEW i \in 1..Len(q)
       PROVE  u.he[q[i]].p_prev = IF i = 1 THEN Null ELSE q[i - 1]
  <2>0. q[i] \in DOMAIN t.he \ {e}
    BY <1>16, <1>21
  <2>1. CASE i < m
    <3>1. i \in 1..Len(s) /\ q[i] = s[i] /\ i # m + 1
      BY <1>3, <1>21, <1>22, <2>1
    <3>2. u.he[q[i]].p_prev = IF i = 1 THEN Null ELSE s[i - 1]
      BY <1>4, <1>13, <1>15, <2>0, <3>1
    <3>3. i # 1 => i - 1 \in 1..Len(q) /\ i - 1 < m
      BY <1>3, <1>21, <2>1
    <3>4. i # 1 => q[i - 1] = s[i - 1]
      BY <1>22, <3>3
    <3> QED
      BY <3>2, <3>4
  <2>2. CASE i = m
    <3>1. m + 1 \in 1..Len(s) /\ q[i] = s[m + 1]
      BY <1>3, <1>21, <1>22, <2>2
    <3>2. u.he[q[i]].p_prev = x
      BY <1>13, <1>15, <2>0, <3>1
    <3>3. i # 1 => i - 1 \in 1..Len(q) /\ i - 1 < m /\ i - 1 = m - 1
      BY <1>3, <1>21, <2>2
    <3>4. i # 1 => q[i - 1] = s[m - 1]
      BY <1>22, <3>3
    <3> QED
      BY <1>11, <2>2, <3>2, <3>4
  <2>3. CASE i > m
    <3>1. PICK j \in 1..Len(s) : j = i + 1 /\ q[i] = s[j] /\ j # m + 1 /\ j # 1 /\ j - 1 = i /\ i # 1
      BY <1>3, <1>21, <1>22, <2>3
    <3>2. u.he[q[i]].p_prev = s[i]
      BY <1>4, <1>13, <1>15, <2>0, <3>1
    <3>3. PICK n \in 1..Len(q) : n = i - 1 /\ ~(n < m) /\ n + 1 = i
      BY <1>3, <1>21, <2>3
    <3>4. q[n] = s[i]
      BY <1>22, <3>3
    <3> QED
      BY <3>1, <3>2, <3>3, <3>4
  <2> QED
    BY <1>3, <1>21, <2>1, <2>2, <2>3
<1>29. Arranged(t, u, l, q)
  <2>1. \A n \in DOMAIN t.he : BucketOf(t, t.he[n].key) # l => n \in DOMAIN u.he /\ u.he[n] = t.he[n]
    <3> SUFFICES ASSUME NEW n \in DOMAIN t.he, BucketOf(t, t.he[n].key) # l
                 PROVE  n \in DOMAIN u.he /\ u.he[n] = t.he[n]
      OBVIOUS
    <3>1. \A i \in 1..Len(s) : n # s[i]
      BY <1>8
    <3>2. n # e /\ n # x /\ n # b
      BY <1>1, <1>9, <1>11, <3>1, EntryIs
    <3> QED
      BY <1>15, <1>16, <3>2
  <2>2. /\ u.p_nr[l] = Len(q)
        /\ \A o \in 0..t.i_size - 1 : o # l => u.pp_entries[o] = t.pp_entries[o] /\ u.p_nr[o] = t.p_nr[o]
    <3> HIDE DEF f
    <3>1. u.p_nr = [t.p_nr EXCEPT ![l] = t.p_nr[l] - 1] /\ u.pp_entries = [t.pp_entries EXCEPT ![l] = f]
      BY <1>12
    <3>2. u.p_nr[l] = Len(q)
      BY <1>1, <1>10, <1>14, <1>21, <3>1
    <3>3. \A o \in 0..t.i_size - 1 : o # l => u.pp_entries[o] = t.pp_entries[o] /\ u.p_nr[o] = t.p_nr[o]
      BY <1>14, <3>1
    <3> QED
      BY <3>2, <3>3
  <2>3. u.i_items = Cardinality(DOMAIN u.he)
    <3>1. IsFiniteSet(DOMAIN t.he)
      BY <1>1, AddressAssumption, FS_Subset DEF Shaped
    <3>2. Cardinality(DOMAIN t.he \ {e}) = Cardinality(DOMAIN t.he) - 1
      BY <1>1, <3>1, FS_RemoveElement
    <3>3. u.i_items = t.i_items - 1
      BY <1>12
    <3> QED
      BY <1>16, <3>2, <3>3 DEF WellLinked
  <2>4. \A n \in DOMAIN u.he : n \in DOMAIN t.he /\ u.he[n].key = t.he[n].key
    BY <1>15, <1>16
  <2> QED
    BY <1>17, <1>18, <1>21, <1>23, <1>24, <1>25, <1>26, <1>27, <1>28, <2>1, <2>2, <2>3, <2>4 DEF Arranged
<1>30. WellLinked(u) /\ SameBuckets(t, u, l)
  BY <1>1, <1>29, Rearranged
<1> QED
  BY <1>19, <1>30 DEF u, l
----------------------------------------------------------------------------
(* The other operations on a table.                                        *)

\* u has the links of t: only its data or its flags may be others.
SameLinks(t, u) ==
  /\ u.i_size = t.i_size /\ u.i_items = t.i_items
  /\ u.pp_entries = t.pp_entries /\ u.p_nr = t.p_nr
  /\ DOMAIN u.he = DOMAIN t.he
  /\ \A a \in DOMAIN t.he : /\ u.he[a].key = t.he[a].key
                            /\ u.he[a].p_next = t.he[a].p_next
                            /\ u.he[a].p_prev = t.he[a].p_prev

LEMMA SameLinksIs ==
  ASSUME NEW t, WellLinked(t), NEW u, Shaped(u), SameLinks(t, u)
  PROVE  WellLinked(u) /\ \A l \in 0..t.i_size - 1 : Bucket(u, l) = Bucket(t, l)
<1>1. \A k : BucketOf(u, k) = BucketOf(t, k)
  BY DEF BucketOf, SameLinks
<1>2. ASSUME NEW l \in 0..t.i_size - 1 PROVE Holds(u, l, Bucket(t, l)) /\ Bucket(u, l) = Bucket(t, l)
  <2> DEFINE s == Bucket(t, l)
  <2>1. Holds(t, l, s)
    BY DEF WellLinked
  <2> HIDE DEF s
  <2>2. \A i \in 1..Len(s) : s[i] \in DOMAIN t.he
    BY <2>1 DEF Holds, Path
  <2>3. Path(u.he, u.pp_entries[l], s)
    BY <2>1, <2>2 DEF Holds, Path, SameLinks
  <2>4. ToSet(s) = {a \in DOMAIN u.he : BucketOf(u, u.he[a].key) = l}
    <3>1. ToSet(s) = {a \in DOMAIN t.he : BucketOf(t, t.he[a].key) = l}
      BY <2>1 DEF Holds
    <3> QED
      BY <1>1, <3>1 DEF SameLinks
  <2>5. Holds(u, l, s)
    BY <2>1, <2>2, <2>3, <2>4 DEF Holds, SameLinks
  <2> QED
    BY <2>5, HoldsIs DEF s
<1>3. Distinct(u)
  BY DEF Distinct, WellLinked, SameLinks
<1>4. u.i_items = Cardinality(DOMAIN u.he) /\ u.i_size = t.i_size
  BY DEF WellLinked, SameLinks
<1> QED
  BY <1>2, <1>3, <1>4 DEF WellLinked

FlagsOnly(t, u) ==
  u = [t EXCEPT !.i_heuristics = u.i_heuristics, !.i_automatic_rehash = u.i_automatic_rehash]

LEMMA FlagsSet ==
  ASSUME NEW t, WellLinked(t), NEW u, FlagsOnly(t, u),
         u.i_heuristics \in Heuristics, u.i_automatic_rehash \in BOOLEAN
  PROVE  /\ WellLinked(u) /\ u.i_size = t.i_size /\ u.he = t.he
         /\ \A l \in 0..t.i_size - 1 : Bucket(u, l) = Bucket(t, l)
<1>1. Shaped(t)
  BY DEF WellLinked
<1>2. /\ u.i_size = t.i_size /\ u.i_items = t.i_items /\ u.he = t.he
      /\ u.pp_entries = t.pp_entries /\ u.p_nr = t.p_nr
      /\ u = [t EXCEPT !.i_heuristics = u.i_heuristics,
                        !.i_automatic_rehash = u.i_automatic_rehash]
  BY <1>1 DEF Shaped, FlagsOnly
<1>3. Shaped(u) /\ SameLinks(t, u)
  BY <1>1, <1>2 DEF Shaped, SameLinks
<1> QED
  BY <1>2, <1>3, SameLinksIs

LEMMA DataSet ==
  ASSUME NEW t, WellLinked(t), NEW e \in DOMAIN t.he, NEW v \in Values, NEW u,
         u = [t EXCEPT !.he[e].data = v]
  PROVE  /\ WellLinked(u)
         /\ u.i_size = t.i_size /\ u.i_heuristics = t.i_heuristics
         /\ u.i_automatic_rehash = t.i_automatic_rehash
         /\ DOMAIN u.he = DOMAIN t.he /\ u.he[e].data = v
         /\ \A a \in DOMAIN t.he : /\ u.he[a].key = t.he[a].key
                                   /\ u.he[a].p_next = t.he[a].p_next
                                   /\ a # e => u.he[a].data = t.he[a].data
         /\ \A l \in 0..t.i_size - 1 : Bucket(u, l) = Bucket(t, l)
<1>1. Shaped(t) /\ \A a \in DOMAIN t.he : t.he[a] \in Entries
  BY EntryIs DEF WellLinked
<1>2. /\ u = [t EXCEPT !.he = u.he]
      /\ u.he = [t.he EXCEPT ![e].data = v]
  BY <1>1 DEF Shaped
<1>3. /\ u.i_size = t.i_size /\ u.i_items = t.i_items
      /\ u.pp_entries = t.pp_entries /\ u.p_nr = t.p_nr
      /\ u.i_heuristics = t.i_heuristics /\ u.i_automatic_rehash = t.i_automatic_rehash
  BY <1>1, <1>2 DEF Shaped
<1>4. /\ DOMAIN u.he = DOMAIN t.he
      /\ u.he[e] = [t.he[e] EXCEPT !.data = v]
      /\ \A a \in DOMAIN t.he : a # e => u.he[a] = t.he[a]
      /\ u.he = [a \in DOMAIN t.he |-> u.he[a]]
  BY <1>1, <1>2 DEF Shaped
<1>5. /\ u.he[e] \in Entries /\ u.he[e].data = v /\ u.he[e].key = t.he[e].key
      /\ u.he[e].p_next = t.he[e].p_next /\ u.he[e].p_prev = t.he[e].p_prev
  BY <1>1, <1>4 DEF Entries
<1>6. Shaped(u)
  <2>1. u.he \in [DOMAIN u.he -> Entries]
    BY <1>1, <1>4, <1>5
  <2> QED
    BY <1>1, <1>2, <1>3, <1>4, <2>1 DEF Shaped
<1>7. SameLinks(t, u)
  BY <1>3, <1>4, <1>5 DEF SameLinks
<1> QED
  BY <1>3, <1>4, <1>5, <1>6, <1>7, SameLinksIs

\* A new table is empty.
LEMMA CreateIs ==
  ASSUME NEW n \in Nat \ {0}
  PROVE  /\ WellLinked(ght_create(n)) /\ ght_create(n).he = <<>>
         /\ DOMAIN ght_create(n).he = {}
         /\ ght_create(n).i_heuristics = "none" /\ ght_create(n).i_automatic_rehash = FALSE
<1> DEFINE t == ght_create(n)
<1>1. PICK size \in Nat \ {0} : size = RoundUp(n)
  BY RoundUpIs
<1>2. /\ t = [i_size |-> size, i_items |-> 0, pp_entries |-> [l \in 0..size - 1 |-> Null],
              p_nr |-> [l \in 0..size - 1 |-> 0], i_heuristics |-> "none",
              i_automatic_rehash |-> FALSE, he |-> <<>>]
  BY <1>1 DEF ght_create, NoTable
<1> HIDE DEF t
<1>3. DOMAIN t.he = {}
  BY <1>2
<1>4. Shaped(t)
  BY <1>2, <1>3 DEF Shaped, Heuristics, Null
<1>5. \A l \in 0..t.i_size - 1 : Holds(t, l, <<>>)
  <2>1. \A l \in 0..t.i_size - 1 : t.pp_entries[l] = Null /\ t.p_nr[l] = 0
    BY <1>2
  <2>2. Path(t.he, Null, <<>>)
    BY DEF Path
  <2>3. ToSet(<<>>) = {}
    BY DEF ToSet
  <2> QED
    BY <1>3, <2>1, <2>2, <2>3 DEF Holds
<1>6. \A l \in 0..t.i_size - 1 : Holds(t, l, Bucket(t, l))
  BY <1>4, <1>5, HoldsIs
<1>7. WellLinked(t)
  BY <1>2, <1>3, <1>4, <1>6, FS_EmptySet DEF WellLinked, Distinct
<1> QED
  BY <1>2, <1>3, <1>7 DEF t
----------------------------------------------------------------------------
(* All entries of a table, and rehashing.                                  *)

Flattening(seqs, n, f) ==
  f = [i \in 1..n |-> IF i = 1 THEN seqs[i] ELSE f[i - 1] \o seqs[i]]

LEMMA FlattenIs ==
  ASSUME NEW D, NEW n \in Nat \ {0}, NEW seqs \in [1..n -> Seq(D)]
  PROVE  \E f : Flattening(seqs, n, f) /\ FlattenSeq(seqs) = f[n]
<1>1. \E f : Flattening(seqs, n, f)
  <2> DEFINE Missing == {m \in Nat \ {0} : ~\E f : Flattening(seqs, m, f)}
  <2> SUFFICES Missing = {}
    OBVIOUS
  <2> SUFFICES ASSUME Missing # {} PROVE FALSE
    OBVIOUS
  <2>1. PICK m \in Missing : \A k \in Missing : m <= k
    <3> HIDE DEF Missing
    <3>1. Missing \in SUBSET Nat
      BY DEF Missing
    <3> QED
      BY <3>1, LeastNumber
  <2>2. CASE m = 1
    <3>1. Flattening(seqs, 1, [i \in 1..1 |-> seqs[i]])
      BY DEF Flattening
    <3> QED
      BY <2>1, <2>2, <3>1
  <2>3. CASE m # 1
    <3>1. m - 1 \in Nat \ {0} /\ ~(m <= m - 1)
      BY <2>1, <2>3
    <3>2. PICK p : Flattening(seqs, m - 1, p)
      BY <2>1, <3>1
    <3> DEFINE q == [i \in 1..m |-> IF i = 1 THEN seqs[i] ELSE p[i - 1] \o seqs[i]]
    <3>3. \A i \in 1..m - 1 : q[i] = p[i]
      <4>1. m - 1 \in Nat
        BY <2>1
      <4>2. p = [i \in 1..m - 1 |-> IF i = 1 THEN seqs[i] ELSE p[i - 1] \o seqs[i]]
        BY <3>2 DEF Flattening
      <4>3. \A i \in 1..m - 1 : p[i] = IF i = 1 THEN seqs[i] ELSE p[i - 1] \o seqs[i]
        BY <4>2
      <4>4. \A i \in 1..m - 1 : i \in 1..m
        BY <4>1
      <4> HIDE DEF Missing
      <4> QED
        BY <4>3, <4>4
    <3>5. \A i \in 1..m : q[i] = IF i = 1 THEN seqs[i] ELSE q[i - 1] \o seqs[i]
      <4> SUFFICES ASSUME NEW i \in 1..m
                   PROVE  q[i] = IF i = 1 THEN seqs[i] ELSE q[i - 1] \o seqs[i]
        OBVIOUS
      <4>1. CASE i = 1
        BY <4>1
      <4>2. CASE i # 1
        <5>1. i - 1 \in 1..m - 1
          BY <2>1, <4>2
        <5>2. q[i - 1] = p[i - 1]
          BY <3>3, <5>1
        <5> QED
          BY <4>2, <5>2
      <4> QED
        BY <4>1, <4>2
    <3>4. Flattening(seqs, m, q)
      <4>1. q = [i \in 1..m |-> q[i]]
        OBVIOUS
      <4> HIDE DEF q
      <4> QED
        BY <3>5, <4>1 DEF Flattening
    <3> QED
      BY <2>1, <3>4
  <2> QED
    BY <2>2, <2>3
<1> DEFINE f == CHOOSE g : Flattening(seqs, n, g)
<1>2. Len(seqs) = n /\ n # 0
  BY FunctionIsSeq
<1>3. FlattenSeq(seqs) = f[n]
  BY <1>2 DEF FlattenSeq, Flattening
<1>4. Flattening(seqs, n, f)
  BY <1>1
<1> QED
  BY <1>3, <1>4

\* s has every element of the subset E of D once, and no other.
Lists(D, s, E) ==
  /\ s \in Seq(D)
  /\ \A i, j \in 1..Len(s) : s[i] = s[j] => i = j
  /\ ToSet(s) = E

\* Two sequences without repetitions that have nothing in common.
LEMMA ConcatIs ==
  ASSUME NEW D, NEW E, NEW F, NEW r, NEW q, Lists(D, r, E), Lists(D, q, F), E \cap F = {}
  PROVE  Lists(D, r \o q, E \cup F)
<1>5. /\ r \in Seq(D) /\ q \in Seq(D) /\ ToSet(r) = E /\ ToSet(q) = F
      /\ \A i, j \in 1..Len(r) : r[i] = r[j] => i = j
      /\ \A i, j \in 1..Len(q) : q[i] = q[j] => i = j
  BY DEF Lists
<1>6. ASSUME NEW i \in 1..Len(r), NEW j \in 1..Len(q) PROVE r[i] # q[j]
  <2>1. DOMAIN r = 1..Len(r) /\ DOMAIN q = 1..Len(q)
    BY <1>5
  <2>2. r[i] \in ToSet(r) /\ q[j] \in ToSet(q)
    BY <2>1, Zenon DEF ToSet
  <2> QED
    BY <1>5, <2>2
<1> DEFINE w == r \o q
<1>1. /\ w \in Seq(D) /\ Len(w) = Len(r) + Len(q) /\ Len(r) \in Nat /\ Len(q) \in Nat
      /\ \A i \in 1..Len(w) : w[i] = IF i <= Len(r) THEN r[i] ELSE q[i - Len(r)]
  BY <1>5, ConcatProperties
<1> HIDE DEF w
<1>2. \A i \in 1..Len(w) : \/ i \in 1..Len(r) /\ w[i] = r[i]
                           \/ ~(i <= Len(r)) /\ i - Len(r) \in 1..Len(q) /\ w[i] = q[i - Len(r)]
  BY <1>1
<1>3. \A i, j \in 1..Len(w) : w[i] = w[j] => i = j
  <2> SUFFICES ASSUME NEW i \in 1..Len(w), NEW j \in 1..Len(w), w[i] = w[j] PROVE i = j
    OBVIOUS
  <2>1. CASE i \in 1..Len(r) /\ w[i] = r[i]
    BY <1>2, <1>5, <1>6, <2>1
  <2>2. CASE ~(i <= Len(r)) /\ i - Len(r) \in 1..Len(q) /\ w[i] = q[i - Len(r)]
    <3>1. ~(j <= Len(r)) /\ j - Len(r) \in 1..Len(q) /\ w[j] = q[j - Len(r)]
      BY <1>1, <1>2, <1>6, <2>2
    <3>2. i - Len(r) = j - Len(r)
      BY <1>5, <2>2, <3>1
    <3> QED
      BY <1>1, <3>2
  <2> QED
    BY <1>2, <2>1, <2>2
<1>4. ToSet(w) = ToSet(r) \cup ToSet(q)
  <2>5. DOMAIN w = 1..Len(w) /\ DOMAIN r = 1..Len(r) /\ DOMAIN q = 1..Len(q)
    BY <1>1, <1>5
  <2>1. /\ ToSet(w) = {w[i] : i \in 1..Len(w)}
        /\ ToSet(r) = {r[i] : i \in 1..Len(r)}
        /\ ToSet(q) = {q[i] : i \in 1..Len(q)}
    BY <2>5, Zenon DEF ToSet
  <2>2. \A i \in 1..Len(w) : w[i] \in ToSet(r) \cup ToSet(q)
    BY <1>2, <2>1
  <2>3. \A i \in 1..Len(r) : i \in 1..Len(w) /\ w[i] = r[i]
    BY <1>1
  <2>4. ASSUME NEW i \in 1..Len(q) PROVE \E j \in 1..Len(w) : w[j] = q[i]
    <3>1. PICK j \in 1..Len(w) : j = Len(r) + i
      BY <1>1
    <3>2. ~(j <= Len(r)) /\ j - Len(r) = i
      BY <1>1, <3>1
    <3> QED
      BY <1>1, <3>2
  <2>6. ToSet(w) \subseteq ToSet(r) \cup ToSet(q)
    BY <2>1, <2>2
  <2>7. ToSet(r) \subseteq ToSet(w)
    BY <2>1, <2>3
  <2>8. ToSet(q) \subseteq ToSet(w)
    BY <2>1, <2>4
  <2> QED
    BY <2>6, <2>7, <2>8
<1> QED
  BY <1>1, <1>3, <1>4, <1>5 DEF w, Lists

\* ght_first and ght_next come by every entry once.
LEMMA WalkIs ==
  ASSUME NEW t, WellLinked(t)
  PROVE  /\ Walk(t) \in Seq(DOMAIN t.he)
         /\ \A i, j \in 1..Len(Walk(t)) : Walk(t)[i] = Walk(t)[j] => i = j
         /\ ToSet(Walk(t)) = DOMAIN t.he
         /\ Len(Walk(t)) = t.i_items
<1> DEFINE n == t.i_size
           D == DOMAIN t.he
           seqs == [i \in 1..n |-> Bucket(t, i - 1)]
           InFirst(i) == {a \in D : BucketOf(t, t.he[a].key) < i}
<1>1. n \in Nat \ {0} /\ Shaped(t)
  BY DEF WellLinked, Shaped
<1>2. ASSUME NEW i \in 1..n
      PROVE  Lists(D, seqs[i], {a \in D : BucketOf(t, t.he[a].key) = i - 1})
  <2>1. PICK l \in 0..n - 1 : l = i - 1 /\ seqs[i] = Bucket(t, l)
    BY <1>1
  <2>2. Holds(t, l, Bucket(t, l))
    BY DEF WellLinked
  <2> HIDE DEF seqs
  <2> QED
    BY <2>1, <2>2 DEF Holds, Path, Lists
<1>3. PICK f : Flattening(seqs, n, f) /\ Walk(t) = f[n]
  <2>1. seqs \in [1..n -> Seq(D)]
    <3> HIDE DEF seqs
    <3>1. seqs = [i \in 1..n |-> seqs[i]]
      BY DEF seqs
    <3> QED
      BY <1>2, <3>1 DEF Lists
  <2>2. Walk(t) = FlattenSeq(seqs)
    BY DEF Walk
  <2> HIDE DEF seqs
  <2> QED
    BY <1>1, <2>1, <2>2, FlattenIs
<1> HIDE DEF seqs
<1>4. \A i \in 1..n : Lists(D, f[i], InFirst(i))
  <2> DEFINE Wrong == {i \in 1..n : ~Lists(D, f[i], InFirst(i))}
  <2> SUFFICES ASSUME Wrong # {} PROVE FALSE
    OBVIOUS
  <2>1. PICK m \in Wrong : \A k \in Wrong : m <= k
    <3>1. Wrong \in SUBSET Nat
      OBVIOUS
    <3> HIDE DEF Wrong
    <3> QED
      BY <3>1, LeastNumber
  <2>2. m \in 1..n /\ \A a \in D : BucketOf(t, t.he[a].key) \in Nat
    BY <1>1, <2>1, EntryIs
  <2>3. CASE m = 1
    <3>1. f[m] = seqs[m]
      BY <1>3, <2>2, <2>3 DEF Flattening
    <3>2. InFirst(m) = {a \in D : BucketOf(t, t.he[a].key) = m - 1}
      BY <2>2, <2>3
    <3> QED
      BY <1>2, <2>1, <2>2, <3>1, <3>2
  <2>4. CASE m # 1
    <3> DEFINE k == m - 1
    <3>1. k \in 1..n /\ k = m - 1 /\ ~(m <= k)
      <4>1. m \in 1..n /\ n \in Nat
        BY <1>1, <2>2
      <4> HIDE DEF n, Wrong
      <4> QED
        BY <2>4, <4>1
    <3> HIDE DEF k
    <3>2. Lists(D, f[k], InFirst(k))
      BY <2>1, <3>1
    <3>3. f[m] = f[k] \o seqs[m]
      BY <1>3, <2>2, <2>4, <3>1 DEF Flattening
    <3>4. InFirst(m) = InFirst(k) \cup {a \in D : BucketOf(t, t.he[a].key) = m - 1}
      BY <2>2, <3>1
    <3>5. InFirst(k) \cap {a \in D : BucketOf(t, t.he[a].key) = m - 1} = {}
      BY <2>2, <3>1
    <3>6. Lists(D, f[k] \o seqs[m], InFirst(k) \cup {a \in D : BucketOf(t, t.he[a].key) = m - 1})
      <4>1. PICK r, q, E, F : /\ r = f[k] /\ q = seqs[m] /\ E = InFirst(k)
                              /\ F = {a \in D : BucketOf(t, t.he[a].key) = m - 1}
        OBVIOUS
      <4>2. Lists(D, r, E) /\ Lists(D, q, F) /\ E \cap F = {}
        BY <1>2, <2>2, <3>2, <3>5, <4>1
      <4>3. Lists(D, r \o q, E \cup F)
        BY <4>2, ConcatIs
      <4> QED
        BY <4>1, <4>3
    <3>7. Lists(D, f[m], InFirst(m))
      BY <3>3, <3>4, <3>6
    <3> QED
      BY <2>1, <3>7
  <2> QED
    BY <2>3, <2>4
<1> DEFINE w == Walk(t)
<1>5. Lists(D, w, InFirst(n))
  BY <1>1, <1>3, <1>4
<1>6. InFirst(n) = D
  BY <1>1, EntryIs
<1>7. w \in Seq(D) /\ (\A i, j \in 1..Len(w) : w[i] = w[j] => i = j) /\ ToSet(w) = D
  BY <1>5, <1>6 DEF Lists
<1> HIDE DEF w
<1>8. Len(w) = Cardinality(D)
  <2>1. w \in Bijection(1..Len(w), D)
    <3>1. w \in Injection(1..Len(w), D)
      BY <1>7 DEF Injection, IsInjective
    <3>2. \A a \in D : \E i \in 1..Len(w) : w[i] = a
      BY <1>7 DEF ToSet
    <3> QED
      BY <3>1, <3>2 DEF Bijection, Surjection, Injection
  <2>2. Len(w) \in Nat
    BY <1>7
  <2> QED
    BY <2>1, <2>2, FS_CountingElements DEF ExistsBijection
<1> QED
  BY <1>7, <1>8 DEF w, WellLinked
----------------------------------------------------------------------------

\* u has the entries of t at the addresses E.
Carried(t, u, E) ==
  /\ WellLinked(u)
  /\ E \subseteq DOMAIN t.he
  /\ DOMAIN u.he = E
  /\ \A a \in E : u.he[a].key = t.he[a].key /\ u.he[a].data = t.he[a].data

\* A moved entry never meets its key in the new table.
LEMMA MoveEntryIs ==
  ASSUME NEW t, WellLinked(t), NEW u, NEW E, Carried(t, u, E), NEW a \in DOMAIN t.he \ E
  PROVE  Carried(t, MoveEntry(u, t, a), E \cup {a})
<1>1. /\ WellLinked(u) /\ E \subseteq DOMAIN t.he /\ DOMAIN u.he = E
      /\ \A b \in E : u.he[b].key = t.he[b].key /\ u.he[b].data = t.he[b].data
      /\ Shaped(t) /\ Distinct(t) /\ Shaped(u)
  BY DEF Carried, WellLinked
<1>2. PICK k \in Keys : k = t.he[a].key
  BY <1>1, EntryIs
<1>3. PICK v \in Values : v = t.he[a].data
  BY <1>1, EntryIs
<1>4. \A b \in DOMAIN u.he : u.he[b].key # k
  BY <1>1, <1>2 DEF Distinct
<1>5. a \in Address \ DOMAIN u.he
  BY <1>1, EntryIs
<1>6. Search(u, BucketOf(u, k), k) = Null
  BY <1>1, <1>4, SearchIs
<1>7. MoveEntry(u, t, a) = PlaceFirst(u, BucketOf(u, k), a, k, v)
  BY <1>2, <1>3, <1>6 DEF MoveEntry
<1>8. PICK w : w = PlaceFirst(u, BucketOf(u, k), a, k, v)
  OBVIOUS
<1>9. /\ WellLinked(w) /\ DOMAIN w.he = DOMAIN u.he \cup {a}
      /\ w.he[a].key = k /\ w.he[a].data = v
      /\ \A b \in DOMAIN u.he : w.he[b].key = u.he[b].key /\ w.he[b].data = u.he[b].data
  BY <1>1, <1>4, <1>5, <1>8, PlaceFirstIs
<1>10. Carried(t, w, E \cup {a})
  BY <1>1, <1>2, <1>3, <1>9 DEF Carried
<1> QED
  BY <1>7, <1>8, <1>10

\* p is the new table after every move.
Moving(t, n, m, p) ==
  p = [i \in 0..m |-> IF i = 0 THEN ght_create(n) ELSE MoveEntry(p[i - 1], t, Walk(t)[i])]

LEMMA MovingExists ==
  ASSUME NEW t, NEW n, NEW m \in Nat
  PROVE  \E p : Moving(t, n, m, p)
<1> DEFINE Missing == {k \in Nat : ~\E p : Moving(t, n, k, p)}
<1> SUFFICES Missing = {}
  OBVIOUS
<1> SUFFICES ASSUME Missing # {} PROVE FALSE
  OBVIOUS
<1>1. PICK k \in Missing : \A j \in Missing : k <= j
  <2> HIDE DEF Missing
  <2>1. Missing \in SUBSET Nat
    BY DEF Missing
  <2> QED
    BY <2>1, LeastNumber
<1>2. CASE k = 0
  <2>1. Moving(t, n, 0, [i \in 0..0 |-> ght_create(n)])
    BY DEF Moving
  <2> QED
    BY <1>1, <1>2, <2>1
<1>3. CASE k # 0
  <2>1. k - 1 \in Nat /\ ~(k <= k - 1)
    BY <1>1, <1>3
  <2>2. PICK p : Moving(t, n, k - 1, p)
    BY <1>1, <2>1
  <2> DEFINE q == [i \in 0..k |-> IF i = 0 THEN ght_create(n)
                                  ELSE MoveEntry(p[i - 1], t, Walk(t)[i])]
  <2>3. \A i \in 0..k - 1 : q[i] = p[i]
    <3>1. p = [i \in 0..k - 1 |-> IF i = 0 THEN ght_create(n)
                                  ELSE MoveEntry(p[i - 1], t, Walk(t)[i])]
      BY <2>2 DEF Moving
    <3>2. \A i \in 0..k - 1 : p[i] = IF i = 0 THEN ght_create(n)
                                     ELSE MoveEntry(p[i - 1], t, Walk(t)[i])
      BY <3>1
    <3>3. \A i \in 0..k - 1 : i \in 0..k
      BY <2>1
    <3> HIDE DEF Missing
    <3> QED
      BY <3>2, <3>3
  <2>4. ASSUME NEW i \in 0..k
        PROVE  q[i] = IF i = 0 THEN ght_create(n) ELSE MoveEntry(q[i - 1], t, Walk(t)[i])
    <3>1. CASE i = 0
      BY <3>1
    <3>2. CASE i # 0
      <4>1. i - 1 \in 0..k - 1
        BY <1>1, <3>2
      <4>2. q[i - 1] = p[i - 1]
        BY <2>3, <4>1
      <4> QED
        BY <3>2, <4>2
    <3> QED
      BY <3>1, <3>2
  <2>5. Moving(t, n, k, q)
    <3>1. q = [i \in 0..k |-> q[i]]
      OBVIOUS
    <3> HIDE DEF q
    <3> QED
      BY <2>4, <3>1 DEF Moving
  <2> QED
    BY <1>1, <2>5
<1> QED
  BY <1>2, <1>3

\* Rehashing loses no entry, and gives none another key or other data.
LEMMA RehashIs ==
  ASSUME NEW t, WellLinked(t), NEW n \in Nat \ {0}
  PROVE  LET u == ght_rehash(t, n)
         IN  /\ WellLinked(u) /\ DOMAIN u.he = DOMAIN t.he
             /\ \A a \in DOMAIN t.he :
                  u.he[a].key = t.he[a].key /\ u.he[a].data = t.he[a].data
             /\ u.i_heuristics = t.i_heuristics
             /\ u.i_automatic_rehash = t.i_automatic_rehash
<1>1. PICK w : w = Walk(t)
  OBVIOUS
<1>2. /\ w \in Seq(DOMAIN t.he) /\ ToSet(w) = DOMAIN t.he
      /\ \A i, j \in 1..Len(w) : w[i] = w[j] => i = j
  BY <1>1, WalkIs
<1>3. PICK L \in Nat : L = Len(w)
  BY <1>2
<1> DEFINE p == CHOOSE q : Moving(t, n, L, q)
<1>4. Moving(t, n, L, p)
  BY MovingExists
<1>5. ght_rehash(t, n) = [p[L] EXCEPT !.i_heuristics = t.i_heuristics,
                                      !.i_automatic_rehash = t.i_automatic_rehash]
  BY <1>1, <1>3 DEF ght_rehash, Moving
<1> HIDE DEF p
<1> DEFINE Some(i) == {w[j] : j \in 1..i}
<1>6. p[0] = ght_create(n) /\ \A i \in 1..L : p[i] = MoveEntry(p[i - 1], t, w[i])
  <2>1. \A i \in 0..L : p[i] = IF i = 0 THEN ght_create(n) ELSE MoveEntry(p[i - 1], t, w[i])
    BY <1>1, <1>4 DEF Moving
  <2> QED
    BY <2>1
<1>7. \A i \in 0..L : Carried(t, p[i], Some(i))
  <2> DEFINE Wrong == {i \in 0..L : ~Carried(t, p[i], Some(i))}
  <2> SUFFICES ASSUME Wrong # {} PROVE FALSE
    OBVIOUS
  <2>1. PICK m \in Wrong : \A k \in Wrong : m <= k
    <3>1. Wrong \in SUBSET Nat
      OBVIOUS
    <3> HIDE DEF Wrong
    <3> QED
      BY <3>1, LeastNumber
  <2>2. CASE m = 0
    <3>1. Some(m) = {}
      BY <2>2
    <3>2. Carried(t, p[m], {})
      BY <1>6, <2>2, CreateIs DEF Carried
    <3> QED
      BY <2>1, <3>1, <3>2
  <2>3. CASE m # 0
    <3> DEFINE k == m - 1
    <3>1. m \in 1..L /\ k \in 0..L /\ k = m - 1 /\ ~(m <= k)
      BY <2>1, <2>3
    <3> HIDE DEF k
    <3>2. Carried(t, p[k], Some(k))
      BY <2>1, <3>1
    <3>3. w[m] \in DOMAIN t.he
      BY <1>2, <1>3, <3>1
    <3>4. w[m] \notin Some(k)
      <4>1. \A j \in 1..k : j \in 1..L /\ j # m
        BY <3>1
      <4> QED
        BY <1>2, <1>3, <3>1, <4>1
    <3>5. Some(m) = Some(k) \cup {w[m]}
      <4>1. \A j \in 1..m : j = m \/ j \in 1..k
        BY <3>1
      <4>2. m \in 1..m /\ \A j \in 1..k : j \in 1..m
        BY <3>1
      <4> QED
        BY <4>1, <4>2
    <3>6. p[m] = MoveEntry(p[k], t, w[m])
      BY <1>6, <3>1
    <3>7. Carried(t, p[m], Some(m))
      <4>1. PICK u, E, a : u = p[k] /\ E = Some(k) /\ a = w[m]
        OBVIOUS
      <4>2. Carried(t, u, E) /\ a \in DOMAIN t.he \ E
        BY <3>2, <3>3, <3>4, <4>1
      <4>3. Carried(t, MoveEntry(u, t, a), E \cup {a})
        BY <4>2, MoveEntryIs
      <4> QED
        BY <3>5, <3>6, <4>1, <4>3
    <3> QED
      BY <2>1, <3>7
  <2> QED
    BY <2>2, <2>3
<1>8. Some(L) = DOMAIN t.he
  <2>1. DOMAIN w = 1..L
    BY <1>2, <1>3
  <2> QED
    BY <1>2, <2>1 DEF ToSet
<1> HIDE DEF Some
<1>14. L \in 0..L
  BY <1>3
<1>9. PICK v : v = p[L] /\ Carried(t, v, DOMAIN t.he)
  BY <1>7, <1>8, <1>14
<1>10. t.i_heuristics \in Heuristics /\ t.i_automatic_rehash \in BOOLEAN
  BY DEF WellLinked, Shaped
<1>11. PICK u : u = ght_rehash(t, n)
  OBVIOUS
<1>12. u = [v EXCEPT !.i_heuristics = t.i_heuristics,
                     !.i_automatic_rehash = t.i_automatic_rehash]
  BY <1>5, <1>9, <1>11
<1>13. /\ WellLinked(u) /\ u.he = v.he /\ u.i_heuristics = t.i_heuristics
       /\ u.i_automatic_rehash = t.i_automatic_rehash
  <2>1. WellLinked(v)
    BY <1>9 DEF Carried
  <2>2. Shaped(v)
    BY <2>1 DEF WellLinked
  <2>3. u.i_heuristics = t.i_heuristics /\ u.i_automatic_rehash = t.i_automatic_rehash
    BY <1>12, <2>2 DEF Shaped
  <2>4. FlagsOnly(v, u)
    BY <1>12, <2>3 DEF FlagsOnly
  <2> QED
    BY <1>10, <2>1, <2>3, <2>4, FlagsSet
<1> QED
  BY <1>9, <1>11, <1>13 DEF Carried

----------------------------------------------------------------------------
(* Linked.                                                                  *)

\* Destroying a table leaves nothing in memory.
LEMMA FinalizeIs ==
  ASSUME NEW t, WellLinked(t)
  PROVE  ght_finalize(t) = NoTable
<1> DEFINE Chained == UNION {InChain(t, l) : l \in 0..t.i_size - 1}
<1>1. DOMAIN t.he \ Chained = {}
  <2> SUFFICES ASSUME NEW a \in DOMAIN t.he PROVE \E l \in 0..t.i_size - 1 : a \in InChain(t, l)
    OBVIOUS
  <2>1. PICK l \in 0..t.i_size - 1 : l = BucketOf(t, t.he[a].key)
    BY EntryIs DEF WellLinked
  <2>2. a \in ToSet(Bucket(t, l))
    BY <2>1 DEF WellLinked, Holds
  <2> QED
    BY <2>2 DEF InChain
<1>2. [a \in {} |-> t.he[a]] = <<>>
  OBVIOUS
<1>3. ght_finalize(t) = [NoTable EXCEPT !.he = [a \in DOMAIN t.he \ Chained |-> t.he[a]]]
  BY DEF ght_finalize
<1> HIDE DEF Chained
<1>4. ght_finalize(t) = [NoTable EXCEPT !.he = <<>>]
  BY <1>1, <1>2, <1>3
<1> QED
  BY <1>4 DEF NoTable

\* The invariant of the run about the links follows from the one that is
\* inductive.
LEMMA WellLinkedIsLinked ==
  ASSUME WellLinked(ht)
  PROVE  Linked
<1>1. Shaped(ht) /\ ht.i_size \in Nat \ {0} /\ DOMAIN ht.pp_entries = 0..ht.i_size - 1
  BY DEF WellLinked, Shaped
<1>2. Exists
  BY <1>1 DEF Exists
<1>3. ASSUME NEW l \in 0..ht.i_size - 1
      PROVE  /\ ht.pp_entries[l] \in Pointer
             /\ ht.pp_entries[l] # Null =>
                  /\ ht.he[ht.pp_entries[l]].p_prev = Null
                  /\ BucketOf(ht, ht.he[ht.pp_entries[l]].key) = l
  <2>1. PICK s : s = Bucket(ht, l) /\ Spells(ht, l, s)
    BY BucketSpells
  <2>2. CASE Len(s) = 0
    BY <2>1, <2>2 DEF Spells, Pointer
  <2>3. CASE Len(s) # 0
    <3>1. PICK i \in 1..Len(s) : i = 1
      <4>1. Len(s) \in Nat
        BY <2>1 DEF Spells
      <4>2. 1 \in 1..Len(s)
        BY <2>3, <4>1
      <4> QED
        BY <4>2
    <3>2. ht.pp_entries[l] = s[i] /\ s[i] \in DOMAIN ht.he
          /\ ht.he[s[i]].p_prev = Null /\ BucketOf(ht, ht.he[s[i]].key) = l
      BY <2>1, <2>3, <3>1 DEF Spells
    <3> QED
      BY <3>2 DEF Pointer, Used
  <2> QED
    BY <2>2, <2>3
<1>4. ASSUME NEW a \in Used
      PROVE  /\ ht.he[a].p_next \in Pointer /\ ht.he[a].p_prev \in Pointer
             /\ ht.he[a].p_prev = Null => ht.pp_entries[BucketOf(ht, ht.he[a].key)] = a
             /\ ht.he[a].p_prev # Null => ht.he[ht.he[a].p_prev].p_next = a
             /\ ht.he[a].p_next # Null =>
                  /\ ht.he[ht.he[a].p_next].p_prev = a
                  /\ BucketOf(ht, ht.he[ht.he[a].p_next].key) = BucketOf(ht, ht.he[a].key)
  <2>1. PICK l \in 0..ht.i_size - 1 : l = BucketOf(ht, ht.he[a].key)
    BY <1>1, EntryIs DEF Used
  <2>2. PICK s : s = Bucket(ht, l) /\ Spells(ht, l, s)
    BY BucketSpells
  <2>3. PICK i \in 1..Len(s) : a = s[i]
    BY <2>1, <2>2 DEF Spells, Used
  <2>4. Len(s) \in Nat /\ \A j \in 1..Len(s) : s[j] \in DOMAIN ht.he /\ s[j] # Null
    BY <2>2 DEF Spells
  <2>5. /\ ht.he[a].p_next = IF i = Len(s) THEN Null ELSE s[i + 1]
        /\ ht.he[a].p_prev = IF i = 1 THEN Null ELSE s[i - 1]
        /\ ht.pp_entries[l] = IF Len(s) = 0 THEN Null ELSE s[1]
    BY <2>2, <2>3 DEF Spells
  <2>6. ASSUME i # Len(s)
        PROVE  /\ s[i + 1] \in DOMAIN ht.he /\ s[i + 1] # Null /\ ht.he[s[i + 1]].p_prev = a
               /\ BucketOf(ht, ht.he[s[i + 1]].key) = l
    <3>1. PICK j \in 1..Len(s) : j = i + 1 /\ j # 1 /\ j - 1 = i
      BY <2>3, <2>4, <2>6
    <3>2. /\ s[j] \in DOMAIN ht.he /\ s[j] # Null /\ ht.he[s[j]].p_prev = s[j - 1]
          /\ BucketOf(ht, ht.he[s[j]].key) = l
      BY <2>2, <3>1 DEF Spells
    <3> QED
      BY <2>3, <3>1, <3>2
  <2>7. ASSUME i # 1
        PROVE  s[i - 1] \in DOMAIN ht.he /\ s[i - 1] # Null /\ ht.he[s[i - 1]].p_next = a
    <3>1. PICK j \in 1..Len(s) : j = i - 1 /\ j # Len(s) /\ j + 1 = i
      BY <2>3, <2>4, <2>7
    <3>2. s[j] \in DOMAIN ht.he /\ s[j] # Null /\ ht.he[s[j]].p_next = s[j + 1]
      BY <2>2, <3>1 DEF Spells
    <3> QED
      BY <2>3, <3>1, <3>2
  <2>8. CASE i # Len(s) /\ i # 1
    BY <2>1, <2>5, <2>6, <2>7, <2>8 DEF Pointer, Used
  <2>9. CASE i # Len(s) /\ i = 1
    BY <2>1, <2>3, <2>4, <2>5, <2>6, <2>9 DEF Pointer, Used
  <2>10. CASE i = Len(s) /\ i # 1
    BY <2>1, <2>5, <2>7, <2>10 DEF Pointer, Used
  <2>11. CASE i = Len(s) /\ i = 1
    BY <2>1, <2>3, <2>4, <2>5, <2>11 DEF Pointer, Used
  <2> QED
    BY <2>8, <2>9, <2>10, <2>11
<1>5. Counted
  <2>1. DOMAIN ht.p_nr = 0..ht.i_size - 1
    BY <1>1 DEF Shaped
  <2>2. ht.i_items = Cardinality(Used) /\ Len(Walk(ht)) = ht.i_items
    BY WalkIs DEF WellLinked, Used
  <2>3. \A l \in 0..ht.i_size - 1 : ht.p_nr[l] = Len(Bucket(ht, l))
    BY DEF WellLinked, Holds
  <2> QED
    BY <2>1, <2>2, <2>3 DEF Counted
<1>6. ht.pp_entries \in [0..ht.i_size - 1 -> Pointer]
  <2>1. ht.pp_entries = [l \in 0..ht.i_size - 1 |-> ht.pp_entries[l]]
    BY <1>1 DEF Shaped
  <2> QED
    BY <1>3, <2>1
<1> QED
  BY <1>1, <1>2, <1>3, <1>4, <1>5, <1>6 DEF Linked

\* u is t with a new entry for k.
Placed(t, u, k, v) ==
  /\ \E a \in Address \ DOMAIN t.he : u = PlaceFirst(t, BucketOf(t, k), a, k, v)
  /\ \A a \in DOMAIN t.he : t.he[a].key # k

\* What Insert does, as long as the table does not rehash itself.
LEMMA InsertIs ==
  ASSUME NEW t, WellLinked(t), t.i_automatic_rehash = FALSE, NEW k \in Keys, NEW v \in Values
  PROVE  \/ /\ ght_insert(t, k, v) = t
            /\ InsertResult(t, k) = -1
            /\ \E a \in DOMAIN t.he : t.he[a].key = k
         \/ /\ ght_insert(t, k, v) = t
            /\ InsertResult(t, k) = -2
            /\ \A a \in DOMAIN t.he : t.he[a].key # k
         \/ Placed(t, ght_insert(t, k, v), k, v) /\ InsertResult(t, k) = 0
<1>1. PICK e : e = Search(t, BucketOf(t, k), k)
  OBVIOUS
<1>2. \/ e = Null /\ \A a \in DOMAIN t.he : t.he[a].key # k
      \/ e \in DOMAIN t.he /\ e # Null /\ t.he[e].key = k
  BY <1>1, SearchIs
<1>3. CASE e # Null
  BY <1>1, <1>2, <1>3 DEF ght_insert, InsertResult
<1>4. CASE e = Null /\ Fresh(t) = {}
  BY <1>1, <1>2, <1>4 DEF ght_insert, InsertResult
<1>5. CASE e = Null /\ Fresh(t) # {}
  <2>1. PICK a : a = he_create(t, k)
    OBVIOUS
  <2>2. a \in Address \ DOMAIN t.he
    BY <1>5, <2>1 DEF he_create, Fresh
  <2>3. ght_insert(t, k, v) = PlaceFirst(t, BucketOf(t, k), a, k, v)
    BY <1>1, <1>5, <2>1 DEF ght_insert
  <2>4. InsertResult(t, k) = 0
    BY <1>1, <1>5 DEF InsertResult
  <2> QED
    BY <1>2, <1>5, <2>2, <2>3, <2>4 DEF Placed
<1> QED
  BY <1>3, <1>4, <1>5

\* What a lookup does.
LEMMA GetIs ==
  ASSUME NEW t, WellLinked(t), NEW k \in Keys
  PROVE  /\ WellLinked(ght_get(t, k)) /\ SameContents(t, ght_get(t, k))
         /\ t.i_heuristics = "none" => ght_get(t, k) = t
<1>1. PICK e, l : e = Search(t, BucketOf(t, k), k) /\ l = BucketOf(t, k)
  OBVIOUS
<1>2. e = Null \/ (e # Null /\ e \in DOMAIN t.he /\ l = BucketOf(t, t.he[e].key))
  BY <1>1, SearchIs
<1>3. ght_get(t, k) = Touch(t, l, e)
  BY <1>1 DEF ght_get
<1> QED
  BY <1>2, <1>3, TouchIs

\* u is t with other data at entry e.
OtherData(t, u, e, v) ==
  /\ u.i_size = t.i_size /\ u.i_heuristics = t.i_heuristics
  /\ u.i_automatic_rehash = t.i_automatic_rehash
  /\ DOMAIN u.he = DOMAIN t.he /\ u.he[e].data = v
  /\ \A a \in DOMAIN t.he : /\ u.he[a].key = t.he[a].key
                            /\ a # e => u.he[a].data = t.he[a].data

\* What replacement does.
LEMMA ReplaceIs ==
  ASSUME NEW t, WellLinked(t), NEW k \in Keys, NEW v \in Values,
         NEW e, e = Search(t, BucketOf(t, k), k)
  PROVE  LET u == ght_replace(t, k, v)
         IN  /\ WellLinked(u)
             /\ e = Null => u = t
             /\ e # Null => OtherData(t, u, e, v)
             /\ t.i_heuristics = "none" =>
                  \A a \in DOMAIN t.he : u.he[a].p_next = t.he[a].p_next
<1>1. \/ e = Null
      \/ e \in DOMAIN t.he /\ e # Null /\ t.he[e].key = k
  BY SearchIs
<1>2. CASE e = Null
  BY <1>2 DEF ght_replace
<1>3. CASE e \in DOMAIN t.he /\ e # Null /\ t.he[e].key = k
  <2>1. PICK w : w = ght_get(t, k)
    OBVIOUS
  <2>2. WellLinked(w) /\ SameContents(t, w) /\ (t.i_heuristics = "none" => w = t)
    BY <2>1, GetIs
  <2>3. PICK u : u = [w EXCEPT !.he[e].data = v]
    OBVIOUS
  <2>4. ght_replace(t, k, v) = u
    BY <1>3, <2>1, <2>3 DEF ght_replace
  <2>5. e \in DOMAIN w.he
    BY <1>3, <2>2 DEF SameContents
  <2>6. /\ WellLinked(u)
        /\ u.i_size = w.i_size /\ u.i_heuristics = w.i_heuristics
        /\ u.i_automatic_rehash = w.i_automatic_rehash
        /\ DOMAIN u.he = DOMAIN w.he /\ u.he[e].data = v
        /\ \A a \in DOMAIN w.he : /\ u.he[a].key = w.he[a].key
                                  /\ u.he[a].p_next = w.he[a].p_next
                                  /\ a # e => u.he[a].data = w.he[a].data
    BY <2>2, <2>3, <2>5, DataSet
  <2>7. OtherData(t, u, e, v)
    BY <2>2, <2>6 DEF OtherData, SameContents
  <2> QED
    BY <1>3, <2>2, <2>4, <2>6, <2>7
<1> QED
  BY <1>1, <1>2, <1>3

\* The inductive invariant of the table: what the caller must not do is to have
\* it rehash itself.
TableInv ==
  IF Exists THEN WellLinked(ht) /\ ht.i_automatic_rehash = FALSE ELSE ht = NoTable

LEMMA TableInvLinked ==
  ASSUME TableInv
  PROVE  Linked
<1>1. CASE Exists
  BY <1>1, WellLinkedIsLinked DEF TableInv
<1>2. CASE ~Exists
  <2>1. ht = NoTable
    BY <1>2 DEF TableInv
  <2>2. /\ ht.i_size = 0 /\ ht.i_items = 0 /\ ht.pp_entries = <<>> /\ ht.p_nr = <<>>
        /\ ht.he = <<>>
    BY <2>1 DEF NoTable
  <2>3. Used = {} /\ DOMAIN ht.pp_entries = {} /\ DOMAIN ht.p_nr = {}
    BY <2>2 DEF Used
  <2>4. ht.pp_entries \in [0..ht.i_size - 1 -> Pointer]
    <3>1. 0..ht.i_size - 1 = {}
      BY <2>2
    <3>2. ht.pp_entries = [l \in {} |-> Null]
      BY <2>2
    <3> QED
      BY <3>1, <3>2
  <2>5. Counted
    BY <1>2, <2>2, <2>3, FS_EmptySet DEF Counted
  <2> QED
    BY <1>2, <2>3, <2>4, <2>5 DEF Linked
<1> QED
  BY <1>1, <1>2

\* A table that exists has buckets.
LEMMA WellLinkedExists ==
  ASSUME NEW t, WellLinked(t)
  PROVE  t.i_size \in Nat \ {0} /\ t.i_size > 0 /\ t.i_heuristics \in Heuristics
BY DEF WellLinked, Shaped

\* ght_create, called when there is no table.
LEMMA CreateStep ==
  ASSUME TableInv, NEW n \in Sizes, Create(n)
  PROVE  ht' = ght_create(n) /\ ht = NoTable /\ TableInv'
<1>1. PICK t : t = ght_create(n)
  OBVIOUS
<1>2. n \in Nat \ {0}
  BY SizesAssumption
<1>3. WellLinked(t) /\ t.he = <<>> /\ t.i_automatic_rehash = FALSE
  BY <1>1, <1>2, CreateIs
<1>4. ht = NoTable /\ ht.he = <<>>
  BY DEF Create, TableInv, NoTable
<1>5. [t EXCEPT !.he = <<>>] = t
  BY <1>3 DEF WellLinked, Shaped
<1>6. ht' = t
  BY <1>1, <1>4, <1>5 DEF Create
<1> QED
  BY <1>1, <1>3, <1>4, <1>6, WellLinkedExists DEF TableInv, Exists

\* A call that keeps the table well linked keeps the invariant.
LEMMA KeepsTable ==
  ASSUME WellLinked(ht'), ht'.i_automatic_rehash = FALSE
  PROVE  TableInv'
BY WellLinkedExists DEF TableInv, Exists

LEMMA TableStep ==
  ASSUME "manual_rehash" \in TableRules, TableInv, [Next]_vars
  PROVE  TableInv'
<1>1. CASE UNCHANGED vars
  BY <1>1 DEF vars, TableInv, Exists
<1>2. ASSUME Exists
      PROVE  WellLinked(ht) /\ ht.i_automatic_rehash = FALSE
  BY <1>2 DEF TableInv
<1>3. ASSUME NEW n \in Sizes, Create(n) PROVE TableInv'
  BY <1>3, CreateStep
<1>4. ASSUME NEW n \in Sizes, Rehash(n) PROVE TableInv'
  <2>1. Exists /\ n \in Nat \ {0}
    BY <1>4, SizesAssumption DEF Rehash
  <2>2. WellLinked(ght_rehash(ht, n))
        /\ ght_rehash(ht, n).i_automatic_rehash = ht.i_automatic_rehash
    BY <1>2, <2>1, RehashIs
  <2>3. ht' = ght_rehash(ht, n)
    BY <1>4 DEF Rehash
  <2> QED
    BY <1>2, <2>1, <2>2, <2>3, KeepsTable
<1>5. ASSUME NEW k \in Keys, NEW v \in Values, Insert(k, v) PROVE TableInv'
  <2>1. Exists /\ ht' = ght_insert(ht, k, v)
    BY <1>5 DEF Insert
  <2>2. CASE ght_insert(ht, k, v) = ht
    BY <1>2, <2>1, <2>2, KeepsTable
  <2>3. CASE Placed(ht, ght_insert(ht, k, v), k, v)
    <3>1. /\ \A b \in DOMAIN ht.he : ht.he[b].key # k
          /\ \E a \in Address \ DOMAIN ht.he : ht' = PlaceFirst(ht, BucketOf(ht, k), a, k, v)
      BY <2>1, <2>3 DEF Placed
    <3>2. WellLinked(ht') /\ ht'.i_automatic_rehash = ht.i_automatic_rehash
      BY <1>2, <2>1, <3>1, PlaceFirstIs
    <3> QED
      BY <1>2, <2>1, <3>2, KeepsTable
  <2> QED
    BY <1>2, <2>1, <2>2, <2>3, InsertIs
<1>6. ASSUME NEW k \in Keys, InsertFails(k) PROVE TableInv'
  BY <1>2, <1>6, KeepsTable DEF InsertFails
<1>7. ASSUME NEW k \in Keys, NEW v \in Values, Replace(k, v) PROVE TableInv'
  <2>1. Exists /\ ht' = ght_replace(ht, k, v)
    BY <1>7 DEF Replace, LookUp
  <2>2. PICK e : e = Search(ht, BucketOf(ht, k), k)
    OBVIOUS
  <2>3. /\ WellLinked(ht') /\ (e = Null => ht' = ht)
        /\ (e # Null => OtherData(ht, ht', e, v))
    BY <1>2, <2>1, <2>2, ReplaceIs
  <2> QED
    BY <1>2, <2>1, <2>3, KeepsTable DEF OtherData
<1>8. ASSUME NEW k \in Keys, Get(k) PROVE TableInv'
  <2>1. Exists /\ ht' = ght_get(ht, k)
    BY <1>8 DEF Get, LookUp
  <2>2. WellLinked(ht') /\ SameContents(ht, ht')
    BY <1>2, <2>1, GetIs
  <2> QED
    BY <1>2, <2>1, <2>2, KeepsTable DEF SameContents
<1>9. ASSUME NEW k \in Keys, RemoveKey(k) PROVE TableInv'
  <2>1. Exists /\ ht' = ght_remove(ht, k)
    BY <1>9 DEF RemoveKey
  <2>2. PICK e : e = Search(ht, BucketOf(ht, k), k)
    OBVIOUS
  <2>3. CASE e = Null
    BY <1>2, <2>1, <2>2, <2>3, KeepsTable DEF ght_remove
  <2>4. CASE e # Null
    <3>1. WellLinked(ht') /\ Without(ht, ht', e)
      BY <1>2, <2>1, <2>2, <2>4, RemoveIs
    <3> QED
      BY <1>2, <2>1, <3>1, KeepsTable DEF Without
  <2> QED
    BY <2>3, <2>4
<1>10. ASSUME First \/ Following PROVE TableInv'
  BY <1>10 DEF First, Following, TableInv, Exists
<1>11. ASSUME NEW h \in Heuristics, SetHeuristics(h) PROVE TableInv'
  <2>1. Exists /\ ht' = [ht EXCEPT !.i_heuristics = h]
    BY <1>11 DEF SetHeuristics
  <2>2. Shaped(ht)
    BY <1>2, <2>1 DEF WellLinked
  <2>3. /\ ht'.i_heuristics = h /\ ht'.i_automatic_rehash = ht.i_automatic_rehash
        /\ FlagsOnly(ht, ht')
    BY <2>1, <2>2 DEF Shaped, FlagsOnly
  <2>4. WellLinked(ht')
    BY <1>2, <2>1, <2>3, FlagsSet
  <2> QED
    BY <1>2, <2>1, <2>3, <2>4, KeepsTable
<1>12. ASSUME NEW b \in BOOLEAN, SetRehash(b) PROVE TableInv'
  <2>1. Exists /\ b = FALSE /\ ht' = [ht EXCEPT !.i_automatic_rehash = b]
    BY <1>12 DEF SetRehash, Rule
  <2>2. Shaped(ht)
    BY <1>2, <2>1 DEF WellLinked
  <2>3. /\ ht'.i_heuristics = ht.i_heuristics /\ ht'.i_automatic_rehash = FALSE
        /\ FlagsOnly(ht, ht') /\ ht.i_heuristics \in Heuristics
    BY <2>1, <2>2 DEF Shaped, FlagsOnly
  <2>4. WellLinked(ht')
    BY <1>2, <2>1, <2>3, FlagsSet
  <2> QED
    BY <2>3, <2>4, KeepsTable
<1>13. ASSUME Destroy PROVE TableInv'
  <2>1. ht' = NoTable
    BY <1>2, <1>13, FinalizeIs DEF Destroy
  <2> QED
    BY <2>1 DEF TableInv, Exists, NoTable
<1> QED
  BY <1>1, <1>3, <1>4, <1>5, <1>6, <1>7, <1>8, <1>9, <1>10, <1>11, <1>12, <1>13 DEF Next

LEMMA TableInit ==
  ASSUME Init
  PROVE  TableInv
BY DEF Init, TableInv, Exists, NoTable

\* As long as the program leaves automatic rehashing off, the chains of the
\* table are well linked and counted whatever is called in whatever order:
\* transpose, move_to_front, removal and rehashing leave no dangling and no
\* missing link, for chains of any length.
THEOREM AlwaysLinked ==
  ASSUME "manual_rehash" \in TableRules
  PROVE  Spec => []Linked
<1>1. Init => TableInv
  BY TableInit
<1>2. TableInv /\ [Next]_vars => TableInv'
  BY TableStep
<1>3. TableInv => Linked
  BY TableInvLinked
<1> QED
  BY <1>1, <1>2, <1>3, PTL DEF Spec

----------------------------------------------------------------------------
(* Iteration.                                                              *)

\* The links from where the iterator stands on spell s: entries of its bucket
\* that it has not come by.
Ahead(t, i, s) ==
  /\ Path(t.he, i.p_next, s)
  /\ \A a \in ToSet(s) : /\ BucketOf(t, t.he[a].key) = i.i_curr_bucket
                         /\ t.he[a].key \notin i.seen

\* The entries the iterator has still to come by.
Still(t, i, d) ==
  \E s : Ahead(t, i, s)
         /\ d = ToSet(s) \cup {a \in DOMAIN t.he : BucketOf(t, t.he[a].key) > i.i_curr_bucket}

\* The inductive invariant of an iteration in progress: what it has given lies
\* behind it.
Iterating(t, i) ==
  /\ i.live = TRUE
  /\ i.i_curr_bucket \in 0..t.i_size - 1
  /\ i.seen \in SUBSET Keys
  /\ \A k \in i.seen : BucketOf(t, k) <= i.i_curr_bucket
  /\ \E s : Ahead(t, i, s)

\* A path is its first entry and the path from there.
LEMMA PathTail ==
  ASSUME NEW he, NEW a, NEW s, Path(he, a, s), a # Null
  PROVE  /\ a \in DOMAIN he /\ a \in ToSet(s)
         /\ \E r : Path(he, he[a].p_next, r) /\ ToSet(r) = ToSet(s) \ {a}
<1>1. /\ s \in Seq(DOMAIN he) /\ Len(s) \in Nat /\ DOMAIN s = 1..Len(s)
      /\ \A i, j \in 1..Len(s) : s[i] = s[j] => i = j
      /\ a = IF Len(s) = 0 THEN Null ELSE s[1]
      /\ \A i \in 1..Len(s) : he[s[i]].p_next = IF i = Len(s) THEN Null ELSE s[i + 1]
  BY DEF Path
<1>2. PICK j \in 1..Len(s) : j = 1
  <2>1. PICK n \in Nat : n = Len(s)
    BY <1>1
  <2>2. n # 0
    BY <1>1, <2>1
  <2>3. 1 \in 1..n
    BY <2>1, <2>2
  <2> QED
    BY <2>1, <2>3
<1>8. s[j] \in DOMAIN he
  <2>1. s \in Seq(DOMAIN he)
    BY <1>1
  <2>2. PICK i \in 1..Len(s) : i = j
    OBVIOUS
  <2>3. s[i] \in DOMAIN he
    BY <2>1
  <2> QED
    BY <2>2, <2>3
<1>3. a = s[j] /\ a \in DOMAIN he
  <2>1. Len(s) # 0
    BY <1>1
  <2>2. a = s[1]
    BY <1>1, <2>1
  <2> QED
    BY <1>2, <1>8, <2>2
<1>9. PICK n \in Nat : n = Len(s) /\ j \in 1..n
  BY <1>1
<1>4. ToSet(s) = {s[i] : i \in 1..Len(s)}
  BY <1>1, Zenon DEF ToSet
<1>5. a \in ToSet(s)
  BY <1>3, <1>4
<1>6. CASE Len(s) = 1
  <2>1. he[a].p_next = Null
    BY <1>1, <1>2, <1>3, <1>6
  <2>2. Path(he, Null, <<>>)
    BY DEF Path
  <2>3. ToSet(<<>>) = {}
    BY DEF ToSet
  <2>4. ToSet(s) = {a}
    BY <1>2, <1>3, <1>4, <1>6
  <2> QED
    BY <1>3, <1>5, <2>1, <2>2, <2>3, <2>4
<1>7. CASE Len(s) # 1
  <2>1. PICK m \in 1..Len(s) : m = 2
    <3>1. 2 \in 1..n
      BY <1>2, <1>7, <1>9
    <3> QED
      BY <1>9, <3>1
  <2>2. he[a].p_next = s[m]
    <3>1. j # Len(s) /\ j + 1 = m
      BY <1>2, <1>7, <2>1
    <3>2. he[s[j]].p_next = s[j + 1]
      BY <1>1, <1>2, <3>1
    <3> QED
      BY <1>3, <3>1, <3>2
  <2>3. PICK r : r = SubSeq(s, m, Len(s))
    OBVIOUS
  <2>4. Path(he, s[m], r) /\ ToSet(r) = {s[i] : i \in m..Len(s)}
    BY <2>3, PathFrom
  <2>5. ToSet(r) = ToSet(s) \ {a}
    <3>1. \A i \in 1..n : i = j \/ i \in m..n
      BY <1>2, <1>9, <2>1
    <3>4. \A i \in m..n : i \in 1..n /\ i # j
      BY <1>2, <1>9, <2>1
    <3>2. \A i \in m..Len(s) : i \in 1..Len(s) /\ i # j
      BY <1>9, <3>4
    <3>5. \A i \in 1..Len(s) : i = j \/ i \in m..Len(s)
      BY <1>9, <3>1
    <3>3. \A i \in m..Len(s) : s[i] # a
      BY <1>1, <1>3, <3>2
    <3> QED
      BY <1>3, <1>4, <2>4, <3>2, <3>3, <3>5
  <2> QED
    BY <1>3, <1>5, <2>2, <2>4, <2>5
<1> QED
  BY <1>6, <1>7

\* The iterator i, coming to entry a, gives its key for the first time and has
\* still to come by the other entries of d.
ComesTo(t, i, j, a, d) ==
  /\ a # Null /\ a \in d /\ a \in DOMAIN t.he
  /\ t.he[a].key \notin i.seen /\ j.seen = i.seen \cup {t.he[a].key}
  /\ Iterating(t, j) /\ Still(t, j, d \ {a})

\* From entry a of bucket l on lie the entries s, which the iterator has not
\* come by; with those of the buckets behind l they are d.
UpTo(t, i, l, a, s, d) ==
  /\ l \in 0..t.i_size - 1
  /\ a # Null
  /\ Path(t.he, a, s)
  /\ \A b \in ToSet(s) : BucketOf(t, t.he[b].key) = l /\ t.he[b].key \notin i.seen
  /\ i.seen \in SUBSET Keys
  /\ \A k \in i.seen : BucketOf(t, k) <= l
  /\ d = ToSet(s) \cup {b \in DOMAIN t.he : BucketOf(t, t.he[b].key) > l}

\* An iterator that comes to an entry of bucket l.
LEMMA AtIs ==
  ASSUME NEW t, WellLinked(t), NEW i, NEW l, NEW a, NEW s, NEW d, UpTo(t, i, l, a, s, d)
  PROVE  ComesTo(t, i, At(t, i, l, a), a, d)
<1> DEFINE j == At(t, i, l, a)
<1>11. /\ l \in 0..t.i_size - 1 /\ a # Null /\ Path(t.he, a, s)
       /\ \A b \in ToSet(s) : BucketOf(t, t.he[b].key) = l /\ t.he[b].key \notin i.seen
       /\ i.seen \in SUBSET Keys /\ \A k \in i.seen : BucketOf(t, k) <= l
       /\ d = ToSet(s) \cup {b \in DOMAIN t.he : BucketOf(t, t.he[b].key) > l}
  BY DEF UpTo
<1>1. a \in DOMAIN t.he /\ a \in ToSet(s) /\ a \in d
  BY <1>11, PathTail
<1>2. PICK r : Path(t.he, t.he[a].p_next, r) /\ ToSet(r) = ToSet(s) \ {a}
  BY <1>11, PathTail
<1>3. /\ j.live = TRUE /\ j.i_curr_bucket = l /\ j.p_next = t.he[a].p_next
      /\ j.seen = i.seen \cup {t.he[a].key}
  BY DEF At
<1> HIDE DEF j
<1>4. /\ Shaped(t) /\ Distinct(t) /\ t.he[a].key \in Keys
      /\ BucketOf(t, t.he[a].key) = l /\ t.he[a].key \notin i.seen
  BY <1>1, <1>11, EntryIs DEF WellLinked
<1>5. ToSet(r) \subseteq DOMAIN t.he
  <2>1. r \in Seq(DOMAIN t.he)
    BY <1>2 DEF Path
  <2> QED
    BY <2>1 DEF ToSet
<1>6. \A b \in ToSet(r) : t.he[b].key # t.he[a].key
  BY <1>1, <1>2, <1>4, <1>5 DEF Distinct
<1>7. Ahead(t, j, r)
  BY <1>2, <1>3, <1>6, <1>11 DEF Ahead
<1>8. d \ {a} = ToSet(r) \cup {b \in DOMAIN t.he : BucketOf(t, t.he[b].key) > l}
  <2>1. ~(BucketOf(t, t.he[a].key) > l)
    BY <1>4, <1>11
  <2> QED
    BY <1>2, <1>11, <2>1
<1>9. Still(t, j, d \ {a})
  BY <1>3, <1>7, <1>8 DEF Still
<1>10. Iterating(t, j)
  BY <1>3, <1>4, <1>7, <1>11 DEF Iterating
<1> QED
  BY <1>1, <1>3, <1>4, <1>9, <1>10, <1>11 DEF ComesTo, j

\* The first bucket from l on that has an entry.
LEMMA NonEmptyIs ==
  ASSUME NEW t, WellLinked(t), NEW l \in Nat, NEW b, b = NonEmpty(t, l)
  PROVE  \/ /\ b = t.i_size
            /\ \A a \in DOMAIN t.he : BucketOf(t, t.he[a].key) < l
         \/ /\ b \in l..t.i_size - 1 /\ b # t.i_size /\ t.pp_entries[b] # Null
            /\ \A a \in DOMAIN t.he :
                 BucketOf(t, t.he[a].key) >= l => BucketOf(t, t.he[a].key) >= b
<1> DEFINE full == {m \in l..t.i_size - 1 : t.pp_entries[m] # Null}
<1>1. t.i_size \in Nat \ {0} /\ Shaped(t)
  BY DEF WellLinked, Shaped
<1>2. ASSUME NEW a \in DOMAIN t.he, BucketOf(t, t.he[a].key) >= l
      PROVE  BucketOf(t, t.he[a].key) \in full
  <2>1. PICK m \in 0..t.i_size - 1 : m = BucketOf(t, t.he[a].key)
    BY <1>1, EntryIs
  <2>2. PICK s : Spells(t, m, s)
    BY BucketSpells
  <2>3. PICK j \in 1..Len(s) : a = s[j]
    BY <2>1, <2>2 DEF Spells
  <2>4. Len(s) # 0 /\ 1 \in 1..Len(s)
    <3>1. PICK n \in Nat : n = Len(s) /\ j \in 1..n
      BY <2>2, <2>3 DEF Spells
    <3>2. n # 0 /\ 1 \in 1..n
      BY <3>1
    <3> QED
      BY <3>1, <3>2
  <2>5. t.pp_entries[m] # Null
    BY <2>2, <2>4 DEF Spells
  <2> QED
    BY <1>1, <1>2, <2>1, <2>5
<1>3. full \in SUBSET Nat /\ \A m \in full : m # t.i_size
  BY <1>1
<1>4. NonEmpty(t, l) = IF full = {} THEN t.i_size ELSE CHOOSE m \in full : \A c \in full : m <= c
  BY DEF NonEmpty
<1>5. \A a \in DOMAIN t.he : BucketOf(t, t.he[a].key) \in Nat
  BY <1>1, EntryIs
<1>6. CASE full = {}
  <2>1. \A a \in DOMAIN t.he : ~(BucketOf(t, t.he[a].key) >= l)
    BY <1>2, <1>6
  <2> HIDE DEF full
  <2> QED
    BY <1>4, <1>5, <1>6, <2>1
<1>7. CASE full # {}
  <2>1. b \in full /\ \A c \in full : b <= c
    <3> HIDE DEF full
    <3>1. \E m \in full : \A c \in full : m <= c
      BY <1>3, <1>7, LeastNumber
    <3> QED
      BY <1>4, <1>7, <3>1
  <2>2. \A a \in DOMAIN t.he :
          BucketOf(t, t.he[a].key) >= l => b <= BucketOf(t, t.he[a].key)
    BY <1>2, <2>1
  <2> QED
    BY <1>3, <1>5, <2>1, <2>2
<1> QED
  BY <1>6, <1>7

\* An iterator that goes on in the buckets from l on.
LEMMA FromBucketIs ==
  ASSUME NEW t, WellLinked(t), NEW i, NEW l \in Nat,
         i.seen \in SUBSET Keys, \A k \in i.seen : BucketOf(t, k) < l,
         NEW d, d = {a \in DOMAIN t.he : BucketOf(t, t.he[a].key) >= l}
  PROVE  \/ d = {} /\ FirstEntry(t, l) = Null /\ FromBucket(t, i, l) = NoIterator
         \/ ComesTo(t, i, FromBucket(t, i, l), FirstEntry(t, l), d)
<1>1. PICK b : b = NonEmpty(t, l)
  OBVIOUS
<1>2. /\ Shaped(t) /\ t.i_size \in Nat
      /\ \A a \in DOMAIN t.he : BucketOf(t, t.he[a].key) \in Nat
      /\ \A k \in Keys : BucketOf(t, k) \in Nat
  BY EntryIs, BucketRange DEF WellLinked, Shaped
<1>3. CASE b = t.i_size /\ \A a \in DOMAIN t.he : BucketOf(t, t.he[a].key) < l
  <2>1. d = {}
    BY <1>2, <1>3
  <2> QED
    BY <1>1, <1>3, <2>1 DEF FirstEntry, FromBucket
<1>4. CASE /\ b \in l..t.i_size - 1 /\ b # t.i_size /\ t.pp_entries[b] # Null
           /\ \A a \in DOMAIN t.he :
                BucketOf(t, t.he[a].key) >= l => BucketOf(t, t.he[a].key) >= b
  <2>1. PICK a : a = t.pp_entries[b]
    OBVIOUS
  <2>2. FirstEntry(t, l) = a /\ FromBucket(t, i, l) = At(t, i, b, a)
    BY <1>1, <1>4, <2>1 DEF FirstEntry, FromBucket
  <2>3. PICK s : s = Bucket(t, b)
    OBVIOUS
  <2>4. b \in 0..t.i_size - 1 /\ b \in Nat /\ b >= l
    BY <1>2, <1>4
  <2>5. Path(t.he, a, s) /\ ToSet(s) = {x \in DOMAIN t.he : BucketOf(t, t.he[x].key) = b}
    BY <2>1, <2>3, <2>4 DEF WellLinked, Holds
  <2>6. \A k \in i.seen : BucketOf(t, k) <= b /\ BucketOf(t, k) # b
    BY <1>2, <2>4
  <2>7. \A x \in ToSet(s) : BucketOf(t, t.he[x].key) = b /\ t.he[x].key \notin i.seen
    BY <2>5, <2>6
  <2>8. d = ToSet(s) \cup {x \in DOMAIN t.he : BucketOf(t, t.he[x].key) > b}
    <3>1. \A x \in DOMAIN t.he : BucketOf(t, t.he[x].key) >= l <=>
            BucketOf(t, t.he[x].key) = b \/ BucketOf(t, t.he[x].key) > b
      BY <1>2, <1>4, <2>4
    <3> QED
      BY <2>5, <3>1
  <2>9. i.seen \in SUBSET Keys
    OBVIOUS
  <2>10. UpTo(t, i, b, a, s, d)
    BY <1>4, <2>1, <2>4, <2>5, <2>6, <2>7, <2>8, <2>9 DEF UpTo
  <2> QED
    BY <2>2, <2>10, AtIs
<1> QED
  BY <1>1, <1>3, <1>4, NonEmptyIs

\* ght_first.
LEMMA FirstIs ==
  ASSUME NEW t, WellLinked(t)
  PROVE  \/ DOMAIN t.he = {} /\ FirstEntry(t, 0) = Null /\ ght_first(t) = NoIterator
         \/ ComesTo(t, NoIterator, ght_first(t), FirstEntry(t, 0), DOMAIN t.he)
<1>1. PICK i, d : i = NoIterator /\ d = DOMAIN t.he
  OBVIOUS
<1>2. i.seen \in SUBSET Keys /\ \A k \in i.seen : BucketOf(t, k) < 0
  BY <1>1 DEF NoIterator
<1>3. d = {a \in DOMAIN t.he : BucketOf(t, t.he[a].key) >= 0}
  BY <1>1, EntryIs DEF WellLinked
<1>4. \/ d = {} /\ FirstEntry(t, 0) = Null /\ FromBucket(t, i, 0) = NoIterator
      \/ ComesTo(t, i, FromBucket(t, i, 0), FirstEntry(t, 0), d)
  BY <1>2, <1>3, FromBucketIs
<1> QED
  BY <1>1, <1>4 DEF ght_first

\* ght_next.
LEMMA NextIs ==
  ASSUME NEW t, WellLinked(t), NEW i, Iterating(t, i), NEW d, Still(t, i, d)
  PROVE  \/ d = {} /\ NextEntry(t, i) = Null /\ ght_next(t, i) = NoIterator
         \/ ComesTo(t, i, ght_next(t, i), NextEntry(t, i), d)
<1>1. PICK s : /\ Ahead(t, i, s)
               /\ d = ToSet(s) \cup {a \in DOMAIN t.he :
                                      BucketOf(t, t.he[a].key) > i.i_curr_bucket}
  BY DEF Still
<1>2. PICK l \in 0..t.i_size - 1 : l = i.i_curr_bucket
  BY DEF Iterating
<1>3. /\ i.seen \in SUBSET Keys /\ \A k \in i.seen : BucketOf(t, k) <= l
      /\ Path(t.he, i.p_next, s)
      /\ \A a \in ToSet(s) : BucketOf(t, t.he[a].key) = l /\ t.he[a].key \notin i.seen
  BY <1>1, <1>2 DEF Iterating, Ahead
<1>4. /\ t.i_size \in Nat /\ \A k \in Keys : BucketOf(t, k) \in Nat
      /\ \A a \in DOMAIN t.he : BucketOf(t, t.he[a].key) \in Nat
  BY EntryIs, BucketRange DEF WellLinked, Shaped
<1>5. CASE i.p_next # Null
  <2>1. PICK a : a = i.p_next
    OBVIOUS
  <2>2. ght_next(t, i) = At(t, i, l, a) /\ NextEntry(t, i) = a
    BY <1>2, <1>5, <2>1 DEF ght_next, NextEntry
  <2>3. d = ToSet(s) \cup {b \in DOMAIN t.he : BucketOf(t, t.he[b].key) > l}
    BY <1>1, <1>2
  <2>4. UpTo(t, i, l, a, s, d)
    BY <1>3, <1>5, <2>1, <2>3 DEF UpTo
  <2> QED
    BY <2>2, <2>4, AtIs
<1>6. CASE i.p_next = Null
  <2>1. ToSet(s) = {}
    <3>1. Len(s) = 0 /\ s \in Seq(DOMAIN t.he)
      <4>1. ASSUME Len(s) # 0 PROVE FALSE
        <5>1. /\ s \in Seq(DOMAIN t.he) /\ Len(s) \in Nat /\ s[1] = Null
          BY <1>3, <1>6, <4>1 DEF Path
        <5>2. PICK m \in Nat : m = Len(s)
          BY <5>1
        <5>3. 1 \in 1..m
          BY <4>1, <5>2
        <5>4. PICK one \in 1..Len(s) : one = 1
          BY <5>2, <5>3
        <5>5. s[one] \in DOMAIN t.he
          BY <5>1
        <5> QED
          BY <5>1, <5>4, <5>5, EntryIs DEF WellLinked
      <4> QED
        BY <1>3, <4>1 DEF Path
    <3> QED
      BY <3>1 DEF ToSet
  <2>2. PICK m \in Nat : m = l + 1
    OBVIOUS
  <2>3. \A k \in i.seen : BucketOf(t, k) < m
    BY <1>3, <1>4, <2>2
  <2>4. d = {a \in DOMAIN t.he : BucketOf(t, t.he[a].key) >= m}
    <3>1. \A a \in DOMAIN t.he :
            BucketOf(t, t.he[a].key) >= m <=> BucketOf(t, t.he[a].key) > l
      BY <1>4, <2>2
    <3> QED
      BY <1>1, <1>2, <2>1, <3>1
  <2>5. \/ d = {} /\ FirstEntry(t, m) = Null /\ FromBucket(t, i, m) = NoIterator
        \/ ComesTo(t, i, FromBucket(t, i, m), FirstEntry(t, m), d)
    BY <1>3, <2>3, <2>4, FromBucketIs
  <2>6. ght_next(t, i) = FromBucket(t, i, m) /\ NextEntry(t, i) = FirstEntry(t, m)
    BY <1>2, <1>6, <2>2 DEF ght_next, NextEntry
  <2> QED
    BY <2>5, <2>6
<1> QED
  BY <1>5, <1>6

\* The entries s are in u as they are in t.
SameLinksOf(t, u, s) ==
  /\ u.i_size = t.i_size
  /\ \A a \in ToSet(s) :
       /\ a \in DOMAIN u.he
       /\ u.he[a].key = t.he[a].key /\ u.he[a].p_next = t.he[a].p_next

\* An iteration goes on as long as what lies ahead of it in its bucket stays.
LEMMA IterKept ==
  ASSUME NEW t, NEW u, NEW i, Iterating(t, i), NEW s, Ahead(t, i, s), SameLinksOf(t, u, s)
  PROVE  Iterating(u, i) /\ Ahead(u, i, s)
<1>1. /\ s \in Seq(DOMAIN t.he) /\ Len(s) \in Nat
      /\ \A m, n \in 1..Len(s) : s[m] = s[n] => m = n
      /\ i.p_next = IF Len(s) = 0 THEN Null ELSE s[1]
      /\ \A m \in 1..Len(s) : t.he[s[m]].p_next = IF m = Len(s) THEN Null ELSE s[m + 1]
      /\ \A a \in ToSet(s) : /\ BucketOf(t, t.he[a].key) = i.i_curr_bucket
                             /\ t.he[a].key \notin i.seen
  BY DEF Ahead, Path
<1>2. /\ u.i_size = t.i_size
      /\ \A a \in ToSet(s) : a \in DOMAIN u.he /\ u.he[a].key = t.he[a].key
                             /\ u.he[a].p_next = t.he[a].p_next
  BY DEF SameLinksOf
<1>3. \A k : BucketOf(u, k) = BucketOf(t, k)
  BY <1>2 DEF BucketOf
<1>4. \A m \in 1..Len(s) : s[m] \in ToSet(s)
  <2>1. DOMAIN s = 1..Len(s)
    BY <1>1
  <2> QED
    BY <2>1, Zenon DEF ToSet
<1>5. s \in Seq(DOMAIN u.he)
  <2>1. PICK n \in Nat : n = Len(s)
    BY <1>1
  <2>2. s \in [1..n -> DOMAIN u.he]
    <3>1. s = [m \in 1..n |-> s[m]]
      BY <1>1, <2>1
    <3>2. \A m \in 1..n : s[m] \in DOMAIN u.he
      BY <1>2, <1>4, <2>1
    <3> QED
      BY <3>1, <3>2
  <2> QED
    BY <2>2, FunctionIsSeq
<1>6. \A m \in 1..Len(s) : u.he[s[m]].p_next = IF m = Len(s) THEN Null ELSE s[m + 1]
  BY <1>1, <1>2, <1>4
<1>7. Path(u.he, i.p_next, s)
  BY <1>1, <1>5, <1>6 DEF Path
<1>8. Ahead(u, i, s)
  BY <1>1, <1>2, <1>3, <1>7 DEF Ahead
<1>9. Iterating(u, i)
  BY <1>2, <1>3, <1>8 DEF Iterating
<1> QED
  BY <1>8, <1>9

KeysKept(t, u, d) == \A a \in d : u.he[a].key = t.he[a].key

\* During an iteration a new entry becomes the first of its bucket: it is
\* behind the iterator or in a bucket that it has still to come to.
LEMMA InsertKeeps ==
  ASSUME NEW t, WellLinked(t), NEW a \in Address \ DOMAIN t.he, NEW k \in Keys,
         NEW v \in Values, \A b \in DOMAIN t.he : t.he[b].key # k,
         NEW u, u = PlaceFirst(t, BucketOf(t, k), a, k, v),
         NEW i, Iterating(t, i), NEW d, Still(t, i, d)
  PROVE  Iterating(u, i) /\ (Still(u, i, d) \/ Still(u, i, d \cup {a})) /\ KeysKept(t, u, d)
<1>1. PICK s : /\ Ahead(t, i, s)
               /\ d = ToSet(s) \cup {b \in DOMAIN t.he :
                                      BucketOf(t, t.he[b].key) > i.i_curr_bucket}
  BY DEF Still
<1>2. /\ u.i_size = t.i_size /\ DOMAIN u.he = DOMAIN t.he \cup {a} /\ u.he[a].key = k
      /\ \A b \in DOMAIN t.he :
           u.he[b].key = t.he[b].key /\ u.he[b].p_next = t.he[b].p_next
  BY PlaceFirstIs
<1>3. ToSet(s) \subseteq DOMAIN t.he
  <2>1. s \in Seq(DOMAIN t.he)
    BY <1>1 DEF Ahead, Path
  <2> QED
    BY <2>1 DEF ToSet
<1>4. SameLinksOf(t, u, s)
  BY <1>2, <1>3 DEF SameLinksOf
<1>5. Iterating(u, i) /\ Ahead(u, i, s)
  BY <1>1, <1>4, IterKept
<1>6. \A x : BucketOf(u, x) = BucketOf(t, x)
  BY <1>2 DEF BucketOf
<1>9. KeysKept(t, u, d)
  BY <1>1, <1>2, <1>3 DEF KeysKept
<1>7. CASE BucketOf(t, k) > i.i_curr_bucket
  <2>1. d \cup {a} = ToSet(s) \cup {b \in DOMAIN u.he :
                                     BucketOf(u, u.he[b].key) > i.i_curr_bucket}
    BY <1>1, <1>2, <1>6, <1>7
  <2>2. Still(u, i, d \cup {a})
    BY <1>5, <2>1, Zenon DEF Still
  <2> QED
    BY <1>5, <1>9, <2>2
<1>8. CASE ~(BucketOf(t, k) > i.i_curr_bucket)
  <2>1. d = ToSet(s) \cup {b \in DOMAIN u.he : BucketOf(u, u.he[b].key) > i.i_curr_bucket}
    BY <1>1, <1>2, <1>6, <1>8
  <2>2. Still(u, i, d)
    BY <1>5, <2>1, Zenon DEF Still
  <2> QED
    BY <1>5, <1>9, <2>2
<1> QED
  BY <1>7, <1>8

\* During an iteration an entry that it has given is removed.
LEMMA RemoveKeeps ==
  ASSUME NEW t, WellLinked(t), NEW e \in DOMAIN t.he, NEW u, Without(t, u, e),
         NEW i, Iterating(t, i), t.he[e].key \in i.seen, NEW d, Still(t, i, d)
  PROVE  Iterating(u, i) /\ Still(u, i, d) /\ e \notin d /\ KeysKept(t, u, d)
<1>1. PICK s : /\ Ahead(t, i, s)
               /\ d = ToSet(s) \cup {b \in DOMAIN t.he :
                                      BucketOf(t, t.he[b].key) > i.i_curr_bucket}
  BY DEF Still
<1>2. /\ u.i_size = t.i_size /\ DOMAIN u.he = DOMAIN t.he \ {e}
      /\ \A b \in DOMAIN u.he :
           u.he[b].key = t.he[b].key
           /\ (t.he[b].p_next # e => u.he[b].p_next = t.he[b].p_next)
  BY DEF Without
<1>3. /\ s \in Seq(DOMAIN t.he) /\ Len(s) \in Nat /\ DOMAIN s = 1..Len(s)
      /\ \A m \in 1..Len(s) : t.he[s[m]].p_next = IF m = Len(s) THEN Null ELSE s[m + 1]
      /\ \A a \in ToSet(s) : t.he[a].key \notin i.seen
  BY <1>1 DEF Ahead, Path
<1>4. ToSet(s) \subseteq DOMAIN t.he /\ ToSet(s) = {s[m] : m \in 1..Len(s)}
  <2>1. ToSet(s) = {s[m] : m \in 1..Len(s)}
    BY <1>3, Zenon DEF ToSet
  <2>2. \A m \in 1..Len(s) : s[m] \in DOMAIN t.he
    <3>1. s \in Seq(DOMAIN t.he)
      BY <1>3
    <3> QED
      BY <3>1
  <2> QED
    BY <2>1, <2>2
<1>5. e \notin ToSet(s) /\ e # Null
  BY <1>3, EntryIs DEF WellLinked
<1>6. ASSUME NEW m \in 1..Len(s) PROVE t.he[s[m]].p_next # e
  <2>1. CASE m = Len(s)
    BY <1>3, <1>5, <2>1
  <2>2. CASE m # Len(s)
    <3>1. PICK n \in 1..Len(s) : n = m + 1
      <4>1. PICK z \in Nat : z = Len(s)
        BY <1>3
      <4>2. m + 1 \in 1..z
        BY <2>2, <4>1
      <4> QED
        BY <4>1, <4>2
    <3>2. t.he[s[m]].p_next = s[n]
      BY <1>3, <2>2, <3>1
    <3> QED
      BY <1>4, <1>5, <3>2
  <2> QED
    BY <2>1, <2>2
<1>7. SameLinksOf(t, u, s)
  <2>1. \A a \in ToSet(s) : t.he[a].p_next # e
    BY <1>4, <1>6
  <2> QED
    BY <1>2, <1>4, <1>5, <2>1 DEF SameLinksOf
<1>8. Iterating(u, i) /\ Ahead(u, i, s)
  BY <1>1, <1>7, IterKept
<1>9. \A x : BucketOf(u, x) = BucketOf(t, x)
  BY <1>2 DEF BucketOf
<1>10. ~(BucketOf(t, t.he[e].key) > i.i_curr_bucket)
  <2>1. PICK k \in Keys : k = t.he[e].key
    BY EntryIs DEF WellLinked
  <2>2. BucketOf(t, k) \in Nat /\ i.i_curr_bucket \in Nat /\ BucketOf(t, k) <= i.i_curr_bucket
    BY <2>1, BucketRange DEF WellLinked, Shaped, Iterating
  <2> QED
    BY <2>1, <2>2
<1>11. d = ToSet(s) \cup {b \in DOMAIN u.he : BucketOf(u, u.he[b].key) > i.i_curr_bucket}
  BY <1>1, <1>2, <1>9, <1>10
<1>12. e \notin d
  BY <1>1, <1>5, <1>10
<1>13. KeysKept(t, u, d)
  BY <1>1, <1>2, <1>4, <1>12 DEF KeysKept
<1> QED
  BY <1>8, <1>11, <1>12, <1>13 DEF Still

\* During an iteration nothing is changed that it depends on.
LEMMA LinksKeep ==
  ASSUME NEW t, WellLinked(t), NEW u, u.i_size = t.i_size, DOMAIN u.he = DOMAIN t.he,
         \A a \in DOMAIN t.he : u.he[a].key = t.he[a].key /\ u.he[a].p_next = t.he[a].p_next,
         NEW i, Iterating(t, i), NEW d, Still(t, i, d)
  PROVE  Iterating(u, i) /\ Still(u, i, d) /\ KeysKept(t, u, d)
<1>1. PICK s : /\ Ahead(t, i, s)
               /\ d = ToSet(s) \cup {b \in DOMAIN t.he :
                                      BucketOf(t, t.he[b].key) > i.i_curr_bucket}
  BY DEF Still
<1>2. ToSet(s) \subseteq DOMAIN t.he
  <2>1. s \in Seq(DOMAIN t.he)
    BY <1>1 DEF Ahead, Path
  <2> QED
    BY <2>1 DEF ToSet
<1>3. SameLinksOf(t, u, s)
  BY <1>2 DEF SameLinksOf
<1>4. Iterating(u, i) /\ Ahead(u, i, s)
  BY <1>1, <1>3, IterKept
<1>5. \A x : BucketOf(u, x) = BucketOf(t, x)
  BY DEF BucketOf
<1>6. d = ToSet(s) \cup {b \in DOMAIN u.he : BucketOf(u, u.he[b].key) > i.i_curr_bucket}
  BY <1>1, <1>5
<1>7. KeysKept(t, u, d)
  BY <1>1, <1>2 DEF KeysKept
<1> QED
  BY <1>4, <1>6, <1>7 DEF Still

\* The inductive invariant of the iterator.
IterInv ==
  \/ it = NoIterator
  \/ Exists /\ Iterating(ht, it)

\* What the caller takes care of.
AllRules == {"manual_rehash", "safe_removal", "no_reordering"} \subseteq TableRules

\* What is inserted during an iteration comes behind the iterator or before it.
LEMMA InsertStays ==
  ASSUME TableInv, NEW d, it.live = TRUE, Exists, Iterating(ht, it), Still(ht, it, d),
         NEW k \in Keys, NEW v \in Values, Insert(k, v)
  PROVE  /\ Exists' /\ it' = it /\ Iterating(ht', it) /\ KeysKept(ht, ht', d)
         /\ \/ Still(ht', it, d)
            \/ \E a \in DOMAIN ht'.he : ht'.he[a].key = k /\ Still(ht', it, d \cup {a})
<1>1. WellLinked(ht) /\ ht.i_automatic_rehash = FALSE
  BY DEF TableInv
<1>2. ht' = ght_insert(ht, k, v) /\ it' = it
  BY DEF Insert
<1>3. CASE ght_insert(ht, k, v) = ht
  BY <1>2, <1>3 DEF Exists, KeysKept
<1>4. CASE Placed(ht, ght_insert(ht, k, v), k, v)
  <2>1. /\ \A b \in DOMAIN ht.he : ht.he[b].key # k
        /\ \E a \in Address \ DOMAIN ht.he : ht' = PlaceFirst(ht, BucketOf(ht, k), a, k, v)
    BY <1>2, <1>4 DEF Placed
  <2>2. PICK a \in Address \ DOMAIN ht.he : ht' = PlaceFirst(ht, BucketOf(ht, k), a, k, v)
    BY <2>1
  <2>3. /\ Iterating(ht', it) /\ KeysKept(ht, ht', d)
        /\ Still(ht', it, d) \/ Still(ht', it, d \cup {a})
    BY <1>1, <2>1, <2>2, InsertKeeps
  <2>4. ht'.i_size = ht.i_size /\ a \in DOMAIN ht'.he /\ ht'.he[a].key = k
    BY <1>1, <2>1, <2>2, PlaceFirstIs
  <2> QED
    BY <1>2, <2>3, <2>4 DEF Exists
<1> QED
  BY <1>1, <1>3, <1>4, InsertIs

\* The calls about one key that insert nothing.
KeyCall(k) ==
  InsertFails(k) \/ (\E v \in Values : Replace(k, v)) \/ Get(k) \/ RemoveKey(k)

\* These leave what the iterator has still to come by.
LEMMA StaysIterating ==
  ASSUME AllRules, TableInv, it.live = TRUE, Exists, Iterating(ht, it),
         NEW d, Still(ht, it, d), NEW k \in Keys, KeyCall(k)
  PROVE  /\ Exists' /\ it' = it /\ Iterating(ht', it) /\ Still(ht', it, d)
         /\ KeysKept(ht, ht', d)
<1>1. WellLinked(ht) /\ ht.i_automatic_rehash = FALSE
  BY DEF TableInv
<1>2. CASE ht' = ht /\ it' = it
  BY <1>2 DEF Exists, KeysKept
<1>4. CASE InsertFails(k)
  BY <1>2, <1>4 DEF InsertFails
<1>5. ASSUME NEW v \in Values, Replace(k, v)
      PROVE  /\ Exists' /\ it' = it /\ Iterating(ht', it) /\ Still(ht', it, d)
             /\ KeysKept(ht, ht', d)
  <2>1. ht' = ght_replace(ht, k, v) /\ it' = it /\ ht.i_heuristics = "none"
    BY <1>5 DEF Replace, LookUp, Rule, AllRules
  <2>2. PICK e : e = Search(ht, BucketOf(ht, k), k)
    OBVIOUS
  <2>3. CASE e = Null
    <3>1. ht' = ht
      BY <1>1, <2>1, <2>2, <2>3, ReplaceIs
    <3> QED
      BY <1>2, <2>1, <3>1
  <2>4. CASE e # Null
    <3>1. /\ OtherData(ht, ht', e, v)
          /\ \A a \in DOMAIN ht.he : ht'.he[a].p_next = ht.he[a].p_next
      BY <1>1, <2>1, <2>2, <2>4, ReplaceIs
    <3>2. /\ ht'.i_size = ht.i_size /\ DOMAIN ht'.he = DOMAIN ht.he
          /\ \A a \in DOMAIN ht.he : ht'.he[a].key = ht.he[a].key
                                    /\ ht'.he[a].p_next = ht.he[a].p_next
      BY <3>1 DEF OtherData
    <3>3. Iterating(ht', it) /\ Still(ht', it, d) /\ KeysKept(ht, ht', d)
      BY <1>1, <3>2, LinksKeep
    <3> QED
      BY <2>1, <3>2, <3>3 DEF Exists
  <2> QED
    BY <2>3, <2>4
<1>6. CASE Get(k)
  <2>1. ht' = ght_get(ht, k) /\ it' = it /\ ht.i_heuristics = "none"
    BY <1>6 DEF Get, LookUp, Rule, AllRules
  <2>2. ht' = ht
    BY <1>1, <2>1, GetIs
  <2> QED
    BY <1>2, <2>1, <2>2
<1>7. CASE RemoveKey(k)
  <2>1. ht' = ght_remove(ht, k) /\ it' = it /\ k \in it.seen
    BY <1>7 DEF RemoveKey, Rule, AllRules
  <2>2. PICK e : e = Search(ht, BucketOf(ht, k), k)
    OBVIOUS
  <2>3. CASE e = Null
    <3>1. ht' = ht
      BY <2>1, <2>2, <2>3 DEF ght_remove
    <3> QED
      BY <1>2, <2>1, <3>1
  <2>4. CASE e # Null
    <3>1. Without(ht, ht', e)
      BY <1>1, <2>1, <2>2, <2>4, RemoveIs
    <3>2. e \in DOMAIN ht.he /\ ht.he[e].key \in it.seen
      BY <1>1, <2>1, <2>2, <2>4, SearchIs
    <3>3. Iterating(ht', it) /\ Still(ht', it, d) /\ KeysKept(ht, ht', d)
      BY <1>1, <3>1, <3>2, RemoveKeeps
    <3> QED
      BY <2>1, <3>1, <3>3 DEF Without, Exists
  <2> QED
    BY <2>3, <2>4
<1> QED
  BY <1>4, <1>5, <1>6, <1>7 DEF KeyCall

LEMMA IterStep ==
  ASSUME AllRules, TableInv, TableInv', IterInv, [Next]_vars
  PROVE  IterInv'
<1>1. CASE UNCHANGED vars
  BY <1>1 DEF vars, IterInv, Exists
<1>2. CASE it' = NoIterator
  BY <1>2 DEF IterInv
<1>3. CASE it = NoIterator /\ it' = it
  BY <1>2, <1>3
<1>4. ASSUME NEW k \in Keys, KeyCall(k) \/ \E v \in Values : Insert(k, v)
      PROVE  IterInv'
  <2>1. it' = it
    BY <1>4 DEF KeyCall, Insert, InsertFails, Replace, Get, RemoveKey
  <2>2. CASE Exists /\ Iterating(ht, it)
    <3>1. it.live = TRUE /\ \E d : Still(ht, it, d)
      BY <2>2 DEF Iterating, Still
    <3>2. Exists' /\ Iterating(ht', it)
      BY <1>4, <2>2, <3>1, StaysIterating, InsertStays
    <3> QED
      BY <2>1, <3>2 DEF IterInv
  <2> QED
    BY <1>3, <2>1, <2>2 DEF IterInv
<1>5. ASSUME NEW n \in Sizes, Create(n) PROVE IterInv'
  <2>1. ~Exists /\ it' = it
    BY <1>5 DEF Create
  <2> QED
    BY <1>3, <2>1 DEF IterInv
<1>6. ASSUME NEW n \in Sizes, Rehash(n) PROVE IterInv'
  BY <1>2, <1>6 DEF Rehash
<1>7. ASSUME First PROVE IterInv'
  <2>1. Exists /\ ht' = ht /\ it' = ght_first(ht)
    BY <1>7 DEF First
  <2>2. WellLinked(ht)
    BY <2>1 DEF TableInv
  <2>3. it' = NoIterator \/ Iterating(ht, it')
    BY <2>1, <2>2, FirstIs DEF ComesTo
  <2> QED
    BY <2>1, <2>3 DEF IterInv, Exists
<1>8. ASSUME Following PROVE IterInv'
  <2>1. it.live /\ ht' = ht /\ it' = ght_next(ht, it)
    BY <1>8 DEF Following
  <2>2. Exists /\ Iterating(ht, it) /\ WellLinked(ht)
    BY <2>1 DEF IterInv, TableInv, NoIterator
  <2>3. PICK d : Still(ht, it, d)
    BY <2>2 DEF Iterating, Still
  <2>4. it' = NoIterator \/ Iterating(ht, it')
    BY <2>1, <2>2, <2>3, NextIs DEF ComesTo
  <2> QED
    BY <2>1, <2>2, <2>4 DEF IterInv, Exists
<1>9. ASSUME NEW u, ht' = u, it' = it, u.i_size = ht.i_size, u.he = ht.he, Exists
      PROVE  IterInv'
  <2>1. CASE Iterating(ht, it)
    <3>1. PICK d : Still(ht, it, d)
      BY <2>1 DEF Iterating, Still
    <3>2. WellLinked(ht)
      BY <1>9 DEF TableInv
    <3>3. Iterating(u, it)
      BY <1>9, <2>1, <3>1, <3>2, LinksKeep
    <3> QED
      BY <1>9, <3>3 DEF IterInv, Exists
  <2> QED
    BY <1>3, <1>9, <2>1 DEF IterInv
<1>10. ASSUME NEW h \in Heuristics, SetHeuristics(h) PROVE IterInv'
  <2>1. Exists /\ ht' = [ht EXCEPT !.i_heuristics = h] /\ it' = it
    BY <1>10 DEF SetHeuristics
  <2>2. Shaped(ht)
    BY <2>1 DEF TableInv, WellLinked
  <2>3. ht'.i_size = ht.i_size /\ ht'.he = ht.he
    BY <2>1, <2>2 DEF Shaped
  <2> QED
    BY <1>9, <2>1, <2>3
<1>11. ASSUME NEW b \in BOOLEAN, SetRehash(b) PROVE IterInv'
  <2>1. Exists /\ ht' = [ht EXCEPT !.i_automatic_rehash = b] /\ it' = it
    BY <1>11 DEF SetRehash
  <2>2. Shaped(ht)
    BY <2>1 DEF TableInv, WellLinked
  <2>3. ht'.i_size = ht.i_size /\ ht'.he = ht.he
    BY <2>1, <2>2 DEF Shaped
  <2> QED
    BY <1>9, <2>1, <2>3
<1>12. ASSUME Destroy PROVE IterInv'
  BY <1>2, <1>12 DEF Destroy
<1> QED
  BY <1>1, <1>4, <1>5, <1>6, <1>7, <1>8, <1>10, <1>11, <1>12 DEF Next, KeyCall

\* An iteration gives no key twice, in a table of any size with chains of any
\* length, whatever is inserted meanwhile and if what it has given is removed and
\* perhaps inserted again.
THEOREM NeverTwice ==
  ASSUME AllRules
  PROVE  Spec => NoKeyTwice
<1>1. Init => TableInv /\ IterInv
  BY TableInit DEF Init, IterInv
<1>2. TableInv /\ IterInv /\ [Next]_vars => (TableInv /\ IterInv)'
  <2>1. "manual_rehash" \in TableRules
    BY DEF AllRules
  <2> QED
    BY <2>1, TableStep, IterStep
<1>3. TableInv /\ IterInv /\ [Next]_vars => [Following /\ it'.live => it'.seen # it.seen]_vars
  <2> SUFFICES ASSUME TableInv, IterInv, Following, it'.live PROVE it'.seen # it.seen
    OBVIOUS
  <2>1. it.live /\ it' = ght_next(ht, it)
    BY DEF Following
  <2>2. Exists /\ Iterating(ht, it) /\ WellLinked(ht)
    BY <2>1 DEF IterInv, TableInv, NoIterator
  <2>3. PICK d : Still(ht, it, d)
    BY <2>2 DEF Iterating, Still
  <2>4. it' # NoIterator
    BY DEF NoIterator
  <2>5. ComesTo(ht, it, it', NextEntry(ht, it), d)
    BY <2>1, <2>2, <2>3, <2>4, NextIs
  <2> QED
    BY <2>5 DEF ComesTo
<1> QED
  BY <1>1, <1>2, <1>3, PTL DEF Spec, NoKeyTwice

----------------------------------------------------------------------------
(* The table implements the map.                                           *)

\* m is the map of the keys of t to their data.
MapsTo(t, m) ==
  /\ m = [k \in DOMAIN m |-> m[k]]
  /\ DOMAIN m = {t.he[a].key : a \in DOMAIN t.he}
  /\ \A a \in DOMAIN t.he : m[t.he[a].key] = t.he[a].data

\* Every entry lies in a chain.
LEMMA ReachedIs ==
  ASSUME NEW t, WellLinked(t)
  PROVE  Reached(t) = DOMAIN t.he
<1>1. DOMAIN t.pp_entries = 0..t.i_size - 1
  BY DEF WellLinked, Shaped
<1>2. \A l \in 0..t.i_size - 1 : InChain(t, l) = {a \in DOMAIN t.he : BucketOf(t, t.he[a].key) = l}
  BY DEF WellLinked, Holds, InChain
<1>3. \A a \in DOMAIN t.he : BucketOf(t, t.he[a].key) \in 0..t.i_size - 1
  BY EntryIs DEF WellLinked
<1> QED
  BY <1>1, <1>2, <1>3 DEF Reached

LEMMA MapOfIs ==
  ASSUME NEW t, WellLinked(t)
  PROVE  MapsTo(t, MapOf(t))
<1> DEFINE D == DOMAIN t.he
           m == [k \in {t.he[a].key : a \in D} |->
                   t.he[CHOOSE a \in D : t.he[a].key = k].data]
<1>1. MapOf(t) = m
  <2> DEFINE Of(R) == [k \in {t.he[a].key : a \in R} |->
                          t.he[CHOOSE a \in R : t.he[a].key = k].data]
  <2>1. MapOf(t) = Of(Reached(t)) /\ m = Of(D)
    BY DEF MapOf
  <2>2. Reached(t) = D
    BY ReachedIs
  <2> HIDE DEF Of, m, D
  <2> QED
    BY <2>1, <2>2
<1>2. DOMAIN m = {t.he[a].key : a \in D} /\ m = [k \in DOMAIN m |-> m[k]]
  OBVIOUS
<1>3. ASSUME NEW a \in D PROVE m[t.he[a].key] = t.he[a].data
  <2>1. PICK k : k = t.he[a].key /\ k \in {t.he[b].key : b \in D}
    OBVIOUS
  <2>2. PICK c : c = CHOOSE b \in D : t.he[b].key = k
    OBVIOUS
  <2>3. c \in D /\ t.he[c].key = k
    BY <2>1, <2>2
  <2>4. c = a
    BY <2>1, <2>3 DEF WellLinked, Distinct
  <2>5. m[k] = t.he[c].data
    BY <2>1, <2>2
  <2> QED
    BY <2>1, <2>4, <2>5
<1> HIDE DEF m
<1> QED
  BY <1>1, <1>2, <1>3 DEF MapsTo

LEMMA NoTableMap ==
  MapOf(NoTable) = <<>>
<1>1. Reached(NoTable) = {}
  BY DEF Reached, NoTable
<1>2. MapOf(NoTable) = [k \in {} |-> NoTable.he[CHOOSE a \in {} : NoTable.he[a].key = k].data]
  BY <1>1 DEF MapOf
<1> QED
  BY <1>2

\* Tables with the same entries have the same map.
LEMMA SameMap ==
  ASSUME NEW t, NEW u, NEW m, NEW n, MapsTo(t, m), MapsTo(u, n), DOMAIN u.he = DOMAIN t.he,
         \A a \in DOMAIN t.he : u.he[a].key = t.he[a].key /\ u.he[a].data = t.he[a].data
  PROVE  n = m
<1>1. DOMAIN n = DOMAIN m
  BY DEF MapsTo
<1>2. \A k \in DOMAIN m : n[k] = m[k]
  BY DEF MapsTo
<1> QED
  BY <1>1, <1>2 DEF MapsTo

\* What is put into the map.
With(m, k, v) == [x \in DOMAIN m \cup {k} |-> IF x = k THEN v ELSE m[x]]

LEMMA PlacedMap ==
  ASSUME NEW t, WellLinked(t), NEW k \in Keys, NEW v \in Values, NEW u, Placed(t, u, k, v),
         NEW m, NEW n, MapsTo(t, m), MapsTo(u, n)
  PROVE  n = With(m, k, v) /\ k \notin DOMAIN m
<1>1. \A b \in DOMAIN t.he : t.he[b].key # k
  BY DEF Placed
<1>2. PICK a \in Address \ DOMAIN t.he : u = PlaceFirst(t, BucketOf(t, k), a, k, v)
  BY DEF Placed
<1>3. /\ DOMAIN u.he = DOMAIN t.he \cup {a} /\ u.he[a].key = k /\ u.he[a].data = v
      /\ \A b \in DOMAIN t.he : u.he[b].key = t.he[b].key /\ u.he[b].data = t.he[b].data
  BY <1>1, <1>2, PlaceFirstIs
<1>4. k \notin DOMAIN m
  BY <1>1 DEF MapsTo
<1>5. DOMAIN n = DOMAIN m \cup {k}
  BY <1>3 DEF MapsTo
<1>6. n[k] = v
  BY <1>3 DEF MapsTo
<1>7. \A x \in DOMAIN m : n[x] = m[x]
  BY <1>3 DEF MapsTo
<1>8. n = [x \in DOMAIN n |-> n[x]]
  BY DEF MapsTo
<1> QED
  BY <1>4, <1>5, <1>6, <1>7, <1>8 DEF With

LEMMA ReplacedMap ==
  ASSUME NEW t, WellLinked(t), NEW e \in DOMAIN t.he, NEW v, NEW u, OtherData(t, u, e, v),
         NEW m, NEW n, MapsTo(t, m), MapsTo(u, n)
  PROVE  n = With(m, t.he[e].key, v)
<1>1. /\ DOMAIN u.he = DOMAIN t.he /\ u.he[e].data = v
      /\ \A a \in DOMAIN t.he : /\ u.he[a].key = t.he[a].key
                                /\ a # e => u.he[a].data = t.he[a].data
  BY DEF OtherData
<1>2. PICK k : k = t.he[e].key
  OBVIOUS
<1>3. DOMAIN n = DOMAIN m \cup {k}
  BY <1>1, <1>2 DEF MapsTo
<1>4. n[k] = v
  BY <1>1, <1>2 DEF MapsTo
<1>5. \A x \in DOMAIN m : x # k => n[x] = m[x]
  BY <1>1, <1>2 DEF MapsTo
<1>6. n = [x \in DOMAIN n |-> n[x]]
  BY DEF MapsTo
<1> QED
  BY <1>2, <1>3, <1>4, <1>5, <1>6 DEF With

WithoutKey(m, k) == [x \in DOMAIN m \ {k} |-> m[x]]

LEMMA RemovedMap ==
  ASSUME NEW t, WellLinked(t), NEW e \in DOMAIN t.he, NEW u, Without(t, u, e),
         NEW m, NEW n, MapsTo(t, m), MapsTo(u, n)
  PROVE  n = WithoutKey(m, t.he[e].key)
<1>1. /\ DOMAIN u.he = DOMAIN t.he \ {e}
      /\ \A a \in DOMAIN u.he : u.he[a].key = t.he[a].key /\ u.he[a].data = t.he[a].data
  BY DEF Without
<1>2. PICK k : k = t.he[e].key
  OBVIOUS
<1>3. \A a \in DOMAIN t.he : t.he[a].key = k <=> a = e
  BY <1>2 DEF WellLinked, Distinct
<1>4. DOMAIN n = DOMAIN m \ {k}
  BY <1>1, <1>3 DEF MapsTo
<1>5. \A x \in DOMAIN n : n[x] = m[x]
  BY <1>1 DEF MapsTo
<1>6. n = [x \in DOMAIN n |-> n[x]]
  BY DEF MapsTo
<1> QED
  BY <1>2, <1>4, <1>5, <1>6 DEF WithoutKey

\* What is found under a key is what the map has there.
LEMMA FoundIs ==
  ASSUME NEW t, WellLinked(t), NEW k \in Keys, NEW m, MapsTo(t, m),
         NEW e, e = Search(t, BucketOf(t, k), k)
  PROVE  /\ k \in DOMAIN m <=> e # Null
         /\ DataAt(t, e) = IF k \in DOMAIN m THEN m[k] ELSE Null
         /\ e # Null => e \in DOMAIN t.he /\ t.he[e].key = k
<1>1. \/ e = Null /\ \A a \in DOMAIN t.he : t.he[a].key # k
      \/ e \in DOMAIN t.he /\ e # Null /\ t.he[e].key = k
  BY SearchIs
<1>2. CASE e = Null /\ \A a \in DOMAIN t.he : t.he[a].key # k
  BY <1>2 DEF MapsTo, DataAt
<1>3. CASE e \in DOMAIN t.he /\ e # Null /\ t.he[e].key = k
  <2>1. k \in DOMAIN m /\ m[k] = t.he[e].data
    BY <1>3 DEF MapsTo
  <2> QED
    BY <1>3, <2>1 DEF DataAt
<1> QED
  BY <1>1, <1>2, <1>3

\* The keys that are still to be delivered.
LEMMA TodoIs ==
  ASSUME NEW t, WellLinked(t), NEW i, Iterating(t, i), NEW d, Still(t, i, d)
  PROVE  d \subseteq DOMAIN t.he /\ TodoOf(t, i) = {t.he[a].key : a \in d}
<1>1. PICK s : /\ Ahead(t, i, s)
               /\ d = ToSet(s) \cup {b \in DOMAIN t.he :
                                      BucketOf(t, t.he[b].key) > i.i_curr_bucket}
  BY DEF Still
<1>2. PICK l \in 0..t.i_size - 1 : l = i.i_curr_bucket
  BY DEF Iterating
<1>3. Chain(t, i.p_next) = s
  BY <1>1, ChainIs DEF Ahead, WellLinked, Shaped
<1>4. \A b \in 0..t.i_size - 1 : InChain(t, b) = {a \in DOMAIN t.he : BucketOf(t, t.he[a].key) = b}
  BY DEF WellLinked, Holds, InChain
<1>5. t.i_size \in Nat /\ \A a \in DOMAIN t.he : BucketOf(t, t.he[a].key) \in 0..t.i_size - 1
  BY EntryIs DEF WellLinked, Shaped
<1>6. UNION {InChain(t, b) : b \in l + 1..t.i_size - 1}
        = {a \in DOMAIN t.he : BucketOf(t, t.he[a].key) > l}
  <2>1. \A b \in l + 1..t.i_size - 1 : b \in 0..t.i_size - 1 /\ b > l
    BY <1>5
  <2>2. \A b \in 0..t.i_size - 1 : b > l => b \in l + 1..t.i_size - 1
    BY <1>5
  <2> QED
    BY <1>4, <1>5, <2>1, <2>2
<1>7. s \in Seq(DOMAIN t.he)
  BY <1>1 DEF Ahead, Path
<1>8. d \subseteq DOMAIN t.he
  <2>1. ToSet(s) \subseteq DOMAIN t.he
    BY <1>7 DEF ToSet
  <2> QED
    BY <1>1, <2>1
<1>9. TodoOf(t, i) = {t.he[a].key : a \in
        ToSet(s) \cup UNION {InChain(t, b) : b \in l + 1..t.i_size - 1}}
  BY <1>2, <1>3 DEF TodoOf, Iterating
<1> QED
  BY <1>1, <1>2, <1>6, <1>8, <1>9

\* What is still to come has not been given.
LEMMA StillUnseen ==
  ASSUME NEW t, WellLinked(t), NEW i, Iterating(t, i), NEW d, Still(t, i, d)
  PROVE  \A a \in d : t.he[a].key \notin i.seen
<1>1. PICK s : /\ Ahead(t, i, s)
               /\ d = ToSet(s) \cup {b \in DOMAIN t.he :
                                      BucketOf(t, t.he[b].key) > i.i_curr_bucket}
  BY DEF Still
<1>2. \A a \in ToSet(s) : t.he[a].key \notin i.seen
  BY <1>1 DEF Ahead
<1>3. ASSUME NEW b \in DOMAIN t.he, BucketOf(t, t.he[b].key) > i.i_curr_bucket
      PROVE  t.he[b].key \notin i.seen
  <2>1. BucketOf(t, t.he[b].key) \in Nat /\ i.i_curr_bucket \in Nat
    BY EntryIs DEF WellLinked, Shaped, Iterating
  <2>2. \A k \in i.seen : BucketOf(t, k) <= i.i_curr_bucket
    BY DEF Iterating
  <2> QED
    BY <1>3, <2>1, <2>2
<1> QED
  BY <1>1, <1>2, <1>3

LEMMA NoTodo ==
  \A t : TodoOf(t, NoIterator) = {}
BY DEF TodoOf, NoIterator

\* The table before and after a step.
Steps == AllRules /\ TableInv /\ TableInv' /\ IterInv /\ IterInv'

LEMMA TableBefore ==
  ASSUME TableInv, Exists
  PROVE  WellLinked(ht) /\ ht.i_automatic_rehash = FALSE /\ MapsTo(ht, MapOf(ht))
BY MapOfIs DEF TableInv

LEMMA TableAfter ==
  ASSUME TableInv', ht'.i_size > 0
  PROVE  WellLinked(ht') /\ MapsTo(ht', MapOf(ht'))
BY MapOfIs DEF TableInv, Exists

\* What is inserted may occur in the iteration or not.
LEMMA InsertTodo ==
  ASSUME Steps, NEW k \in Keys, NEW v \in Values, Insert(k, v)
  PROVE  TodoOf(ht', it') \in {TodoOf(ht, it), TodoOf(ht, it) \cup {k}}
<1>1. Exists /\ it' = it
  BY DEF Insert
<1>2. WellLinked(ht)
  BY <1>1, TableBefore DEF Steps
<1>3. CASE it = NoIterator
  BY <1>1, <1>3, NoTodo
<1>4. CASE Iterating(ht, it)
  <2>1. it.live = TRUE
    BY <1>4 DEF Iterating
  <2>2. PICK d : Still(ht, it, d)
    BY <1>4 DEF Iterating, Still
  <2>3. TableInv
    BY DEF Steps
  <2>4. /\ Exists' /\ Iterating(ht', it) /\ KeysKept(ht, ht', d)
        /\ \/ Still(ht', it, d)
           \/ \E a \in DOMAIN ht'.he : ht'.he[a].key = k /\ Still(ht', it, d \cup {a})
    BY <1>1, <1>4, <2>1, <2>2, <2>3, InsertStays
  <2>5. WellLinked(ht')
    BY <2>4, TableAfter DEF Steps, Exists
  <2>6. TodoOf(ht, it) = {ht.he[a].key : a \in d}
    BY <1>2, <1>4, <2>2, TodoIs
  <2>7. {ht'.he[a].key : a \in d} = {ht.he[a].key : a \in d}
    BY <2>4 DEF KeysKept
  <2>8. CASE Still(ht', it, d)
    <3>1. TodoOf(ht', it) = {ht'.he[a].key : a \in d}
      BY <2>4, <2>5, <2>8, TodoIs
    <3> QED
      BY <1>1, <2>6, <2>7, <3>1
  <2>9. ASSUME NEW a \in DOMAIN ht'.he, ht'.he[a].key = k, Still(ht', it, d \cup {a})
        PROVE  TodoOf(ht', it) = TodoOf(ht, it) \cup {k}
    <3>1. TodoOf(ht', it) = {ht'.he[b].key : b \in d \cup {a}}
      BY <2>4, <2>5, <2>9, TodoIs
    <3>2. {ht'.he[b].key : b \in d \cup {a}} = {ht'.he[b].key : b \in d} \cup {k}
      BY <2>9
    <3> QED
      BY <2>6, <2>7, <3>1, <3>2
  <2> QED
    BY <1>1, <2>4, <2>8, <2>9
<1> QED
  BY <1>3, <1>4 DEF Steps, IterInv

\* No other call about a key changes what is still to be delivered.
LEMMA KeyCallTodo ==
  ASSUME Steps, NEW k \in Keys, KeyCall(k)
  PROVE  TodoOf(ht', it') = TodoOf(ht, it)
<1>1. Exists /\ it' = it
  BY DEF KeyCall, InsertFails, Replace, Get, RemoveKey, LookUp
<1>2. WellLinked(ht)
  BY <1>1, TableBefore DEF Steps
<1>3. CASE it = NoIterator
  BY <1>1, <1>3, NoTodo
<1>4. CASE Iterating(ht, it)
  <2>1. it.live = TRUE
    BY <1>4 DEF Iterating
  <2>2. PICK d : Still(ht, it, d)
    BY <1>4 DEF Iterating, Still
  <2>3. AllRules /\ TableInv
    BY DEF Steps
  <2>4. Exists' /\ Iterating(ht', it) /\ KeysKept(ht, ht', d) /\ Still(ht', it, d)
    BY <1>1, <1>4, <2>1, <2>2, <2>3, StaysIterating
  <2>5. WellLinked(ht')
    BY <2>4, TableAfter DEF Steps, Exists
  <2>6. TodoOf(ht, it) = {ht.he[a].key : a \in d}
    BY <1>2, <1>4, <2>2, TodoIs
  <2>7. {ht'.he[a].key : a \in d} = {ht.he[a].key : a \in d}
    BY <2>4 DEF KeysKept
  <2>8. TodoOf(ht', it) = {ht'.he[a].key : a \in d}
    BY <2>4, <2>5, TodoIs
  <2> QED
    BY <1>1, <2>6, <2>7, <2>8
<1> QED
  BY <1>3, <1>4 DEF Steps, IterInv

LEMMA InsertRefines ==
  ASSUME Steps, NEW k \in Keys, NEW v \in Values, Insert(k, v)
  PROVE  M!Insert(k, v)
<1>1. /\ Exists /\ ht' = ght_insert(ht, k, v) /\ it' = it
      /\ ret' = <<"insert", InsertResult(ht, k)>>
  BY DEF Insert
<1>2. WellLinked(ht) /\ ht.i_automatic_rehash = FALSE /\ MapsTo(ht, MapOf(ht))
  BY <1>1, TableBefore DEF Steps
<1>3. CASE /\ ght_insert(ht, k, v) = ht /\ InsertResult(ht, k) = -1
           /\ \E a \in DOMAIN ht.he : ht.he[a].key = k
  <2>1. k \in DOMAIN MapOf(ht)
    BY <1>2, <1>3 DEF MapsTo
  <2>2. MapOf(ht') = MapOf(ht) /\ TodoOf(ht', it') = TodoOf(ht, it)
    BY <1>1, <1>3
  <2> QED
    BY <1>1, <1>3, <2>1, <2>2 DEF M!Insert, M!Present
<1>4. CASE /\ ght_insert(ht, k, v) = ht /\ InsertResult(ht, k) = -2
           /\ \A a \in DOMAIN ht.he : ht.he[a].key # k
  <2>1. k \notin DOMAIN MapOf(ht)
    BY <1>2, <1>4 DEF MapsTo
  <2>2. MapOf(ht') = MapOf(ht) /\ TodoOf(ht', it') = TodoOf(ht, it)
    BY <1>1, <1>4
  <2> QED
    BY <1>1, <1>4, <2>1, <2>2 DEF M!Insert, M!Present
<1>5. CASE Placed(ht, ght_insert(ht, k, v), k, v) /\ InsertResult(ht, k) = 0
  <2>1. Placed(ht, ht', k, v)
    BY <1>1, <1>5
  <2>2. ht'.i_size = ht.i_size
    <3>1. /\ \A b \in DOMAIN ht.he : ht.he[b].key # k
          /\ \E a \in Address \ DOMAIN ht.he : ht' = PlaceFirst(ht, BucketOf(ht, k), a, k, v)
      BY <2>1 DEF Placed
    <3> QED
      BY <1>2, <3>1, PlaceFirstIs
  <2>3. MapsTo(ht', MapOf(ht'))
    BY <1>1, <2>2, TableAfter DEF Steps, Exists
  <2>4. PICK m, n : m = MapOf(ht) /\ n = MapOf(ht')
    OBVIOUS
  <2>5. n = With(m, k, v) /\ k \notin DOMAIN m
    BY <1>2, <2>1, <2>3, <2>4, PlacedMap
  <2>6. MapOf(ht)' = n /\ TodoOf(ht, it)' \in {TodoOf(ht, it), TodoOf(ht, it) \cup {k}}
    BY <2>4, InsertTodo
  <2>7. ret' = <<"insert", 0>>
    BY <1>1, <1>5
  <2> QED
    BY <2>4, <2>5, <2>6, <2>7 DEF M!Insert, M!Present, M!Put, With
<1> QED
  BY <1>2, <1>3, <1>4, <1>5, InsertIs

LEMMA InsertFailsRefines ==
  ASSUME Steps, NEW k \in Keys, NEW v \in Values, InsertFails(k)
  PROVE  M!Insert(k, v)
<1>1. /\ Exists /\ Search(ht, BucketOf(ht, k), k) = Null /\ ht' = ht /\ it' = it
      /\ ret' = <<"insert", -2>>
  BY DEF InsertFails
<1>2. WellLinked(ht) /\ MapsTo(ht, MapOf(ht))
  BY <1>1, TableBefore DEF Steps
<1>3. k \notin DOMAIN MapOf(ht)
  BY <1>1, <1>2, FoundIs
<1> QED
  BY <1>1, <1>3 DEF M!Insert, M!Present

LEMMA GetRefines ==
  ASSUME Steps, NEW k \in Keys, Get(k)
  PROVE  M!Get(k)
<1>1. PICK e : e = Search(ht, BucketOf(ht, k), k)
  OBVIOUS
<1>2. Exists /\ ht' = ght_get(ht, k) /\ ret' = <<"get", DataAt(ht, e)>>
  BY <1>1 DEF Get, LookUp
<1>3. WellLinked(ht) /\ MapsTo(ht, MapOf(ht))
  BY <1>2, TableBefore DEF Steps
<1>4. WellLinked(ht') /\ SameContents(ht, ht')
  BY <1>2, <1>3, GetIs
<1>5. MapsTo(ht', MapOf(ht'))
  BY <1>4, MapOfIs
<1>6. MapOf(ht') = MapOf(ht)
  BY <1>3, <1>4, <1>5, SameMap DEF SameContents
<1>7. TodoOf(ht', it') = TodoOf(ht, it)
  BY KeyCallTodo DEF KeyCall
<1>8. DataAt(ht, e) = IF k \in DOMAIN MapOf(ht) THEN MapOf(ht)[k] ELSE Null
  BY <1>1, <1>3, FoundIs
<1> QED
  BY <1>2, <1>6, <1>7, <1>8 DEF M!Get, M!Data, M!Present

LEMMA ReplaceRefines ==
  ASSUME Steps, NEW k \in Keys, NEW v \in Values, Replace(k, v)
  PROVE  M!Replace(k, v)
<1>1. PICK e : e = Search(ht, BucketOf(ht, k), k)
  OBVIOUS
<1>2. Exists /\ ht' = ght_replace(ht, k, v) /\ ret' = <<"replace", DataAt(ht, e)>>
  BY <1>1 DEF Replace, LookUp
<1>3. WellLinked(ht)
  BY <1>2, TableBefore DEF Steps
<1>4. PICK m, n : m = MapOf(ht) /\ n = MapOf(ht')
  OBVIOUS
<1>5. MapsTo(ht, m)
  BY <1>2, <1>4, TableBefore DEF Steps
<1>6. WellLinked(ht') /\ (e = Null => ht' = ht) /\ (e # Null => OtherData(ht, ht', e, v))
  BY <1>1, <1>2, <1>3, ReplaceIs
<1>7. MapsTo(ht', n)
  BY <1>4, <1>6, MapOfIs
<1>8. /\ k \in DOMAIN m <=> e # Null
      /\ DataAt(ht, e) = IF k \in DOMAIN m THEN m[k] ELSE Null
      /\ e # Null => e \in DOMAIN ht.he /\ ht.he[e].key = k
  BY <1>1, <1>3, <1>5, FoundIs
<1>9. IF k \in DOMAIN m THEN n = With(m, k, v) ELSE n = m
  <2>1. CASE e = Null
    BY <1>4, <1>6, <1>8, <2>1
  <2>2. CASE e # Null
    <3>1. n = With(m, ht.he[e].key, v)
      BY <1>3, <1>5, <1>6, <1>7, <1>8, <2>2, ReplacedMap
    <3> QED
      BY <1>8, <2>2, <3>1
  <2> QED
    BY <2>1, <2>2
<1>10. TodoOf(ht', it') = TodoOf(ht, it)
  BY KeyCallTodo DEF KeyCall
<1> QED
  BY <1>2, <1>4, <1>8, <1>9, <1>10 DEF M!Replace, M!Data, M!Present, M!Put, With

LEMMA RemoveRefines ==
  ASSUME Steps, NEW k \in Keys, RemoveKey(k)
  PROVE  M!Remove(k)
<1>1. PICK e : e = Search(ht, BucketOf(ht, k), k)
  OBVIOUS
<1>2. /\ Exists /\ ht' = ght_remove(ht, k) /\ it' = it /\ ret' = <<"remove", DataAt(ht, e)>>
      /\ (it.live => k \in it.seen)
  BY <1>1 DEF RemoveKey, Rule, Steps, AllRules
<1>3. WellLinked(ht)
  BY <1>2, TableBefore DEF Steps
<1>4. PICK m, n : m = MapOf(ht) /\ n = MapOf(ht')
  OBVIOUS
<1>5. MapsTo(ht, m)
  BY <1>2, <1>4, TableBefore DEF Steps
<1>6. /\ k \in DOMAIN m <=> e # Null
      /\ DataAt(ht, e) = IF k \in DOMAIN m THEN m[k] ELSE Null
      /\ e # Null => e \in DOMAIN ht.he /\ ht.he[e].key = k
  BY <1>1, <1>3, <1>5, FoundIs
<1>7. n = [x \in DOMAIN m \ {k} |-> m[x]]
  <2>1. CASE e = Null
    <3>1. n = m
      BY <1>1, <1>2, <1>4, <2>1 DEF ght_remove
    <3>2. m = [x \in DOMAIN m |-> m[x]] /\ DOMAIN m \ {k} = DOMAIN m
      BY <1>5, <1>6, <2>1 DEF MapsTo
    <3> QED
      BY <3>1, <3>2
  <2>2. CASE e # Null
    <3>1. WellLinked(ht') /\ Without(ht, ht', e)
      BY <1>1, <1>2, <1>3, <2>2, RemoveIs
    <3>2. MapsTo(ht', n)
      BY <1>4, <3>1, MapOfIs
    <3>3. n = [x \in DOMAIN m \ {ht.he[e].key} |-> m[x]]
      <4>1. PICK t, u : t = ht /\ u = ht'
        OBVIOUS
      <4>2. WellLinked(t) /\ e \in DOMAIN t.he /\ Without(t, u, e) /\ MapsTo(t, m) /\ MapsTo(u, n)
        BY <1>3, <1>5, <1>6, <2>2, <3>1, <3>2, <4>1
      <4>3. n = WithoutKey(m, t.he[e].key)
        BY <4>2, RemovedMap
      <4> QED
        BY <4>1, <4>3 DEF WithoutKey
    <3> QED
      BY <1>6, <2>2, <3>3
  <2> QED
    BY <2>1, <2>2
<1>8. TodoOf(ht', it') = TodoOf(ht, it)
  BY KeyCallTodo DEF KeyCall
<1>9. k \notin TodoOf(ht, it)
  <2>1. CASE it = NoIterator
    BY <2>1, NoTodo
  <2>2. CASE Iterating(ht, it)
    <3>1. PICK d : Still(ht, it, d)
      BY <2>2 DEF Iterating, Still
    <3>2. k \in it.seen
      BY <1>2, <2>2 DEF Iterating
    <3>3. \A a \in d : ht.he[a].key \notin it.seen
      BY <1>3, <2>2, <3>1, StillUnseen
    <3>4. TodoOf(ht, it) = {ht.he[a].key : a \in d}
      BY <1>3, <2>2, <3>1, TodoIs
    <3> QED
      BY <3>2, <3>3, <3>4
  <2> QED
    BY <2>1, <2>2 DEF Steps, IterInv
<1>10. TodoOf(ht, it) \ {k} = TodoOf(ht, it)
  BY <1>9
<1> QED
  BY <1>2, <1>4, <1>6, <1>7, <1>8, <1>10 DEF M!Remove, M!Data, M!Present

\* What an iterator gives when it comes to an entry.
LEMMA ComesToGives ==
  ASSUME NEW t, WellLinked(t), NEW m, MapsTo(t, m), NEW i, NEW j, NEW a, NEW d,
         ComesTo(t, i, j, a, d), d \subseteq DOMAIN t.he
  PROVE  \E k \in {t.he[b].key : b \in d} \cap DOMAIN m :
           /\ Entry(t, a) = <<"next", k, m[k]>>
           /\ TodoOf(t, j) = {t.he[b].key : b \in d} \ {k}
<1>1. /\ a # Null /\ a \in d /\ a \in DOMAIN t.he
      /\ Iterating(t, j) /\ Still(t, j, d \ {a})
  BY DEF ComesTo
<1>2. PICK k : k = t.he[a].key
  OBVIOUS
<1>3. k \in {t.he[b].key : b \in d} \cap DOMAIN m /\ m[k] = t.he[a].data
  BY <1>1, <1>2 DEF MapsTo
<1>4. Entry(t, a) = <<"next", k, m[k]>>
  BY <1>1, <1>2, <1>3 DEF Entry
<1>5. TodoOf(t, j) = {t.he[b].key : b \in d \ {a}}
  BY <1>1, TodoIs
<1>6. \A b \in d : t.he[b].key = k <=> b = a
  BY <1>1, <1>2 DEF WellLinked, Distinct
<1>7. TodoOf(t, j) = {t.he[b].key : b \in d} \ {k}
  BY <1>5, <1>6
<1> QED
  BY <1>3, <1>4, <1>7

LEMMA FirstRefines ==
  ASSUME Steps, First
  PROVE  M!First
<1>1. Exists /\ ht' = ht /\ it' = ght_first(ht) /\ ret' = Entry(ht, FirstEntry(ht, 0))
  BY DEF First
<1>2. PICK m : m = MapOf(ht)
  OBVIOUS
<1>3. WellLinked(ht) /\ MapsTo(ht, m)
  BY <1>1, <1>2, TableBefore DEF Steps
<1>4. DOMAIN m = {ht.he[b].key : b \in DOMAIN ht.he}
  BY <1>3 DEF MapsTo
<1>5. MapOf(ht') = m /\ TodoOf(ht', it') = TodoOf(ht, it')
  BY <1>1, <1>2
<1>6. CASE DOMAIN ht.he = {} /\ FirstEntry(ht, 0) = Null /\ ght_first(ht) = NoIterator
  <2>1. DOMAIN m = {}
    BY <1>4, <1>6
  <2>2. TodoOf(ht, it') = {}
    BY <1>1, <1>6, NoTodo
  <2>3. ret' = <<"next", Null>>
    BY <1>1, <1>6 DEF Entry
  <2> QED
    BY <1>2, <1>5, <2>1, <2>2, <2>3 DEF M!First, M!Deliver
<1>7. CASE ComesTo(ht, NoIterator, ght_first(ht), FirstEntry(ht, 0), DOMAIN ht.he)
  <2>1. PICK k \in DOMAIN m : /\ ret' = <<"next", k, m[k]>>
                              /\ TodoOf(ht, it') = DOMAIN m \ {k}
    BY <1>1, <1>3, <1>4, <1>7, ComesToGives
  <2> QED
    BY <1>2, <1>5, <2>1 DEF M!First, M!Deliver
<1> QED
  BY <1>3, <1>6, <1>7, FirstIs

LEMMA FollowingRefines ==
  ASSUME Steps, Following
  PROVE  M!Following
<1>1. /\ it.live /\ ht' = ht /\ it' = ght_next(ht, it)
      /\ ret' = Entry(ht, NextEntry(ht, it))
  BY DEF Following
<1>2. Exists /\ Iterating(ht, it)
  BY <1>1 DEF Steps, IterInv, NoIterator
<1>3. PICK m : m = MapOf(ht)
  OBVIOUS
<1>4. WellLinked(ht) /\ MapsTo(ht, m)
  BY <1>2, <1>3, TableBefore DEF Steps
<1>5. PICK d : Still(ht, it, d)
  BY <1>2 DEF Iterating, Still
<1>6. d \subseteq DOMAIN ht.he /\ TodoOf(ht, it) = {ht.he[a].key : a \in d}
  BY <1>2, <1>4, <1>5, TodoIs
<1>7. MapOf(ht') = m /\ TodoOf(ht', it') = TodoOf(ht, it')
  BY <1>1, <1>3
<1>8. CASE d = {} /\ NextEntry(ht, it) = Null /\ ght_next(ht, it) = NoIterator
  <2>1. TodoOf(ht, it) = {}
    BY <1>6, <1>8
  <2>2. TodoOf(ht, it') = {}
    BY <1>1, <1>8, NoTodo
  <2>3. ret' = <<"next", Null>>
    BY <1>1, <1>8 DEF Entry
  <2> QED
    BY <1>3, <1>7, <2>1, <2>2, <2>3 DEF M!Following, M!Deliver
<1>9. CASE ComesTo(ht, it, ght_next(ht, it), NextEntry(ht, it), d)
  <2>1. PICK k \in TodoOf(ht, it) \cap DOMAIN m :
          /\ ret' = <<"next", k, m[k]>>
          /\ TodoOf(ht, it') = TodoOf(ht, it) \ {k}
    BY <1>1, <1>4, <1>6, <1>9, ComesToGives
  <2> QED
    BY <1>3, <1>7, <2>1 DEF M!Following, M!Deliver
<1> QED
  BY <1>2, <1>4, <1>5, <1>8, <1>9, NextIs

LEMMA RehashRefines ==
  ASSUME Steps, NEW n \in Sizes, Rehash(n)
  PROVE  M!Rehash
<1>1. Exists /\ ht' = ght_rehash(ht, n) /\ it' = NoIterator /\ ret' = ret /\ n \in Nat \ {0}
  BY SizesAssumption DEF Rehash
<1>2. WellLinked(ht) /\ MapsTo(ht, MapOf(ht))
  BY <1>1, TableBefore DEF Steps
<1>3. /\ WellLinked(ht') /\ DOMAIN ht'.he = DOMAIN ht.he
      /\ \A a \in DOMAIN ht.he : ht'.he[a].key = ht.he[a].key /\ ht'.he[a].data = ht.he[a].data
  BY <1>1, <1>2, RehashIs
<1>4. MapOf(ht') = MapOf(ht)
  BY <1>2, <1>3, MapOfIs, SameMap
<1>5. TodoOf(ht', it') = {}
  BY <1>1, NoTodo
<1> QED
  BY <1>1, <1>4, <1>5 DEF M!Rehash

LEMMA DestroyRefines ==
  ASSUME Steps, Destroy
  PROVE  M!Destroy
<1>1. Exists /\ ht' = ght_finalize(ht) /\ it' = NoIterator /\ ret' = ret
  BY DEF Destroy
<1>2. WellLinked(ht)
  BY <1>1, TableBefore DEF Steps
<1>3. ht' = NoTable
  BY <1>1, <1>2, FinalizeIs
<1>4. MapOf(ht') = <<>> /\ TodoOf(ht', it') = {}
  BY <1>1, <1>3, NoTableMap, NoTodo
<1> QED
  BY <1>1, <1>4 DEF M!Destroy

\* Creating a table and setting its flags is no step of the map.
LEMMA CreateStutters ==
  ASSUME Steps, NEW n \in Sizes, Create(n)
  PROVE  UNCHANGED M!vars
<1>1. ~Exists /\ it' = it /\ ret' = ret
  BY DEF Create
<1>2. ht' = ght_create(n) /\ ht = NoTable
  BY CreateStep DEF Steps
<1>3. it = NoIterator
  BY <1>1 DEF Steps, IterInv
<1>4. WellLinked(ht') /\ DOMAIN ht'.he = {}
  BY <1>2, CreateIs, SizesAssumption
<1>5. MapOf(ht') = <<>>
  <2>1. PICK m : m = MapOf(ht')
    OBVIOUS
  <2>2. MapsTo(ht', m)
    BY <1>4, <2>1, MapOfIs
  <2>3. DOMAIN m = {} /\ m = [k \in DOMAIN m |-> m[k]]
    BY <1>4, <2>2 DEF MapsTo
  <2>4. m = <<>>
    BY <2>3
  <2> QED
    BY <2>1, <2>4
<1>6. MapOf(ht) = <<>> /\ TodoOf(ht, it) = {} /\ TodoOf(ht', it') = {}
  BY <1>1, <1>2, <1>3, NoTableMap, NoTodo
<1> QED
  BY <1>1, <1>5, <1>6 DEF M!vars

LEMMA FlagsStutter ==
  ASSUME Steps, Exists, it' = it, ret' = ret, ht'.i_size = ht.i_size, ht'.he = ht.he
  PROVE  UNCHANGED M!vars
<1>1. WellLinked(ht) /\ MapsTo(ht, MapOf(ht))
  BY TableBefore DEF Steps
<1>2. WellLinked(ht') /\ MapsTo(ht', MapOf(ht'))
  BY TableAfter DEF Steps, Exists
<1>3. MapOf(ht') = MapOf(ht)
  BY <1>1, <1>2, SameMap
<1>4. TodoOf(ht', it') = TodoOf(ht, it)
  <2>1. CASE it = NoIterator
    BY <2>1, NoTodo
  <2>2. CASE Iterating(ht, it)
    <3>1. PICK d : Still(ht, it, d)
      BY <2>2 DEF Iterating, Still
    <3>2. Iterating(ht', it) /\ Still(ht', it, d)
      BY <1>1, <2>2, <3>1, LinksKeep
    <3>3. TodoOf(ht, it) = {ht.he[a].key : a \in d}
      BY <1>1, <2>2, <3>1, TodoIs
    <3>4. TodoOf(ht', it) = {ht'.he[a].key : a \in d}
      BY <1>2, <3>2, TodoIs
    <3> QED
      BY <3>3, <3>4
  <2> QED
    BY <2>1, <2>2 DEF Steps, IterInv
<1> QED
  BY <1>3, <1>4 DEF M!vars

LEMMA MapStep ==
  ASSUME Steps, [Next]_vars
  PROVE  [M!Next]_(M!vars)
<1>1. CASE UNCHANGED vars
  BY <1>1 DEF vars, M!vars
<1>2. ASSUME NEW n \in Sizes, Create(n) PROVE UNCHANGED M!vars
  BY <1>2, CreateStutters
<1>3. ASSUME NEW n \in Sizes, Rehash(n) PROVE M!Next
  BY <1>3, RehashRefines DEF M!Next
<1>4. ASSUME NEW k \in Keys, NEW v \in Values, Insert(k, v) \/ InsertFails(k) \/ Replace(k, v)
      PROVE  M!Next
  BY <1>4, InsertRefines, InsertFailsRefines, ReplaceRefines DEF M!Next
<1>5. ASSUME NEW k \in Keys, Get(k) \/ RemoveKey(k) PROVE M!Next
  BY <1>5, GetRefines, RemoveRefines DEF M!Next
<1>6. ASSUME First \/ Following PROVE M!Next
  BY <1>6, FirstRefines, FollowingRefines DEF M!Next
<1>7. ASSUME NEW h \in Heuristics, SetHeuristics(h) PROVE UNCHANGED M!vars
  <2>1. Exists /\ ht' = [ht EXCEPT !.i_heuristics = h] /\ it' = it /\ ret' = ret
    BY <1>7 DEF SetHeuristics
  <2>2. Shaped(ht)
    BY <2>1 DEF Steps, TableInv, WellLinked
  <2>3. ht'.i_size = ht.i_size /\ ht'.he = ht.he
    BY <2>1, <2>2 DEF Shaped
  <2> QED
    BY <2>1, <2>3, FlagsStutter
<1>8. ASSUME NEW b \in BOOLEAN, SetRehash(b) PROVE UNCHANGED M!vars
  <2>1. Exists /\ ht' = [ht EXCEPT !.i_automatic_rehash = b] /\ it' = it /\ ret' = ret
    BY <1>8 DEF SetRehash
  <2>2. Shaped(ht)
    BY <2>1 DEF Steps, TableInv, WellLinked
  <2>3. ht'.i_size = ht.i_size /\ ht'.he = ht.he
    BY <2>1, <2>2 DEF Shaped
  <2> QED
    BY <2>1, <2>3, FlagsStutter
<1>9. ASSUME Destroy PROVE M!Next
  BY <1>9, DestroyRefines DEF M!Next
<1> QED
  BY <1>1, <1>2, <1>3, <1>4, <1>5, <1>6, <1>7, <1>8, <1>9 DEF Next

\* With a caller that keeps the rules the table implements the map, for chains of
\* any length and tables of any size: no call loses, duplicates or mixes up an
\* entry, answers are those of the map, and an iteration delivers what was there
\* when it began.
THEOREM TableImplementsMap ==
  ASSUME AllRules
  PROVE  Spec => ImplementsMap
<1>1. Init => TableInv /\ IterInv
  BY TableInit DEF Init, IterInv
<1>2. TableInv /\ IterInv /\ [Next]_vars => (TableInv /\ IterInv)'
  <2>1. "manual_rehash" \in TableRules
    BY DEF AllRules
  <2> QED
    BY <2>1, TableStep, IterStep
<1>3. Init => M!Init
  <2> SUFFICES ASSUME Init PROVE M!Init
    OBVIOUS
  <2>1. ht = NoTable /\ it = NoIterator /\ ret = <<>>
    BY DEF Init
  <2> QED
    BY <2>1, NoTableMap, NoTodo DEF M!Init
<1>4. TableInv /\ IterInv /\ (TableInv /\ IterInv)' /\ [Next]_vars => [M!Next]_(M!vars)
  BY MapStep DEF Steps
<1> QED
  BY <1>1, <1>2, <1>3, <1>4, PTL DEF Spec, ImplementsMap, M!Spec

=============================================================================
