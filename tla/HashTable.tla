----------------------------- MODULE HashTable -----------------------------
(***************************************************************************)
(* The hash table pslib keeps the glyphs of a font, its encodings and      *)
(* option lists in (libghthash).  Entries are chained by p_next and p_prev *)
(* in buckets, pp_entries points to the first of each bucket, and a key is *)
(* found by walking the chain of its bucket.                               *)
(*                                                                         *)
(* An operator named after a function maps the table it is called with to  *)
(* the table it leaves; an action is one call by the program.  One         *)
(* iteration may be in progress meanwhile.                                 *)
(***************************************************************************)
EXTENDS Integers, Sequences, FiniteSets, SequencesExt

CONSTANTS
  Keys, Values,   \* data are pointers that are not null, as in pslib, which
                  \* adds one to the codes it stores
  Address, Spot,  \* where fn_alloc may put an entry, and where it puts one if
                  \* it can: addresses are only compared, so any choice will do
  Hash,           \* fn_hash
  Sizes,          \* what ght_create and ght_rehash are called with
  TableRules      \* what the caller takes care of, see Allowed

Null == 0

ASSUME ValuesAssumption == Null \notin Values
ASSUME AddressAssumption == Address \subseteq Nat \ {0} /\ IsFiniteSet(Address)
ASSUME SpotAssumption == Spot \in [Keys -> Address]
ASSUME HashAssumption == Hash \in [Keys -> Nat]
ASSUME SizesAssumption == Sizes \subseteq Nat \ {0}
ASSUME TableRulesAssumption ==
  TableRules \subseteq {"manual_rehash", "safe_removal", "no_reordering"}

VARIABLES
  ht,    \* the table, with he: its entries by address
  it,    \* the iterator of the caller, and the keys it has been given
  ret    \* the last call and what it returned: <<call, result>>, or
         \* <<"next", key, data>> from an iteration

vars == <<ht, it, ret>>

Heuristics == {"none", "transpose", "move_to_front"}

NoTable == [i_size |-> 0, i_items |-> 0, pp_entries |-> <<>>, p_nr |-> <<>>,
            i_heuristics |-> "none", i_automatic_rehash |-> FALSE, he |-> <<>>]

NoIterator == [live |-> FALSE, i_curr_bucket |-> 0, p_next |-> Null, seen |-> {}]

\* fn_hash(key) & i_size_mask: i_size is a power of two.
BucketOf(t, k) == Hash[k] % t.i_size

\* The least power of two that is not less than n, found by doubling.
RoundUp(n) ==
  LET power[i \in 0..n] == IF i = 0 THEN 1 ELSE 2 * power[i - 1]
  IN  power[CHOOSE i \in 0..n : power[i] >= n /\ \A j \in 0..i - 1 : power[j] < n]

ght_create(n) ==
  LET size == RoundUp(n)
  IN  [NoTable EXCEPT !.i_size = size,
                      !.pp_entries = [l \in 0..size - 1 |-> Null],
                      !.p_nr = [l \in 0..size - 1 |-> 0]]

----------------------------------------------------------------------------
(* Chains.                                                                 *)

\* The addresses from a on along p_next.
Chain(t, a) ==
  LET upto[n \in 0..Cardinality(Address)] ==
        IF n = 0 \/ a = Null THEN <<>>
        ELSE IF n = 1 THEN <<a>>
        ELSE LET s == upto[n - 1]
             IN  IF Len(s) < n - 1 \/ t.he[Last(s)].p_next = Null
                 THEN s
                 ELSE Append(s, t.he[Last(s)].p_next)
  IN  upto[Cardinality(Address)]

Bucket(t, l) == Chain(t, t.pp_entries[l])

InChain(t, l) == ToSet(Bucket(t, l))

\* The entry search_in_bucket finds, before it moves it.
Search(t, l, k) ==
  LET chain == InChain(t, l)
      found == {a \in DOMAIN t.he : a \in chain /\ t.he[a].key = k}
  IN  IF found = {} THEN Null ELSE CHOOSE a \in found : TRUE

\* Mutant: the entry that is now second keeps its old predecessor.
TransposeOneWay(t, l, e) ==
  LET x == t.he[e].p_prev
      a == t.he[x].p_prev
      b == t.he[e].p_next
  IN  IF x = Null THEN t
      ELSE [t EXCEPT
             !.pp_entries[l] = IF a = Null THEN e ELSE @,
             !.he = [n \in DOMAIN @ |->
               CASE n = e -> [@[n] EXCEPT !.p_next = x, !.p_prev = a]
                 [] n = x -> [@[n] EXCEPT !.p_next = b, !.p_prev = e]
                 [] n = a -> [@[n] EXCEPT !.p_next = e]
                 [] OTHER -> @[n]]]

\* Move e one up: a, x, e, b become a, e, x, b.
transpose(t, l, e) ==
  LET x == t.he[e].p_prev
      a == t.he[x].p_prev
      b == t.he[e].p_next
  IN  IF x = Null THEN t
      ELSE [t EXCEPT
             !.pp_entries[l] = IF a = Null THEN e ELSE @,
             !.he = [n \in DOMAIN @ |->
               CASE n = e -> [@[n] EXCEPT !.p_next = x, !.p_prev = a]
                 [] n = x -> [@[n] EXCEPT !.p_next = b, !.p_prev = e]
                 [] n = a -> [@[n] EXCEPT !.p_next = e]
                 [] n = b -> [@[n] EXCEPT !.p_prev = x]
                 [] OTHER -> @[n]]]

\* Link e out of where it is and in before the first.
move_to_front(t, l, e) ==
  LET p == t.he[e].p_prev
      b == t.he[e].p_next
      f == t.pp_entries[l]
  IN  IF e = f THEN t
      ELSE [t EXCEPT
             !.pp_entries[l] = e,
             !.he = [n \in DOMAIN @ |->
               [t.he[n] EXCEPT !.p_next = IF n = e THEN f ELSE IF n = p THEN b ELSE @,
                               !.p_prev = IF n = e THEN Null ELSE IF n = f THEN e
                                          ELSE IF n = b THEN p ELSE @]]]

\* What search_in_bucket does to the chain once it has found e.
Touch(t, l, e) ==
  CASE e = Null -> t
    [] e # Null /\ t.i_heuristics = "move_to_front" -> move_to_front(t, l, e)
    [] e # Null /\ t.i_heuristics = "transpose" -> transpose(t, l, e)
    [] e # Null /\ t.i_heuristics = "none" -> t

----------------------------------------------------------------------------
(* The operations.                                                         *)

\* Link a new entry at a in before the first of bucket l.
PlaceFirst(t, l, a, k, v) ==
  [t EXCEPT !.pp_entries[l] = a, !.p_nr[l] = @ + 1, !.i_items = @ + 1,
            !.he = [n \in DOMAIN @ \cup {a} |->
               IF n = a
               THEN [key |-> k, data |-> v, p_next |-> t.pp_entries[l], p_prev |-> Null]
               ELSE IF n = t.pp_entries[l] THEN [@[n] EXCEPT !.p_prev = a] ELSE @[n]]]

\* The entries in the order ght_first and ght_next come by them.
Walk(t) == FlattenSeq([i \in 1..t.i_size |-> Bucket(t, i - 1)])

\* Entry a of table t moves to the table new.  It gets the address it had:
\* only the iterator could tell, which a rehash ends.
MoveEntry(new, t, a) ==
  LET k == t.he[a].key
  IN  IF Search(new, BucketOf(new, k), k) # Null THEN new
      ELSE PlaceFirst(new, BucketOf(new, k), a, k, t.he[a].data)

\* The entries move to a table of another size and the old ones are freed.
ght_rehash(t, n) ==
  LET walk == Walk(t)
      moved[i \in 0..Len(walk)] ==
        IF i = 0 THEN ght_create(n) ELSE MoveEntry(moved[i - 1], t, walk[i])
  IN  [moved[Len(walk)] EXCEPT !.i_heuristics = t.i_heuristics,
                               !.i_automatic_rehash = t.i_automatic_rehash]

Fresh(t) == Address \ DOMAIN t.he

he_create(t, k) == IF Spot[k] \in Fresh(t) THEN Spot[k] ELSE CHOOSE x \in Fresh(t) : TRUE

\* The entry goes into bucket l, computed before the table may change its size.
ght_insert(t, k, v) ==
  LET l == BucketOf(t, k)
      rehashed == IF t.i_automatic_rehash /\ t.i_items > 2 * t.i_size
                  THEN ght_rehash(t, 2 * t.i_size) ELSE t
  IN  IF Search(t, l, k) # Null \/ Fresh(t) = {} THEN t
      ELSE PlaceFirst(rehashed, l, he_create(t, k), k, v)

InsertResult(t, k) ==
  IF Search(t, BucketOf(t, k), k) # Null THEN -1 ELSE IF Fresh(t) = {} THEN -2 ELSE 0

DataAt(t, a) == IF a = Null THEN Null ELSE t.he[a].data

ght_get(t, k) == Touch(t, BucketOf(t, k), Search(t, BucketOf(t, k), k))

\* Mutant: replaces what it has moved, which is not there to be replaced.
ReplaceInserts(t, k, v) ==
  IF Search(t, BucketOf(t, k), k) = Null THEN ght_insert(t, k, v)
  ELSE [ght_get(t, k) EXCEPT !.he[Search(t, BucketOf(t, k), k)].data = v]

ght_replace(t, k, v) ==
  LET e == Search(t, BucketOf(t, k), k)
  IN  IF e = Null THEN t ELSE [ght_get(t, k) EXCEPT !.he[e].data = v]

ght_remove(t, k) ==
  LET l == BucketOf(t, k)
      e == Search(t, l, k)
      p == t.he[e].p_prev
      b == t.he[e].p_next
  IN  IF e = Null THEN t
      ELSE [t EXCEPT
             !.i_items = @ - 1, !.p_nr[l] = @ - 1,
             !.pp_entries[l] = IF p = Null THEN b ELSE @,
             !.he = [n \in DOMAIN @ \ {e} |->
               [t.he[n] EXCEPT !.p_next = IF n = p THEN b ELSE @,
                               !.p_prev = IF n = b THEN p ELSE @]]]

\* ght_finalize: every chain is freed, then the table.  An entry in no chain stays.
ght_finalize(t) ==
  [NoTable EXCEPT !.he =
     [a \in DOMAIN t.he \ UNION {InChain(t, l) : l \in 0..t.i_size - 1} |-> t.he[a]]]

----------------------------------------------------------------------------
(* Iteration.                                                              *)

\* The first bucket from l on that has an entry, i_size if there is none.
NonEmpty(t, l) ==
  LET full == {b \in l..t.i_size - 1 : t.pp_entries[b] # Null}
  IN  IF full = {} THEN t.i_size ELSE CHOOSE b \in full : \A c \in full : b <= c

\* The iterator stands on entry a of bucket l and knows what comes next.
At(t, i, l, a) ==
  [live |-> TRUE, i_curr_bucket |-> l, p_next |-> t.he[a].p_next,
   seen |-> i.seen \cup {t.he[a].key}]

\* Mutant: behind the last bucket the iterator stays where it is.
FromBucketStays(t, i, l) ==
  IF NonEmpty(t, l) = t.i_size THEN i
  ELSE At(t, i, NonEmpty(t, l), t.pp_entries[NonEmpty(t, l)])

\* The entry an iterator comes to in the buckets from l on.
FromBucket(t, i, l) ==
  IF NonEmpty(t, l) = t.i_size THEN NoIterator
  ELSE At(t, i, NonEmpty(t, l), t.pp_entries[NonEmpty(t, l)])

ght_first(t) == FromBucket(t, NoIterator, 0)

\* Mutant: the next entry is looked up where the iterator stands.
NextSameBucket(t, i) ==
  IF i.p_next # Null THEN At(t, i, i.i_curr_bucket, i.p_next)
  ELSE FromBucket(t, i, i.i_curr_bucket)

ght_next(t, i) ==
  IF i.p_next # Null THEN At(t, i, i.i_curr_bucket, i.p_next)
  ELSE FromBucket(t, i, i.i_curr_bucket + 1)

\* What ght_first and ght_next return: the entry come by, Null at the end.
Entry(t, a) ==
  IF a = Null THEN <<"next", Null>> ELSE <<"next", t.he[a].key, t.he[a].data>>

FirstEntry(t, l) ==
  IF NonEmpty(t, l) = t.i_size THEN Null ELSE t.pp_entries[NonEmpty(t, l)]

NextEntry(t, i) ==
  IF i.p_next # Null THEN i.p_next ELSE FirstEntry(t, i.i_curr_bucket + 1)

----------------------------------------------------------------------------
(* The caller.  It keeps the rules it is given:                            *)
(*   manual_rehash: it does not switch automatic rehashing on;             *)
(*   safe_removal:  during an iteration it removes only what it has been   *)
(*                  given;                                                 *)
(*   no_reordering: during an iteration it does not look up keys, and so   *)
(*                  move entries, with a heuristic set.                    *)

Exists == ht.i_size > 0

Rule(r, holds) == r \in TableRules => holds

Init == ht = NoTable /\ it = NoIterator /\ ret = <<>>

Create(n) ==
  /\ ~Exists
  /\ ht' = [ght_create(n) EXCEPT !.he = ht.he]
  /\ UNCHANGED <<it, ret>>

Insert(k, v) ==
  /\ Exists
  /\ ht' = ght_insert(ht, k, v)
  /\ ret' = <<"insert", InsertResult(ht, k)>>
  /\ UNCHANGED it

\* fn_alloc fails.
InsertFails(k) ==
  /\ Exists
  /\ Search(ht, BucketOf(ht, k), k) = Null
  /\ ret' = <<"insert", -2>>
  /\ UNCHANGED <<ht, it>>

LookUp == Exists /\ Rule("no_reordering", it.live => ht.i_heuristics = "none")

Get(k) ==
  /\ LookUp
  /\ ht' = ght_get(ht, k)
  /\ ret' = <<"get", DataAt(ht, Search(ht, BucketOf(ht, k), k))>>
  /\ UNCHANGED it

Replace(k, v) ==
  /\ LookUp
  /\ ht' = ght_replace(ht, k, v)
  /\ ret' = <<"replace", DataAt(ht, Search(ht, BucketOf(ht, k), k))>>
  /\ UNCHANGED it

RemoveKey(k) ==
  /\ Exists
  /\ Rule("safe_removal", it.live => k \in it.seen)
  /\ ht' = ght_remove(ht, k)
  /\ ret' = <<"remove", DataAt(ht, Search(ht, BucketOf(ht, k), k))>>
  /\ UNCHANGED it

\* A loop over the table runs to its end before the next one begins.
First ==
  /\ Exists
  /\ ~it.live
  /\ it' = ght_first(ht)
  /\ ret' = Entry(ht, FirstEntry(ht, 0))
  /\ UNCHANGED ht

Following ==
  /\ it.live
  /\ it' = ght_next(ht, it)
  /\ ret' = Entry(ht, NextEntry(ht, it))
  /\ UNCHANGED ht

SetHeuristics(h) ==
  /\ Exists
  /\ ht' = [ht EXCEPT !.i_heuristics = h]
  /\ UNCHANGED <<it, ret>>

SetRehash(b) ==
  /\ Exists
  /\ Rule("manual_rehash", ~b)
  /\ ht' = [ht EXCEPT !.i_automatic_rehash = b]
  /\ UNCHANGED <<it, ret>>

Rehash(n) ==
  /\ Exists
  /\ ht' = ght_rehash(ht, n)
  /\ it' = NoIterator
  /\ UNCHANGED ret

Destroy ==
  /\ Exists
  /\ ht' = ght_finalize(ht)
  /\ it' = NoIterator
  /\ UNCHANGED ret

Next ==
  \/ \E n \in Sizes : Create(n) \/ Rehash(n)
  \/ \E k \in Keys, v \in Values : Insert(k, v) \/ InsertFails(k) \/ Replace(k, v)
  \/ \E k \in Keys : Get(k) \/ RemoveKey(k)
  \/ First \/ Following
  \/ \E h \in Heuristics : SetHeuristics(h)
  \/ \E b \in BOOLEAN : SetRehash(b)
  \/ Destroy

Spec == Init /\ [][Next]_vars

\* A loop over a table calls ght_next until it returns Null.
FairSpec == Spec /\ WF_vars(Following)

----------------------------------------------------------------------------
(* Properties.                                                             *)

Used == DOMAIN ht.he

Pointer == {Null} \cup Used

\* i_items and p_nr are the number of entries one comes by in the chains, and
\* no entry in memory is in none.
Counted ==
  /\ ht.i_items = Cardinality(Used)
  /\ Exists => Len(Walk(ht)) = ht.i_items
  /\ \A l \in DOMAIN ht.p_nr : ht.p_nr[l] = Len(Bucket(ht, l))

\* No link leads to an entry that is freed: every entry lies in the bucket of
\* its key, p_next and p_prev are each other's inverse, an entry without
\* predecessor is the first of its bucket: what transpose, move_to_front and the
\* unlinking of an entry rely on; and all of them are counted.
Linked ==
  /\ Used # {} => Exists
  /\ ht.pp_entries \in [0..ht.i_size - 1 -> Pointer]
  /\ \A a \in Used : ht.he[a].p_next \in Pointer /\ ht.he[a].p_prev \in Pointer
  /\ \A l \in DOMAIN ht.pp_entries : ht.pp_entries[l] # Null =>
       /\ ht.he[ht.pp_entries[l]].p_prev = Null
       /\ BucketOf(ht, ht.he[ht.pp_entries[l]].key) = l
  /\ \A a \in Used :
       LET e == ht.he[a]
       IN  /\ e.p_prev = Null => ht.pp_entries[BucketOf(ht, e.key)] = a
           /\ e.p_prev # Null => ht.he[e.p_prev].p_next = a
           /\ e.p_next # Null =>
                /\ ht.he[e.p_next].p_prev = a
                /\ BucketOf(ht, ht.he[e.p_next].key) = BucketOf(ht, e.key)
  /\ Counted

\* An iteration gives no key twice, though entries are inserted, removed and
\* inserted again meanwhile.
NoKeyTwice ==
  [][Following /\ it'.live => it'.seen # it.seen]_vars

\* An iteration that goes on comes to its end, whatever else is done to the
\* table meanwhile.
IterationEnds == it.live ~> ~it.live

----------------------------------------------------------------------------
(* Refinement: the chains are the map, and what the iterator still comes by *)
(* is what is still to be delivered.                                        *)

Reached(t) == UNION {InChain(t, l) : l \in DOMAIN t.pp_entries}

MapOf(t) ==
  LET reached == Reached(t)
  IN  [k \in {t.he[a].key : a \in reached} |->
         t.he[CHOOSE a \in reached : t.he[a].key = k].data]

TodoOf(t, i) ==
  IF ~i.live THEN {}
  ELSE {t.he[a].key : a \in
          ToSet(Chain(t, i.p_next))
            \cup UNION {InChain(t, l) : l \in i.i_curr_bucket + 1..t.i_size - 1}}

M == INSTANCE Map WITH map <- MapOf(ht), todo <- TodoOf(ht, it)

\* Under all rules the table implements the map: no operation loses, duplicates
\* or mixes up an entry, in whatever order entries lie in the chains.
ImplementsMap == M!Spec
=============================================================================
