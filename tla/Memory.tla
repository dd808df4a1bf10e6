------------------------------- MODULE Memory -------------------------------
(***************************************************************************)
(* The memory functions a program may give to PS_new2: those that keep a    *)
(* list of all blocks (ps_memprof.c), on top of malloc, realloc and free.   *)
(*                                                                         *)
(* A memory m is a record: heap, the live blocks by address, with what they *)
(* hold; memlist, summem and peakmem as in the source; wild, whether        *)
(* something was freed twice or written outside of memlist.                 *)
(***************************************************************************)
EXTENDS Integers, FiniteSets, FiniteSetsExt

CONSTANTS
  Address,   \* where malloc may put a block
  MaxMem     \* MAXMEM, the slots of memlist

Null == 0

ASSUME AddressAssumption == Address \subseteq Nat \ {Null} /\ IsFiniteSet(Address)
ASSUME MaxMemAssumption == MaxMem \in Nat \ {0}

\* A slot, and whether its caller has been allocated, and freed again.
FreeSlot == [ptr |-> Null, size |-> 0, caller |-> "none"]

PS_mp_init ==
  [heap |-> <<>>, memlist |-> [i \in 1..MaxMem |-> FreeSlot],
   summem |-> 0, peakmem |-> 0, wild |-> FALSE]

----------------------------------------------------------------------------
(* malloc and free.                                                        *)

\* The address malloc returns next: what was freed is used again at once.
Fresh(m) == Min(Address \ DOMAIN m.heap)

\* A block at address a.
Put(m, a, data) ==
  [m EXCEPT !.heap = [x \in DOMAIN @ \cup {a} |-> IF x = a THEN data ELSE @[x]]]

Drop(m, a) ==
  [m EXCEPT !.heap = [x \in DOMAIN @ \ {a} |-> @[x]],
            !.wild = @ \/ a \notin DOMAIN m.heap]

----------------------------------------------------------------------------
(* The profiler.                                                           *)

\* The slot a search for p ends at; behind the last if there is none.
SlotOf(m, p) == Min({i \in 1..MaxMem : m.memlist[i].ptr = p} \cup {MaxMem + 1})

\* Slot i is for the block at a from now on.
Take(m, i, a, size) ==
  IF i > MaxMem THEN [m EXCEPT !.wild = TRUE]
  ELSE [m EXCEPT !.memlist[i] = [ptr |-> a, size |-> size, caller |-> "used"],
                 !.summem = @ - m.memlist[i].size + size]

PS_mp_malloc(m, size, data) ==
  LET taken == Take(Put(m, Fresh(m), data), SlotOf(m, Null), Fresh(m), size)
  IN  [taken EXCEPT !.peakmem = Max({@, taken.summem})]

\* The block moves; peakmem is left as it is, even if the sum is larger now.
\* The caller of the slot is freed, which for p = Null is a
\* free slot, and its caller may have been freed before.
PS_mp_realloc(m, p, size, data) ==
  LET i == SlotOf(m, p)
      moved == Put(IF p = Null THEN m ELSE Drop(m, p), Fresh(m), data)
      twice == i <= MaxMem /\ m.memlist[i].caller = "freed"
  IN  Take([moved EXCEPT !.wild = @ \/ twice], i, Fresh(m), size)

\* Mutant: the slot is searched for, but not given free.
FreeUnlisted(m, p) == IF p = Null THEN m ELSE Drop(m, p)

\* A null pointer, or a block that is in no slot, is only complained about.
PS_mp_free(m, p) ==
  LET i == SlotOf(m, p)
      unlisted == IF i > MaxMem THEN m
                  ELSE [m EXCEPT !.memlist[i] = [FreeSlot EXCEPT !.caller = "freed"],
                                 !.summem = @ - m.memlist[i].size]
  IN  IF p = Null THEN m ELSE Drop(unlisted, p)

\* The list is what is in memory, apart from the blocks in others, which were
\* not allocated by these functions, and the sums are right.
Profiled(m, others) ==
  LET used == {i \in 1..MaxMem : m.memlist[i].ptr # Null}
  IN  /\ {m.memlist[i].ptr : i \in used} = DOMAIN m.heap \ others
      /\ Cardinality(used) = Cardinality(DOMAIN m.heap \ others)
      /\ m.summem = MapThenSumSet(LAMBDA i : m.memlist[i].size, used)
=============================================================================
