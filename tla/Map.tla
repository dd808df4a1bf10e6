-------------------------------- MODULE Map --------------------------------
(***************************************************************************)
(* What the users of the hash table rely on, and ght_hash_table.h says: a  *)
(* map from keys to data.  Insertion never replaces, replacement never     *)
(* inserts, both answer with what was there.  An iteration delivers every  *)
(* entry that was there when it began; one that is inserted meanwhile      *)
(* "might or might not occur in the iteration".                            *)
(***************************************************************************)
EXTENDS Integers

CONSTANTS Keys, Values, Null

VARIABLES
  map,    \* the entries: a function from the keys that are present to data
  todo,   \* the keys the iteration in progress has still to deliver
  ret     \* the last operation and what it returned

vars == <<map, todo, ret>>

Init == map = <<>> /\ todo = {} /\ ret = <<>>

Present(k) == k \in DOMAIN map

Data(k) == IF Present(k) THEN map[k] ELSE Null

Put(k, v) == map' = [x \in DOMAIN map \cup {k} |-> IF x = k THEN v ELSE map[x]]

\* -1: the key is there; -2: out of memory.
Insert(k, v) ==
  \/ /\ Present(k)
     /\ ret' = <<"insert", -1>>
     /\ UNCHANGED <<map, todo>>
  \/ /\ ~Present(k)
     /\ ret' = <<"insert", -2>>
     /\ UNCHANGED <<map, todo>>
  \/ /\ ~Present(k)
     /\ ret' = <<"insert", 0>>
     /\ Put(k, v)
     /\ todo' \in {todo, todo \cup {k}}

Get(k) == ret' = <<"get", Data(k)>> /\ UNCHANGED <<map, todo>>

Replace(k, v) ==
  /\ ret' = <<"replace", Data(k)>>
  /\ IF Present(k) THEN Put(k, v) ELSE UNCHANGED map
  /\ UNCHANGED todo

Remove(k) ==
  /\ ret' = <<"remove", Data(k)>>
  /\ map' = [x \in DOMAIN map \ {k} |-> map[x]]
  /\ todo' = todo \ {k}

\* Deliver one of the keys that are due, or Null if none is.
Deliver(due) ==
  /\ UNCHANGED map
  /\ \/ due = {} /\ ret' = <<"next", Null>> /\ todo' = {}
     \/ \E k \in due \cap DOMAIN map : ret' = <<"next", k, map[k]>> /\ todo' = due \ {k}

First == Deliver(DOMAIN map)

Following == Deliver(todo)

\* Rehashing keeps the entries and ends the iteration; so does destroying the
\* table, which keeps nothing.
Rehash == UNCHANGED <<map, ret>> /\ todo' = {}

Destroy == map' = <<>> /\ todo' = {} /\ UNCHANGED ret

Next ==
  \/ \E k \in Keys, v \in Values : Insert(k, v) \/ Replace(k, v)
  \/ \E k \in Keys : Get(k) \/ Remove(k)
  \/ First \/ Following \/ Rehash \/ Destroy

Spec == Init /\ [][Next]_vars
=============================================================================
