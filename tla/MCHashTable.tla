---------------------------- MODULE MCHashTable ----------------------------
(***************************************************************************)
(* HashTable for TLC.  In a table of one bucket all keys meet, so that an  *)
(* entry is moved and removed at either end and in the middle of a chain;  *)
(* in one of four two of them still do and the third lies apart.           *)
(***************************************************************************)
EXTENDS HashTable

ThreeKeys == {"a", "b", "c"}
Hashes == [k \in ThreeKeys |-> CASE k = "a" -> 0 [] k = "b" -> 4 [] k = "c" -> 1]
Spots == [k \in ThreeKeys |-> CASE k = "a" -> 1 [] k = "b" -> 2 [] k = "c" -> 3]
=============================================================================
