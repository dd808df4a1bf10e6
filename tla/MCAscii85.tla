----------------------------- MODULE MCAscii85 -----------------------------
(***************************************************************************)
(* Ascii85 for TLC, with bytes of six values and five digits: 6^4 numbers  *)
(* in 5^5.  All groups; all tails behind some groups; data that is short.  *)
(***************************************************************************)
EXTENDS Ascii85

Groups == [1..4 -> 0..Byte - 1]
Tails == UNION {[1..n -> 0..Byte - 1] : n \in 0..3}
SomeGroups == {<<0, 0, 0, 0>>, <<0, 0, 0, 1>>, <<5, 5, 5, 5>>}

AllInputs ==
  Groups \cup {<<0>>, <<1, 2, 3>>} \cup {g \o t : g \in SomeGroups, t \in Tails}
    \cup {g \o h \o t : g, h \in SomeGroups, t \in {<<>>, <<1>>, <<5, 2>>}}
=============================================================================
