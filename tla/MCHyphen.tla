------------------------------ MODULE MCHyphen ------------------------------
(***************************************************************************)
(* Hyphen for TLC.  All patterns of two letters make a dictionary dense;   *)
(* one of three goes beyond them, one replaces another line, two stand at  *)
(* the beginning of a word and one at its end.                             *)
(***************************************************************************)
EXTENDS Hyphen

Line(w, digits) == [word |-> w, pattern |-> [k \in 0..Len(w) |-> digits[k + 1]]]

SomeLines == {
  Line(<<"a", "a">>, <<0, 1, 0>>),
  Line(<<"a", "b">>, <<0, 2, 0>>),
  Line(<<"a", "b">>, <<0, 1, 0>>),
  Line(<<"b", "a">>, <<1, 0, 0>>),
  Line(<<"b", "b">>, <<0, 1, 0>>),
  Line(<<"a", "b", "a">>, <<0, 3, 0, 0>>),
  Line(<<".", "a">>, <<0, 0, 2>>),
  Line(<<".", "b">>, <<0, 0, 1>>)}

Words(ls, n) == [1..n -> ls]

SomeTexts ==
  UNION {Words({"a", "b"}, n) : n \in {3, 5, 6}}
    \cup {<<"2">> \o w : w \in Words({"a", "b"}, 4)}
    \cup {<<"a", "2", "b", "a", "b", "b">>, <<"2", "2", "2">>}
=============================================================================
