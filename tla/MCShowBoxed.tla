---------------------------- MODULE MCShowBoxed ----------------------------
(***************************************************************************)
(* ShowBoxed for TLC: all short texts, and longer ones in which words get  *)
(* hyphenated, begin with other characters, or end right at the margin.    *)
(***************************************************************************)
EXTENDS ShowBoxed

Strings(cs, n) == [1..n -> cs]

ShortTexts ==
  UNION {Strings({"a", Space, Dash, Newline}, n) : n \in 1..5}
  \cup UNION {Strings({"a", Space, Dash, Newline, Cr, SoftHyphen}, n) : n \in 1..4}
  \cup Strings({"a", Space, Newline}, 6)

LongTexts ==
  {s \o [n \in 1..7 |-> "a"] \o e :
     s \in UNION {Strings({"a", Space, Dash}, n) : n \in 3..4}
            \cup {<<"a", Space, c>> : c \in {".", Cr, SoftHyphen}},
     e \in Strings({"a", Space, Dash, Newline, Cr, SoftHyphen}, 1)
            \cup {<<Dash, "a">>, <<Space, "a">>, <<SoftHyphen, "a">>, <<Cr, "a">>}}

SomeTexts == ShortTexts \cup LongTexts

\* hnj_hyphen_hyphenate counts letters only and leaves the first and the last
\* two together.
EvenBreak(w) ==
  {i \in 1..Len(SelectSeq(w, LAMBDA c : c = "a")) - 3 : i # 2}

B(w, h, i, hyph, lb, pb, m) ==
  [width |-> w, height |-> h, parindent |-> i, hyphenation |-> hyph,
   linebreak |-> lb, parbreak |-> pb, hmode |-> m]

SomeBoxes == {
  B(8, 2, 0, TRUE, FALSE, TRUE, "fulljustify"),
  B(4, 1, 1, TRUE, FALSE, TRUE, "justify"),
  B(3, 0, 0, FALSE, FALSE, TRUE, "left"),
  B(4, 2, 1, TRUE, TRUE, TRUE, "justify"),
  B(10, 3, 1, TRUE, FALSE, FALSE, "fulljustify")}
=============================================================================
