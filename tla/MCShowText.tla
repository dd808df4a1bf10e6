----------------------------- MODULE MCShowText -----------------------------
(***************************************************************************)
(* ShowText for TLC: fonts with ligatures that build on each other, that    *)
(* lack a glyph or an encoded name, with kerning beside blanks, and of      *)
(* fixed pitch; all texts of two characters, and longer ones in which       *)
(* ligatures of three characters are broken at each place.                 *)
(***************************************************************************)
EXTENDS ShowText

SomeNames == {"f", "i", "fi", "ff", "ffi", "space", "bar", "question"}

NoLigs == [n \in SomeNames |-> NoGlyph]

C(n, w, l) == [op |-> "C", name |-> n, width |-> w, ligs |-> l]
KPX(n, m, d) == [op |-> "KPX", name |-> n, succ |-> m, kern |-> d]
Remove(a, b) == [op |-> "{}", first |-> a, second |-> b]
Lig(a, b, c) == [op |-> "=:", first |-> a, second |-> b, sub |-> c]

SomeStaticligkern ==
  <<Remove("space", Any), Remove(Any, "space"),
    Lig("f", "i", "fi"), Lig("f", "f", "ff"), Lig("ff", "i", "ffi")>>

Letters == <<C("space", 25, NoLigs), C("f", 31, NoLigs), C("i", 12, NoLigs),
             C("question", 44, NoLigs), C("bar", 20, NoLigs)>>

Kerned == <<KPX("f", "space", 6), KPX("space", "f", 3), KPX("f", "i", -2),
            KPX("ff", "i", -1), KPX("fi", "f", 4), KPX("i", "f", 5), KPX("fi", "space", 1)>>

File(afm, fixed, builtin, enc, cmds) ==
  [afm |-> afm, fixedpitch |-> fixed, builtin |-> builtin, fontenc |-> enc, ligkern |-> cmds]

SomeFontFiles == {
  \* ligatures of the built-in commands and of the file, ffi not encoded
  File(Letters \o <<C("fi", 40, NoLigs), C("ff", 55, NoLigs), C("ffi", 70, NoLigs)>> \o Kerned,
       FALSE, FALSE, SomeNames, <<>>),
  File(Letters \o <<C("fi", 40, NoLigs), C("ff", 55, NoLigs), C("ffi", 70, NoLigs)>> \o Kerned,
       FALSE, FALSE, SomeNames \ {"ffi"}, <<>>),
  \* f and fi make ffi, so that what follows f is looked at first
  File(<<C("space", 25, NoLigs), C("f", 31, [NoLigs EXCEPT !["i"] = "fi", !["fi"] = "ffi"]),
         C("i", 12, NoLigs), C("fi", 40, NoLigs), C("ffi", 70, NoLigs),
         C("bar", 20, NoLigs), C("i", 99, NoLigs)>> \o Kerned,
       FALSE, FALSE, SomeNames, <<Remove(Any, "space"), Lig("i", "i", "i")>>),
  \* every pair that follows f makes one, too
  File(Letters \o <<C("fi", 40, NoLigs), C("ff", 55, NoLigs)>> \o Kerned,
       FALSE, FALSE, SomeNames \ {"bar"},
       <<Remove("f", "space"), Remove(Any, "space"), Lig("f", "f", "ff"), Lig("f", "i", "fi")>>),
  \* fixed pitch: no ligatures, no blank
  File(<<C("f", 31, [NoLigs EXCEPT !["i"] = "fi"]), C("i", 31, NoLigs)>>,
       TRUE, TRUE, {"f", "i"}, <<>>)}

SomeChars == {"f", "i", " ", "|", "0"}

SomeInputenc ==
  [c \in SomeChars |-> CASE c = " " -> "space" [] c = "|" -> "bar" [] c = "0" -> NoGlyph
                         [] OTHER -> c]

Strings(cs, n) == [1..n -> cs]

SomeTexts ==
  UNION {Strings({"f", "i", " ", "|"}, n) : n \in 0..2}
    \cup {<<"0", "f">>, <<"f", "0", "i">>, <<"f", "f", "i">>, <<"f", "i", "|">>,
          <<"f", "f", "|", "i">>, <<"f", "|", "f", "i">>, <<"i", "f", " ", "f", "f", "i", "f">>}

SomeLengths == {<<0, -1>>, <<0, 0>>, <<2, 2>>}

SomeType3Width == [n \in {"f", "i", "fi"} |-> 50]
SomeType3Kerns == {[first |-> "f", second |-> "i", kern |-> -7]}
SomeType3Ligs == {[first |-> "f", second |-> "i", sub |-> "fi"]}
=============================================================================
