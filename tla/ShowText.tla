------------------------------ MODULE ShowText ------------------------------
(***************************************************************************)
(* PS_show2 writes a text glyph by glyph, with kerning, ligatures and extra *)
(* space between; the interpreter's pen moves along, and the library keeps  *)
(* account of where it will be.  PS_string_geometry tells beforehand how    *)
(* wide the same text will get.                                            *)
(*                                                                         *)
(* The two are loops over the same characters.  Here a text is shown and    *)
(* measured at once, both loops going on by one round in a step: neither    *)
(* reads what the other writes.  Characters are counted from 1; lengths are *)
(* in units of which Unit make a point, at one size of the font, and only   *)
(* the x coordinates are kept.                                             *)
(***************************************************************************)
EXTENDS FontMetrics

CONSTANTS
  Chars,           \* characters of texts
  Inputenc,        \* their names, NoGlyph where the encoding has none
  Ligdischar,      \* the character that breaks ligatures
  Texts,           \* what a program shows
  Lengths,         \* <<how many characters it wants shown, and measured>>
  Charspacings, Wordspacings,  \* what it sets the values to
  Positions,       \* x coordinates it sets
  Unit,
  MaxX             \* bound: right of it the text position must be set anew

Question == "question"   \* the glyph of '?'

ASSUME InputencAssumption == Inputenc \in [Chars -> Names \cup {NoGlyph}]
ASSUME TextsAssumption == Texts \subseteq Seq(Chars) /\ Ligdischar \in Chars
ASSUME ValuesAssumption ==
  /\ Charspacings \subseteq Int /\ Wordspacings \subseteq Nat
  /\ Positions \subseteq Int /\ Lengths \subseteq Nat \X Int
ASSUME UnitAssumption == Unit \in Nat \ {0} /\ MaxX \in Int
ASSUME QuestionAssumption == Question \in Names

VARIABLES
  state,     \* psdoc->font set, its word space, and the values that matter
  pos,       \* the text position, and where PS_continue_text goes on from
  pen,       \* x of the interpreter's current point
  text,      \* what is shown
  show,      \* PS_show2
  meas,      \* PS_string_geometry
  pc

tvars == <<state, pos, pen, text, show, meas, pc>>
vars == <<font, reading, state, pos, pen, text, show, meas, pc>>

\* held: how wide the glyphs collected in strbuf are; glyphs: what has become
\* of the characters from..to.  back: where PS_continue_text2 returns to.
NoShow == [i |-> 1, len |-> 0, prevai |-> NoGlyph, overallwidth |-> 0, held |-> 0,
           glyphs |-> <<>>, continued |-> FALSE, back |-> 0]
NoMeas == [i |-> 1, len |-> 0, prevai |-> NoGlyph, width |-> 0]

Init ==
  /\ font = EmptyMetric /\ reading = NotReading
  /\ state = [font |-> FALSE, wordspace |-> 0, charspacing |-> 0,
              kerning |-> TRUE, ligatures |-> TRUE]
  /\ pos = [tx |-> 0, cx |-> 0]
  /\ pen = 0 /\ text = <<>> /\ show = NoShow /\ meas = NoMeas
  /\ pc = "off"

----------------------------------------------------------------------------
(* Pages, fonts, values and parameters.                                    *)

PS_begin_page ==
  /\ pc = "off"
  /\ pos' = [tx |-> 100 * Unit, cx |-> 100 * Unit]
  /\ pc' = "idle"
  /\ UNCHANGED <<font, reading, state, pen, text, show, meas>>

\* What is not read before the next page and the next PS_setfont set it is
\* forgotten.
PS_end_page ==
  /\ pc = "idle"
  /\ state' = [state EXCEPT !.font = FALSE, !.wordspace = 0]
  /\ pos' = [tx |-> 0, cx |-> 0]
  /\ pc' = "off"
  /\ UNCHANGED <<font, reading, pen, text, show, meas>>

Idle == pc = "idle" /\ pos.tx <= MaxX

\* Fonts are loaded anywhere; one is defined or changed between pages.
LoadFont ==
  \/ (pc = "off" \/ Idle) /\ FileNext /\ UNCHANGED tvars
  \/ pc = "off" /\ Type3Next /\ UNCHANGED tvars

\* ps_set_word_spacing of 0: the width of the blank.
DefaultWordspace == IF Space \in font.glyphs THEN font.width[Space] ELSE 500

PS_setfont ==
  /\ Idle /\ Reading("ready")
  /\ state' = [state EXCEPT !.font = TRUE, !.wordspace = DefaultWordspace]
  /\ UNCHANGED <<font, reading, pos, pen, text, show, meas, pc>>

Set(s) ==
  /\ Idle
  /\ state' = s
  /\ UNCHANGED <<font, reading, pos, pen, text, show, meas, pc>>

\* PS_set_value: the word space is given in widths of the blank, and left alone
\* if there is none.
SetWordspacing(v) ==
  /\ state.font /\ Space \in font.glyphs
  /\ Set([state EXCEPT !.wordspace = v * font.width[Space]])

SetCharspacing(v) == Set([state EXCEPT !.charspacing = v])

\* PS_set_parameter.
Toggle == Set([state EXCEPT !.kerning = ~@]) \/ Set([state EXCEPT !.ligatures = ~@])

PS_set_text_pos(x) ==
  /\ pc = "idle"
  /\ pos' = [tx |-> x, cx |-> x]
  /\ UNCHANGED <<font, reading, state, pen, text, show, meas, pc>>

----------------------------------------------------------------------------
(* The beginning of a call.                                                *)

Name(c) == Inputenc[c]

Visible(c) == Name(c) \in font.glyphs \ {Space}

\* How much of t PS_show2 shows if asked for n, and PS_string_geometry takes.
ShowLen(t, n) == IF n # 0 /\ n < Len(t) THEN n ELSE Len(t)
MeasLen(t, n) == IF n >= 0 /\ n < Len(t) THEN n ELSE Len(t)

\* PS_show2(t, xlen) from x on, and PS_stringwidth2(t, mlen).
Enter(t, mlen, x) ==
  /\ Idle /\ state.font
  /\ text' = t
  /\ pen' = x
  /\ meas' = [NoMeas EXCEPT !.len = MeasLen(t, mlen)]
  /\ pc' = "loop"
  /\ UNCHANGED <<font, reading, state>>

Show(xlen) == [NoShow EXCEPT !.len = ShowLen(text', xlen)]

PS_show2(t, xlen, mlen) ==
  /\ Enter(t, mlen, pos.tx)
  /\ show' = Show(xlen)
  /\ UNCHANGED pos

PS_show_xy2(t, xlen, mlen, x) ==
  /\ Enter(t, mlen, x)
  /\ show' = Show(xlen)
  /\ pos' = [tx |-> x, cx |-> x]

PS_continue_text2(t, xlen, mlen) ==
  /\ Enter(t, mlen, pos.cx)
  /\ show' = [Show(xlen) EXCEPT !.continued = TRUE, !.back = pos.tx]
  /\ pos' = [pos EXCEPT !.tx = pos.cx]

----------------------------------------------------------------------------
(* What both loops find at character i.                                    *)

Ligature(i) ==
  ps_check_for_lig(Name(text[i]), [k \in 1..Len(text) - i |-> Name(text[i + k])],
                   [k \in 1..Len(text) - i |-> text[i + k] = Ligdischar])

\* A ligature is taken if the font encoding and the font have it.
HasLigature(i) ==
  /\ state.ligatures /\ state.charspacing = 0
  /\ Ligature(i) \in LigFound
  /\ Ligature(i).name \in font.fontenc \cap font.glyphs

GlyphAt(i) == IF HasLigature(i) THEN Ligature(i).name ELSE Name(text[i])

\* The last character it stands for: the look-ahead ends at the end of the
\* text, not behind the characters that are to be shown.
LastOf(i) == IF HasLigature(i) THEN i + Ligature(i).offset ELSE i

Kern(prevai, ai) == IF state.kerning THEN calculatekern(prevai, ai) ELSE 0

\* The space counted behind a glyph that is not the last.
Spacing(last, len) == IF last < len THEN state.charspacing ELSE 0

----------------------------------------------------------------------------
(* One round of PS_show2.                                                  *)

Showing == show.i <= show.len

Became(glyph, last) == Append(show.glyphs, [glyph |-> glyph, from |-> show.i, to |-> last])

\* A character the input encoding does not name.
ShowUnnamed ==
  /\ Showing /\ Name(text[show.i]) = NoGlyph
  /\ show' = [show EXCEPT !.i = @ + 1, !.glyphs = Became(NoGlyph, show.i)]
  /\ UNCHANGED pen

\* A glyph the font does not have.
ShowMissing ==
  /\ Showing /\ Name(text[show.i]) # NoGlyph /\ Name(text[show.i]) \notin font.glyphs
  /\ show' = [show EXCEPT !.i = @ + 1, !.prevai = NoGlyph, !.glyphs = Became(NoGlyph, show.i)]
  /\ UNCHANGED pen

\* A blank: what is collected is written, and the pen moved.
ShowBlank ==
  /\ Showing /\ Name(text[show.i]) = Space /\ Space \in font.glyphs
  /\ LET space == state.wordspace + state.charspacing + Kern(show.prevai, Space)
     IN  /\ pen' = pen + show.held + space
         /\ show' = [show EXCEPT !.i = @ + 1, !.prevai = Space, !.held = 0,
                                 !.overallwidth = @ + space,
                                 !.glyphs = Became(Space, show.i)]

\* ps_fontenc_code: '?' for what is not in the font encoding.
WidthOut(g) == font.width[IF g \in font.fontenc THEN g ELSE Question]

\* Mutant: only kerning makes the pen move.
GapKern(kern, last) == IF kern # 0 /\ last > 1 THEN kern ELSE 0

\* How far the pen is moved before the glyph that ends at last.
Gap(kern, last) ==
  IF (kern # 0 \/ state.charspacing # 0) /\ last > 1 THEN kern + state.charspacing ELSE 0

\* A glyph or ligature.  What is collected is written before the pen is moved.
ShowGlyph ==
  /\ Showing /\ Visible(text[show.i])
  /\ LET g == GlyphAt(show.i)
         last == LastOf(show.i)
         kern == Kern(show.prevai, g)
         moves == kern # 0 \/ state.charspacing # 0
     IN  /\ pen' = IF moves /\ last > 1 THEN pen + show.held + Gap(kern, last) ELSE pen
         /\ show' = [show EXCEPT
              !.i = last + 1, !.prevai = g,
              !.overallwidth = @ + font.width[g] + kern + Spacing(last, show.len),
              !.held = (IF moves /\ last > 1 THEN 0 ELSE @) + WidthOut(g),
              !.glyphs = Became(g, last)]

ShowRound ==
  \/ ShowUnnamed \/ ShowMissing \/ ShowBlank \/ ShowGlyph
  \/ ~Showing /\ UNCHANGED <<show, pen>>

----------------------------------------------------------------------------
(* One round of PS_string_geometry.                                        *)

Measuring == meas.i <= meas.len

MeasureUnnamed ==
  /\ Measuring /\ Name(text[meas.i]) = NoGlyph
  /\ meas' = [meas EXCEPT !.i = @ + 1]

MeasureMissing ==
  /\ Measuring /\ Name(text[meas.i]) # NoGlyph /\ Name(text[meas.i]) \notin font.glyphs
  /\ meas' = [meas EXCEPT !.i = @ + 1, !.prevai = NoGlyph]

\* Neither kerning nor the extra space counts.
MeasureBlank ==
  /\ Measuring /\ Name(text[meas.i]) = Space /\ Space \in font.glyphs
  /\ meas' = [meas EXCEPT !.i = @ + 1, !.prevai = Space, !.width = @ + state.wordspace]

MeasureGlyph ==
  /\ Measuring /\ Visible(text[meas.i])
  /\ LET g == GlyphAt(meas.i)
         last == LastOf(meas.i)
     IN  meas' = [meas EXCEPT
           !.i = last + 1, !.prevai = g,
           !.width = @ + font.width[g] + Spacing(last, meas.len) + Kern(meas.prevai, g)]

MeasureRound ==
  \/ MeasureUnnamed \/ MeasureMissing \/ MeasureBlank \/ MeasureGlyph
  \/ ~Measuring /\ UNCHANGED meas

Round ==
  /\ pc = "loop" /\ (Showing \/ Measuring)
  /\ ShowRound /\ MeasureRound
  /\ UNCHANGED <<font, reading, state, pos, text, pc>>

----------------------------------------------------------------------------
(* The end of a call.                                                      *)

\* The rest is written, and the text position moved on.
EndShow ==
  /\ pc = "loop" /\ ~Showing /\ ~Measuring
  /\ pen' = pen + show.held
  /\ pos' = [pos EXCEPT !.tx = @ + show.overallwidth]
  /\ pc' = "shown"
  /\ UNCHANGED <<font, reading, state, text, show, meas>>

\* Conversion to int.
Whole(x) == IF x >= 0 THEN x - (x % Unit) ELSE (-x % Unit) + x

\* PS_continue_text2 has kept the position in a variable of type int.
Return ==
  /\ pc = "shown"
  /\ pos' = IF show.continued
            THEN [pos EXCEPT !.tx = Whole(show.back)] ELSE pos
  /\ text' = <<>> /\ pen' = 0 /\ show' = NoShow /\ meas' = NoMeas
  /\ pc' = "idle"
  /\ UNCHANGED <<font, reading, state>>

\* A single glyph, by its name.
PS_glyph_show(g) ==
  /\ Idle /\ state.font
  /\ g \in font.glyphs
  /\ pen' = pos.tx + font.width[g]
  /\ pos' = [pos EXCEPT !.tx = @ + font.width[g]]
  /\ pc' = "shown"
  /\ UNCHANGED <<font, reading, state, text, show, meas>>

\* A single glyph, by its code: it has one in the font encoding.
PS_symbol(g) == g \in font.fontenc /\ PS_glyph_show(g)

Calls ==
  \E t \in Texts, l \in Lengths :
    \/ PS_show2(t, l[1], l[2])
    \/ \E x \in Positions : PS_show_xy2(t, l[1], l[2], x)
    \/ PS_continue_text2(t, l[1], l[2])

Next ==
  \/ PS_begin_page \/ PS_end_page \/ LoadFont \/ PS_setfont
  \/ \E v \in Wordspacings : SetWordspacing(v)
  \/ \E v \in Charspacings : SetCharspacing(v)
  \/ Toggle
  \/ \E x \in Positions : PS_set_text_pos(x)
  \/ Calls \/ Round \/ EndShow \/ Return
  \/ \E g \in Names : PS_symbol(g) \/ PS_glyph_show(g)

Spec == Init /\ [][Next]_vars

----------------------------------------------------------------------------
(* Properties.                                                             *)

Glyph == Names \cup {NoGlyph}

Written == [glyph : Glyph, from : Nat, to : Nat]

\* Type invariant.
XTypeOK ==
  /\ FTypeOK
  /\ state \in [font : BOOLEAN, wordspace : Nat, charspacing : Int,
                kerning : BOOLEAN, ligatures : BOOLEAN]
  /\ pos \in [tx : Int, cx : Int] /\ pen \in Int
  /\ text \in Seq(Chars)
  /\ show \in [i : Nat \ {0}, len : 0..Len(text), prevai : Glyph, overallwidth : Int,
               held : Int, glyphs : Seq(Written), continued : BOOLEAN, back : Int]
  /\ meas \in [i : Nat \ {0}, len : 0..Len(text), prevai : Glyph, width : Int]
  /\ pc \in {"off", "idle", "loop", "shown"}

\* What the input encoding names and the font has is in the font encoding.
Encoded == \A c \in Chars : Name(c) \in font.glyphs => Name(c) \in font.fontenc

\* A text with extra space between its glyphs begins and ends with a glyph.
EndsVisible ==
  state.charspacing # 0 /\ show.len > 0 => Visible(text[1]) /\ Visible(text[show.len])

\* A text with extra space between its glyphs has no blank.
OneWord == state.charspacing # 0 => \A k \in 1..show.len : Name(text[k]) # Space

\* Behind every text, with all its ligatures, kerning and extra space, and
\* though the library counts the space behind the glyphs and writes it before
\* them: the text position the library goes on from is where the pen is.
PenKnown == pc = "shown" /\ Encoded /\ EndsVisible => pen = pos.tx

\* PS_stringwidth: "Calculates the width of a string in points if it was
\* output" (doc/PS_stringwidth2.sgml): it is what PS_show2 moves on by, though
\* the one counts kerning before a blank and the other does not.
MeasuredAsShown ==
  pc = "shown" /\ meas.len = show.len /\ OneWord => meas.width = show.overallwidth

\* The glyphs that ligatures make of the characters p..q.
Made(p, q) ==
  LET made[s \in (1..Len(text)) \X (1..Len(text))] ==
        IF s[1] = s[2] THEN {Name(text[s[1]])} \cap font.glyphs
        ELSE {g \in Names : \E k \in s[1]..s[2] - 1 :
                \E x \in made[<<s[1], k>>], y \in made[<<k + 1, s[2]>>] : g = font.lig[<<x, y>>]}
  IN  made[<<p, q>>]

\* Whatever look-ahead found it, a glyph is one that ligatures of the font make
\* of the characters it is written for, and of none that are apart by the
\* character that breaks ligatures, which is passed over at its end.
GlyphsStandForText ==
  pc = "shown" =>
    \A e \in {show.glyphs[k] : k \in DOMAIN show.glyphs} :
      LET last == IF e.from < e.to /\ text[e.to] = Ligdischar THEN e.to - 1 ELSE e.to
      IN  /\ e.to <= Len(text)
          /\ \A k \in e.from + 1..last : text[k] # Ligdischar
          /\ e.glyph # NoGlyph => e.glyph \in Made(e.from, last)

\* "pslib automatically inserts a ligature if the character sequence of that
\* ligature is found" (doc/pslib.sgml): two characters that make one are not
\* written apart, if all ligatures of the font can be written.
NoPairMissed ==
  pc = "shown" /\ state.ligatures /\ state.charspacing = 0
    /\ (\A p \in Names \X Names :
          font.lig[p] # NoGlyph => font.lig[p] \in font.glyphs \cap font.fontenc)
  => \A e \in {show.glyphs[k] : k \in DOMAIN show.glyphs} :
       LET next == Name(text[e.to + 1])
       IN  ( /\ e.from = e.to /\ e.to < Len(text)
             /\ e.glyph \notin {NoGlyph, Space}
             /\ next \in font.glyphs /\ text[e.to + 1] # Ligdischar )
           => font.lig[<<e.glyph, next>>] = NoGlyph
=============================================================================
