-------------------------- MODULE ShowText_proofs --------------------------
(***************************************************************************)
(* For every font, text and setting: the position the library goes on from *)
(* behind a text is where the interpreter's pen is, and the width it       *)
(* calculates beforehand is the one it moves on by; the glyphs it writes   *)
(* stand for the characters of the text, and no ligature is missed.        *)
(***************************************************************************)
EXTENDS ShowText, NaturalsInduction, WellFoundedInduction, TLAPS

----------------------------------------------------------------------------
(* Fonts.                                                                  *)

NoBlankKern == \A a \in Names : font.kern[<<a, Space>>] = 0

\* What is still to be read kerns nothing with a blank behind it.
NoneToCome == \A k \in DOMAIN reading.afm : reading.afm[k].op = "KPX"
                                              => reading.afm[k].succ # Space

\* Kerning beside blanks can only be there while the command that removes it
\* is still to be read.
KernInv ==
  /\ reading.stage # "file" => NoBlankKern
  /\ reading.stage = "file" => Removes(reading.ligkern) \/ (NoBlankKern /\ NoneToCome)

\* A metric without glyphs, of any font encoding.
LEMMA EmptyIsMetric ==
  ASSUME NEW E \in SUBSET Names
  PROVE  /\ EmptyMetric \in Metric
         /\ [EmptyMetric EXCEPT !.fontenc = E] \in Metric
         /\ [EmptyMetric EXCEPT !.fontenc = E].kern = EmptyMetric.kern
         /\ \A a \in Names : EmptyMetric.kern[<<a, Space>>] = 0
<1>1. EmptyMetric \in Metric
  BY DEF EmptyMetric, Metric
<1>2. \A a \in Names : EmptyMetric.kern[<<a, Space>>] = 0
  BY SpaceAssumption DEF EmptyMetric
<1> QED
  BY <1>1, <1>2 DEF Metric

LEMMA FontStart ==
  ASSUME font = EmptyMetric, reading = NotReading
  PROVE  FTypeOK /\ KernInv
BY SpaceAssumption
DEF FTypeOK, KernInv, NoBlankKern, EmptyMetric, NotReading, Metric

LEMMA HeadTail ==
  ASSUME NEW S, NEW s \in Seq(S), s # <<>>
  PROVE  /\ Head(s) \in S /\ 1 \in DOMAIN s /\ Head(s) = s[1]
         /\ Tail(s) \in Seq(S)
         /\ \A k \in DOMAIN Tail(s) : k + 1 \in DOMAIN s /\ Tail(s)[k] = s[k + 1]
         /\ \A k \in DOMAIN s : k # 1 => k - 1 \in DOMAIN Tail(s) /\ Tail(s)[k - 1] = s[k]
OBVIOUS

\* Reading a line of the file.
LEMMA LineStep ==
  ASSUME FTypeOK, KernInv, handlechar \/ handlekern
  PROVE  FTypeOK' /\ KernInv'
<1> DEFINE l == Head(reading.afm)
<1>1. reading.afm \in Seq(CharLine \cup KernLine) /\ reading.afm # <<>>
  BY DEF FTypeOK, handlechar, handlekern
<1>2. l \in CharLine \cup KernLine
  BY <1>1, HeadTail
<1>3. Tail(reading.afm) \in Seq(CharLine \cup KernLine) /\ l = reading.afm[1]
      /\ \A k \in DOMAIN Tail(reading.afm) : k + 1 \in DOMAIN reading.afm
                                           /\ Tail(reading.afm)[k] = reading.afm[k + 1]
      /\ 1 \in DOMAIN reading.afm
  BY <1>1, HeadTail
<1>4. reading' = [reading EXCEPT !.afm = Tail(@)] /\ reading.stage = "file"
  BY DEF handlechar, handlekern, NextLine, Reading
<1>5. NoneToCome => NoneToCome'
  BY <1>3, <1>4 DEF NoneToCome, FTypeOK
<1>6. font' \in Metric /\ (NoBlankKern /\ NoneToCome => NoBlankKern')
  <2>1. CASE handlechar
    <3>1. l \in CharLine
      BY <1>2, <2>1 DEF handlechar, CharLine, KernLine
    <3> HIDE DEF l
    <3>2. /\ l.name \in Names /\ l.width \in Nat
          /\ \A n \in Names : l.ligs[n] \in Names \cup {NoGlyph}
      BY <3>1 DEF CharLine
    <3>3. font' \in Metric
      BY <2>1, <3>2 DEF handlechar, Metric, FTypeOK, l
    <3>4. font'.kern = font.kern
      BY <2>1 DEF handlechar, Metric, FTypeOK
    <3> QED
      BY <3>3, <3>4 DEF NoBlankKern
  <2>2. CASE handlekern
    <3>1. l \in KernLine
      BY <1>2, <2>2 DEF handlekern, CharLine, KernLine
    <3>2. l.op = "KPX" /\ (NoneToCome => l.succ # Space)
      BY <1>3, <2>2 DEF handlekern, NoneToCome
    <3> HIDE DEF l
    <3>3. l.name \in Names /\ l.succ \in Names /\ l.kern \in Int
      BY <3>1 DEF KernLine
    <3>4. font' \in Metric
      BY <2>2, <3>3 DEF handlekern, Metric, FTypeOK, l
    <3>5. \A a \in Names : l.succ # Space => font'.kern[<<a, Space>>] = font.kern[<<a, Space>>]
      BY <2>2, <3>3, SpaceAssumption DEF handlekern, Metric, FTypeOK, l
    <3> QED
      BY <3>2, <3>4, <3>5 DEF NoBlankKern
  <2> QED
    BY <2>1, <2>2
<1> QED
  BY <1>3, <1>4, <1>5, <1>6 DEF FTypeOK, KernInv

\* Carrying out a command.
LEMMA CommandStep ==
  ASSUME FTypeOK, KernInv, rmkern \/ ligcommand
  PROVE  FTypeOK' /\ KernInv'
<1> DEFINE c == Head(reading.ligkern)
<1>1. reading.ligkern \in Seq(RemoveCommand \cup LigCommand) /\ reading.ligkern # <<>>
  BY DEF FTypeOK, rmkern, ligcommand
<1>2. c \in RemoveCommand \cup LigCommand
  BY <1>1, HeadTail
<1>3. Tail(reading.ligkern) \in Seq(RemoveCommand \cup LigCommand) /\ c = reading.ligkern[1]
      /\ \A k \in DOMAIN reading.ligkern : k # 1 =>
           k - 1 \in DOMAIN Tail(reading.ligkern)
           /\ Tail(reading.ligkern)[k - 1] = reading.ligkern[k]
  BY <1>1, HeadTail
<1>4. /\ reading' = [reading EXCEPT !.ligkern = Tail(@)]
      /\ reading.stage = "file" /\ reading.afm = <<>>
  BY DEF rmkern, ligcommand, NextCommand, Reading
<1>5. NoneToCome'
  BY <1>4 DEF NoneToCome, FTypeOK
<1>6. Removes(reading.ligkern) =>
        Removes(Tail(reading.ligkern)) \/ (c.op = "{}" /\ c.first = Any /\ c.second = Space)
  BY <1>3 DEF Removes
<1>7. /\ font' \in Metric
      /\ NoBlankKern => NoBlankKern'
      /\ c.op = "{}" /\ c.first = Any /\ c.second = Space => NoBlankKern'
  <2>1. CASE rmkern
    <3>1. /\ font' = [font EXCEPT !.kern = [p \in Names \X Names |->
                IF Matches(c.first, p[1]) /\ Matches(c.second, p[2]) THEN 0 ELSE font.kern[p]]]
          /\ font \in Metric
      BY <2>1 DEF rmkern, FTypeOK
    <3> HIDE DEF c
    <3>2. font' \in Metric
      BY <3>1 DEF Metric
    <3>3. \A a \in Names : font'.kern[<<a, Space>>] =
            IF Matches(c.first, a) /\ Matches(c.second, Space) THEN 0 ELSE font.kern[<<a, Space>>]
      BY <3>1, SpaceAssumption DEF Metric
    <3> QED
      BY <3>2, <3>3 DEF NoBlankKern, Matches
  <2>2. CASE ligcommand
    <3>1. c \in LigCommand /\ c.op = "=:"
      BY <1>2, <2>2 DEF ligcommand, RemoveCommand, LigCommand
    <3> HIDE DEF c
    <3>2. c.first \in Names /\ c.second \in Names /\ c.sub \in Names
      BY <3>1 DEF LigCommand
    <3>3. font' \in Metric /\ font'.kern = font.kern
      BY <2>2, <3>2 DEF ligcommand, Metric, FTypeOK, c
    <3> QED
      BY <3>1, <3>3 DEF NoBlankKern
  <2> QED
    BY <2>1, <2>2
<1> QED
  BY <1>3, <1>4, <1>5, <1>6, <1>7 DEF FTypeOK, KernInv

LEMMA FileStep ==
  ASSUME FTypeOK, KernInv, FileNext
  PROVE  FTypeOK' /\ KernInv'
<1>1. ASSUME NEW file \in FontFiles, PS_findfont(file) PROVE FTypeOK' /\ KernInv'
  <2>1. file \in FontFile /\ Unkerned(file)
    BY FontFilesAssumption, UnkernedAssumption
  <2>2. Ligkern(file) \in Seq(RemoveCommand \cup LigCommand)
    BY <2>1, StaticligkernAssumption DEF Ligkern, FontFile
  <2>3. FTypeOK'
    <3>1. font' \in Metric
      BY <1>1, <2>1, EmptyIsMetric DEF PS_findfont, FontFile
    <3> QED
      BY <1>1, <2>1, <2>2, <3>1 DEF PS_findfont, FTypeOK, FontFile
  <2>4. NoBlankKern'
    BY <1>1, <2>1, EmptyIsMetric DEF PS_findfont, NoBlankKern, FontFile
  <2>5. Removes(reading'.ligkern) \/ NoneToCome'
    BY <1>1, <2>1 DEF PS_findfont, Unkerned, NoneToCome
  <2> QED
    BY <2>3, <2>4, <2>5 DEF KernInv
<1>2. CASE Registered
  BY <1>2 DEF Registered, Reading, FTypeOK, KernInv, NoBlankKern, Removes
<1> QED
  BY <1>1, <1>2, LineStep, CommandStep DEF FileNext

LEMMA Type3Step ==
  ASSUME FTypeOK, KernInv, Type3Next
  PROVE  FTypeOK' /\ KernInv'
<1>1. CASE PS_begin_font
  <2>1. font' \in Metric /\ NoBlankKern'
    BY <1>1, EmptyIsMetric, FontencodingAssumption DEF PS_begin_font, NoBlankKern
  <2>2. reading' = [stage |-> "type3", afm |-> <<>>, fixedpitch |-> FALSE,
                    ligkern |-> <<>>, adds |-> 0]
    BY <1>1 DEF PS_begin_font, NotReading
  <2> QED
    BY <2>1, <2>2 DEF FTypeOK, KernInv
<1>2. CASE PS_end_font
  BY <1>2 DEF PS_end_font, Reading, FTypeOK, KernInv, NoBlankKern
<1>3. ASSUME NEW name \in DOMAIN Type3Width, PS_begin_glyph(name) PROVE FTypeOK' /\ KernInv'
  BY <1>3, Type3Assumption DEF PS_begin_glyph, Reading, FTypeOK, KernInv, NoBlankKern, Metric
<1>4. ASSUME NEW k \in Type3Kerns, PS_add_kerning(k) PROVE FTypeOK' /\ KernInv'
  <2>1. k.first \in Names /\ k.second \in Names /\ k.kern \in Int /\ k.second # Space
    BY Type3Assumption, UnkernedAssumption
  <2> DEFINE p == <<k.first, k.second>>
  <2>2. font \in Metric /\ font' = [font EXCEPT !.kern[p] = k.kern]
    BY <1>4 DEF PS_add_kerning, FTypeOK
  <2>3. p \in Names \X Names /\ \A a \in Names : p # <<a, Space>>
    BY <2>1
  <2> HIDE DEF p
  <2>4. font' \in Metric
    BY <2>1, <2>2, <2>3 DEF Metric
  <2>5. \A a \in Names : font'.kern[<<a, Space>>] = font.kern[<<a, Space>>]
    BY <2>2, <2>3, SpaceAssumption DEF Metric
  <2>6. FTypeOK' /\ \A a \in Names : font'.kern[<<a, Space>>] = font.kern[<<a, Space>>]
    BY <1>4, <2>4, <2>5, SMTT(30) DEF PS_add_kerning, Adding, FTypeOK
  <2> QED
    BY <1>4, <2>6 DEF PS_add_kerning, Adding, Reading, KernInv, NoBlankKern, FTypeOK
<1>5. ASSUME NEW l \in Type3Ligs, PS_add_ligature(l) PROVE FTypeOK' /\ KernInv'
  <2>1. l.first \in Names /\ l.second \in Names /\ l.sub \in Names
    BY Type3Assumption
  <2> DEFINE p == <<l.first, l.second>>
  <2>2. font \in Metric /\ font' = [font EXCEPT !.lig[p] = l.sub]
    BY <1>5 DEF PS_add_ligature, FTypeOK
  <2>3. p \in Names \X Names
    BY <2>1
  <2> HIDE DEF p
  <2>4. font' \in Metric /\ font'.kern = font.kern
    BY <2>1, <2>2, <2>3 DEF Metric
  <2>5. FTypeOK' /\ font'.kern = font.kern
    BY <1>5, <2>4, SMTT(30) DEF PS_add_ligature, Adding, FTypeOK
  <2> QED
    BY <1>5, <2>5 DEF PS_add_ligature, Adding, Reading, KernInv, NoBlankKern, FTypeOK
<1> QED
  BY <1>1, <1>2, <1>3, <1>4, <1>5 DEF Type3Next

\* A font that is ready remains so.
LEMMA ReadyStays ==
  ASSUME FTypeOK, FileNext \/ Type3Next, reading.stage = "ready"
  PROVE  reading'.stage = "ready"
BY DEF FTypeOK, FileNext, Type3Next, PS_findfont, handlechar, handlekern, rmkern, ligcommand,
       Registered, PS_begin_font, PS_begin_glyph, PS_end_font, PS_add_kerning,
       PS_add_ligature, Adding, Reading

----------------------------------------------------------------------------
(* A round of the two loops.                                               *)

\* The library is ahead of the pen by the space it counts behind a glyph.
Owed == IF show.i = 1 \/ show.i > show.len THEN 0 ELSE state.charspacing

PenInv ==
  pc = "loop" =>
    /\ show.i = 1 => show.prevai = NoGlyph
    /\ Encoded /\ EndsVisible => pen + show.held = pos.tx + show.overallwidth - Owed

\* Both loops are at the same character, and have added up the same.
InStep ==
  pc \in {"loop", "shown"} /\ meas.len = show.len /\ OneWord =>
    /\ meas.i = show.i /\ meas.prevai = show.prevai
    /\ meas.width = show.overallwidth

Between == pc \in {"off", "idle"} => show = NoShow /\ meas = NoMeas

FontSet == state.font \/ pc \in {"loop", "shown"} => reading.stage = "ready"

IInv ==
  /\ XTypeOK /\ KernInv /\ Between /\ FontSet
  /\ PenInv /\ PenKnown /\ InStep

LEMMA Start == Init => IInv
<1> SUFFICES ASSUME Init PROVE IInv
  OBVIOUS
<1>1. FTypeOK /\ KernInv
  BY FontStart DEF Init
<1>2. XTypeOK
  BY <1>1 DEF Init, XTypeOK, NoShow, NoMeas, Glyph, Written
<1> QED
  BY <1>1, <1>2 DEF Init, IInv, Between, FontSet, PenInv, PenKnown, InStep

LEMMA KernIs ==
  ASSUME FTypeOK, state.kerning \in BOOLEAN, NEW p \in Glyph, NEW a \in Glyph
  PROVE  /\ Kern(p, a) \in Int
         /\ p = NoGlyph => Kern(p, a) = 0
         /\ NoBlankKern => Kern(p, Space) = 0
BY SpaceAssumption DEF FTypeOK, Metric, Kern, calculatekern, Glyph, NoBlankKern

\* What is written for a visible character, and how far it reaches.
LEMMA GlyphAtIs ==
  ASSUME XTypeOK, NEW i \in 1..Len(text), Visible(text[i])
  PROVE  /\ GlyphAt(i) \in font.glyphs /\ GlyphAt(i) \in Names /\ LastOf(i) \in Nat
         /\ LastOf(i) >= i
         /\ state.charspacing # 0 => LastOf(i) = i
         /\ Encoded => GlyphAt(i) \in font.fontenc
<1>1. text[i] \in Chars /\ font.glyphs \subseteq Names
  BY SMTT(30) DEF XTypeOK, FTypeOK, Metric
<1>2. Name(text[i]) \in font.glyphs
  BY DEF Visible
<1>3. CASE HasLigature(i)
  BY <1>1, <1>3 DEF HasLigature, GlyphAt, LastOf, LigFound
<1>4. CASE ~HasLigature(i)
  BY <1>1, <1>2, <1>4 DEF GlyphAt, LastOf, Encoded
<1> QED
  BY <1>3, <1>4

\* The character a loop is at.
LEMMA AtCharacter ==
  ASSUME XTypeOK, NEW i \in Nat \ {0}, NEW len \in 0..Len(text), i <= len
  PROVE  /\ i \in 1..Len(text) /\ text[i] \in Chars /\ Name(text[i]) \in Glyph
BY InputencAssumption DEF XTypeOK, Name, Glyph

\* Fields that are set to something of their type.
LEMMA FieldsSet ==
  ASSUME NEW L, NEW G, NEW W,
         NEW s \in [i : Nat \ {0}, len : L, prevai : G, overallwidth : Int, held : Int,
                   glyphs : W, continued : BOOLEAN, back : Int],
         NEW i \in Nat \ {0}, NEW p \in G, NEW w \in Int, NEW h \in Int, NEW gs \in W
  PROVE  /\ [s EXCEPT !.i = i, !.prevai = p, !.overallwidth = w, !.held = h, !.glyphs = gs]
              \in [i : Nat \ {0}, len : L, prevai : G, overallwidth : Int, held : Int,
                   glyphs : W, continued : BOOLEAN, back : Int]
         /\ [s EXCEPT !.i = i, !.prevai = p, !.overallwidth = w, !.held = h,
                      !.glyphs = gs].len = s.len
OBVIOUS

\* The type of show and pen.
LEMMA ShowTyped ==
  ASSUME XTypeOK, ShowRound
  PROVE  /\ show' \in [i : Nat \ {0}, len : 0..Len(text), prevai : Glyph,
                       overallwidth : Int, held : Int, glyphs : Seq(Written),
                       continued : BOOLEAN, back : Int]
         /\ pen' \in Int /\ show'.len = show.len
<1> DEFINE Shows == [i : Nat \ {0}, len : 0..Len(text), prevai : Glyph,
                     overallwidth : Int, held : Int, glyphs : Seq(Written),
                     continued : BOOLEAN, back : Int]
<1>1. show \in Shows /\ pen \in Int /\ FTypeOK /\ state.kerning \in BOOLEAN
      /\ state.charspacing \in Int /\ state.wordspace \in Nat /\ NoGlyph \in Glyph
  BY DEF XTypeOK, Glyph
<1>2. ASSUME NEW g \in Glyph, NEW to \in Nat PROVE Became(g, to) \in Seq(Written)
  BY <1>1, <1>2 DEF Became, Written
<1>3. /\ show.i \in Nat \ {0} /\ show.len \in Nat /\ show.prevai \in Glyph
      /\ show.overallwidth \in Int /\ show.held \in Int
  BY <1>1
<1>4. ASSUME NEW i \in Nat \ {0}, NEW p \in Glyph, NEW w \in Int, NEW h \in Int,
             NEW gs \in Seq(Written),
             show' = [show EXCEPT !.i = i, !.prevai = p, !.overallwidth = w, !.held = h,
                                  !.glyphs = gs]
      PROVE  show' \in Shows /\ show'.len = show.len
  BY <1>1, <1>4, FieldsSet
<1>5. CASE ShowUnnamed
  <2> DEFINE i == show.i + 1
             gs == Became(NoGlyph, show.i)
  <2>1. i \in Nat \ {0} /\ gs \in Seq(Written) /\ pen' = pen
    BY <1>1, <1>2, <1>5 DEF ShowUnnamed
  <2>2. show' = [show EXCEPT !.i = i, !.glyphs = gs]
    BY <1>5 DEF ShowUnnamed
  <2> HIDE DEF i, gs
  <2> QED
    BY <1>1, <2>1, <2>2
<1>6. CASE ShowMissing
  <2> DEFINE i == show.i + 1
             gs == Became(NoGlyph, show.i)
  <2>1. i \in Nat \ {0} /\ gs \in Seq(Written) /\ pen' = pen
    BY <1>1, <1>2, <1>6 DEF ShowMissing
  <2>2. show' = [show EXCEPT !.i = i, !.prevai = NoGlyph, !.glyphs = gs]
    BY <1>6 DEF ShowMissing
  <2> HIDE DEF i, gs
  <2> QED
    BY <1>1, <2>1, <2>2
<1>7. CASE ShowBlank
  <2> DEFINE space == state.wordspace + state.charspacing + Kern(show.prevai, Space)
             i == show.i + 1
             w == show.overallwidth + space
             h == 0
             gs == Became(Space, show.i)
  <2>1. Space \in Glyph /\ space \in Int
    BY <1>1, <1>3, KernIs, SpaceAssumption DEF Glyph
  <2>2. pen' = pen + show.held + space
    BY <1>7 DEF ShowBlank
  <2>3. gs \in Seq(Written)
    BY <1>2, <1>3, <2>1
  <2>4. i \in Nat \ {0} /\ w \in Int /\ h \in Int /\ pen' \in Int
    <3> HIDE DEF space
    <3> QED
      BY <1>1, <1>3, <2>1, <2>2, SMTT(30)
  <2>5. show' = [show EXCEPT !.i = i, !.prevai = Space, !.held = h, !.overallwidth = w,
                             !.glyphs = gs]
    BY <1>7 DEF ShowBlank
  <2> HIDE DEF space, i, w, h, gs
  <2> QED
    BY <1>1, <2>1, <2>3, <2>4, <2>5
<1>8. CASE ShowGlyph
  <2> DEFINE g == GlyphAt(show.i)
             last == LastOf(show.i)
             kern == Kern(show.prevai, g)
             moves == (kern # 0 \/ state.charspacing # 0) /\ last > 1
             i == last + 1
             w == show.overallwidth + font.width[g] + kern + Spacing(last, show.len)
             h == (IF moves THEN 0 ELSE show.held) + WidthOut(g)
             gs == Became(g, last)
  <2>1. g \in Names /\ last \in Nat /\ g \in Glyph
    BY <1>1, <1>8, AtCharacter, GlyphAtIs DEF ShowGlyph, Showing, Glyph
  <2>2. kern \in Int
    BY <1>1, <2>1, KernIs
  <2>3. font.width[g] \in Nat /\ WidthOut(g) \in Nat
    BY <1>1, <2>1, QuestionAssumption DEF FTypeOK, Metric, WidthOut
  <2>4. Spacing(last, show.len) \in Int /\ Gap(kern, last) \in Int
    BY <1>1, <2>1, <2>2 DEF Spacing, Gap
  <2>5. gs \in Seq(Written)
    BY <1>2, <2>1
  <2>6. pen' = IF moves THEN pen + show.held + Gap(kern, last) ELSE pen
    BY <1>8 DEF ShowGlyph
  <2>7. show' = [show EXCEPT !.i = i, !.prevai = g, !.overallwidth = w, !.held = h,
                             !.glyphs = gs]
    BY <1>8 DEF ShowGlyph
  <2>8. i \in Nat \ {0} /\ w \in Int /\ h \in Int /\ pen' \in Int
    <3> DEFINE fw == font.width[g]
               sp == Spacing(last, show.len)
               gap == Gap(kern, last)
               out == WidthOut(g)
    <3>1. fw \in Int /\ sp \in Int /\ gap \in Int /\ out \in Int /\ kern \in Int
      BY <2>2, <2>3, <2>4
    <3>2. /\ w = show.overallwidth + fw + kern + sp
          /\ h = (IF moves THEN 0 ELSE show.held) + out
          /\ pen' = (IF moves THEN pen + show.held + gap ELSE pen)
      BY <2>6
    <3>3. pen \in Int
      BY <1>1
    <3>4. i \in Nat \ {0}
      BY <2>1
    <3> HIDE DEF g, last, kern, moves, i, w, h, fw, sp, gap, out
    <3> QED
      BY <1>3, <3>1, <3>2, <3>3, <3>4
  <2> HIDE DEF g, last, kern, moves, i, w, h, gs
  <2> QED
    BY <1>1, <2>1, <2>5, <2>7, <2>8
<1>9. CASE ~Showing /\ UNCHANGED <<show, pen>>
  BY <1>1, <1>9
<1> QED
  BY <1>5, <1>6, <1>7, <1>8, <1>9 DEF ShowRound

\* The library remains ahead by what it owes.
LEMMA PenStep ==
  ASSUME XTypeOK, PenInv, pc = "loop", ShowRound,
         UNCHANGED <<font, reading, state, pos, text, pc>>
  PROVE  PenInv'
<1> USE DEF Owed
<1>1. /\ show.i \in Nat \ {0} /\ show.len \in Nat /\ show.prevai \in Glyph
      /\ show.overallwidth \in Int /\ show.held \in Int /\ pen \in Int /\ pos.tx \in Int
      /\ state.charspacing \in Int /\ state.wordspace \in Nat /\ state.kerning \in BOOLEAN
      /\ FTypeOK
  BY DEF XTypeOK
<1>2. (Encoded' <=> Encoded) /\ (EndsVisible' <=> EndsVisible)
  BY ShowTyped DEF Encoded, EndsVisible, Visible, Name
<1>3. CASE ShowUnnamed \/ ShowMissing
  <2>1. show.i <= show.len /\ ~Visible(text[show.i]) /\ pen' = pen
    BY <1>3, SpaceAssumption
    DEF ShowUnnamed, ShowMissing, Showing, Visible, XTypeOK, FTypeOK, Metric
  <2>2. /\ show'.i = show.i + 1 /\ show'.len = show.len /\ show'.held = show.held
        /\ show'.overallwidth = show.overallwidth
    BY <1>3 DEF ShowUnnamed, ShowMissing, XTypeOK
  <2>3. EndsVisible /\ state.charspacing # 0 => show.i # 1 /\ show.i # show.len
    BY <1>1, <2>1 DEF EndsVisible
  <2>4. CASE state.charspacing = 0
    BY <1>1, <1>2, <2>1, <2>2, <2>4 DEF PenInv
  <2>5. CASE state.charspacing # 0
    <3>1. EndsVisible => Owed' = Owed
      BY <1>1, <2>1, <2>2, <2>3, <2>5
    <3>2. show'.i # 1
      BY <1>1, <2>2
    <3> HIDE DEF Owed
    <3> QED
      BY <1>1, <1>2, <2>1, <2>2, <3>1, <3>2 DEF PenInv
  <2> QED
    BY <2>4, <2>5
<1>4. CASE ShowBlank
  <2> DEFINE space == state.wordspace + state.charspacing + Kern(show.prevai, Space)
  <2>1. space \in Int
    BY <1>1, KernIs, SpaceAssumption DEF Glyph
  <2>2. /\ show.i <= show.len /\ ~Visible(text[show.i]) /\ pen' = pen + show.held + space
        /\ show'.i = show.i + 1 /\ show'.len = show.len /\ show'.held = 0
        /\ show'.overallwidth = show.overallwidth + space
    BY <1>4 DEF ShowBlank, Showing, Visible, XTypeOK
  <2>3. EndsVisible /\ state.charspacing # 0 => show.i # 1 /\ show.i # show.len
    BY <1>1, <2>2 DEF EndsVisible
  <2> HIDE DEF space
  <2> QED
    BY <1>1, <1>2, <2>1, <2>2, <2>3 DEF PenInv
<1>5. CASE ShowGlyph
  <2> DEFINE g == GlyphAt(show.i)
             last == LastOf(show.i)
             kern == Kern(show.prevai, g)
             moves == (kern # 0 \/ state.charspacing # 0) /\ last > 1
  <2>1. /\ g \in Names /\ g \in Glyph /\ last \in Nat /\ last >= show.i
        /\ state.charspacing # 0 => last = show.i
        /\ Encoded => g \in font.fontenc
    BY <1>1, <1>5, AtCharacter, GlyphAtIs DEF ShowGlyph, Showing, Glyph, XTypeOK
  <2>2. kern \in Int /\ (show.i = 1 => kern = 0)
    BY <1>1, <2>1, KernIs DEF PenInv
  <2>3. /\ font.width[g] \in Nat /\ WidthOut(g) \in Nat
        /\ Encoded => WidthOut(g) = font.width[g]
    BY <1>1, <2>1, QuestionAssumption DEF FTypeOK, Metric, WidthOut
  <2>4. /\ show.i <= show.len
        /\ pen' = (IF moves THEN pen + show.held + Gap(kern, last) ELSE pen)
        /\ show'.i = last + 1 /\ show'.len = show.len
        /\ show'.held = (IF moves THEN 0 ELSE show.held) + WidthOut(g)
        /\ show'.overallwidth
             = show.overallwidth + font.width[g] + kern + Spacing(last, show.len)
    BY <1>5 DEF ShowGlyph, Showing, XTypeOK
  <2> HIDE DEF g, last, kern, moves
  <2>5. SUFFICES ASSUME Encoded, EndsVisible
                 PROVE  pen' + show'.held = pos'.tx + show'.overallwidth - Owed'
    BY <1>1, <1>2, <2>1, <2>4 DEF PenInv
  <2>6. pen + show.held = pos.tx + show.overallwidth - Owed /\ font.width[g] = WidthOut(g)
    BY <2>3, <2>5 DEF PenInv
  <2> DEFINE fw == font.width[g]
             out == WidthOut(g)
  <2>7. CASE state.charspacing = 0
    <3>1. moves <=> kern # 0
      BY <1>1, <2>1, <2>2, <2>4, <2>7 DEF moves
    <3>2. (moves => Gap(kern, last) = kern) /\ Spacing(last, show.len) = 0
      BY <2>2, <2>7 DEF Gap, Spacing, moves
    <3>3. Owed = 0 /\ Owed' = 0
      BY <2>7
    <3>4. /\ pen' = (IF kern # 0 THEN pen + show.held + kern ELSE pen)
          /\ show'.held = (IF kern # 0 THEN 0 ELSE show.held) + fw
          /\ show'.overallwidth = show.overallwidth + fw + kern
      BY <1>1, <2>2, <2>3, <2>4, <2>6, <3>1, <3>2
    <3> HIDE DEF fw, out, Owed
    <3> QED
      BY <1>1, <2>2, <2>3, <2>6, <3>3, <3>4 DEF fw
  <2>8. CASE state.charspacing # 0 /\ show.i = 1
    <3>1. last = 1 /\ kern = 0 /\ ~moves
      BY <2>1, <2>2, <2>8 DEF moves
    <3>2. Owed = 0 /\ Owed' = Spacing(last, show.len)
      BY <1>1, <2>4, <2>8, <3>1 DEF Spacing
    <3> DEFINE sp == Spacing(last, show.len)
    <3>3. sp \in Int
      BY <1>1 DEF Spacing
    <3>4. pen + show.held = pos.tx + show.overallwidth
      BY <1>1, <2>6, <3>2
    <3>5. /\ pen' = pen /\ show'.held = show.held + fw /\ pos' = pos /\ fw \in Int
          /\ show'.overallwidth = show.overallwidth + fw + sp
      BY <1>1, <2>3, <2>4, <2>6, <3>1, <3>3
    <3> HIDE DEF Owed, sp, fw, out
    <3> QED
      BY <1>1, <3>2, <3>3, <3>4, <3>5 DEF sp
  <2>9. CASE state.charspacing # 0 /\ show.i # 1
    <3>1. last = show.i /\ moves
      BY <1>1, <2>1, <2>9 DEF moves
    <3>2. Owed = state.charspacing /\ Owed' = Spacing(last, show.len)
      BY <1>1, <2>4, <2>9, <3>1 DEF Spacing
    <3>3. Spacing(last, show.len) \in Int /\ Gap(kern, last) = kern + state.charspacing
      BY <1>1, <2>9, <3>1 DEF Spacing, Gap
    <3> HIDE DEF Owed
    <3> QED
      BY <1>1, <2>2, <2>3, <2>4, <2>6, <3>1, <3>2, <3>3
  <2> QED
    BY <2>7, <2>8, <2>9
<1>6. CASE ~Showing /\ UNCHANGED <<show, pen>>
  BY <1>1, <1>2, <1>6 DEF PenInv
<1> QED
  BY <1>3, <1>4, <1>5, <1>6 DEF ShowRound

\* The type of meas.
LEMMA MeasTyped ==
  ASSUME XTypeOK, MeasureRound
  PROVE  meas' \in [i : Nat \ {0}, len : 0..Len(text), prevai : Glyph, width : Int]
         /\ meas'.len = meas.len
<1>1. /\ meas \in [i : Nat \ {0}, len : 0..Len(text), prevai : Glyph, width : Int]
      /\ FTypeOK /\ state.kerning \in BOOLEAN /\ state.charspacing \in Int
      /\ state.wordspace \in Nat /\ NoGlyph \in Glyph /\ Space \in Glyph
  BY SpaceAssumption DEF XTypeOK, Glyph
<1>2. CASE MeasureUnnamed \/ MeasureMissing \/ MeasureBlank
  <2> DEFINE i == meas.i + 1
             w == meas.width + state.wordspace
  <2>1. i \in Nat \ {0} /\ w \in Int
    BY <1>1
  <2>2. \/ meas' = [meas EXCEPT !.i = i]
        \/ meas' = [meas EXCEPT !.i = i, !.prevai = NoGlyph]
        \/ meas' = [meas EXCEPT !.i = i, !.prevai = Space, !.width = w]
    BY <1>2 DEF MeasureUnnamed, MeasureMissing, MeasureBlank
  <2> HIDE DEF i, w
  <2> QED
    BY <1>1, <2>1, <2>2
<1>3. CASE MeasureGlyph
  <2> DEFINE g == GlyphAt(meas.i)
             last == LastOf(meas.i)
             kern == Kern(meas.prevai, g)
  <2>1. g \in Names /\ last \in Nat /\ g \in Glyph
    BY <1>1, <1>3, AtCharacter, GlyphAtIs DEF MeasureGlyph, Measuring, Glyph
  <2>2. kern \in Int /\ font.width[g] \in Nat /\ Spacing(last, meas.len) \in Int
    BY <1>1, <2>1, KernIs DEF FTypeOK, Metric, Spacing
  <2> DEFINE i == last + 1
             w == meas.width + font.width[g] + Spacing(last, meas.len) + kern
  <2>3. i \in Nat \ {0} /\ w \in Int
    <3> HIDE DEF g, last, kern
    <3> QED
      BY <1>1, <2>1, <2>2
  <2>4. meas' = [meas EXCEPT !.i = i, !.prevai = g, !.width = w]
    BY <1>3 DEF MeasureGlyph
  <2> HIDE DEF g, i, w
  <2> QED
    BY <1>1, <2>1, <2>3, <2>4
<1>4. CASE ~Measuring /\ UNCHANGED meas
  BY <1>1, <1>4
<1> QED
  BY <1>2, <1>3, <1>4 DEF MeasureRound

\* Both loops do the same with the character they are at.
LEMMA TogetherStep ==
  ASSUME XTypeOK, KernInv, FontSet, InStep, pc = "loop", ShowRound, MeasureRound,
         UNCHANGED <<font, reading, state, pos, text, pc>>
  PROVE  InStep'
<1> SUFFICES ASSUME meas'.len = show'.len, OneWord'
             PROVE  /\ meas'.i = show'.i /\ meas'.prevai = show'.prevai
                    /\ meas'.width = show'.overallwidth
  BY DEF InStep
<1>1. /\ show.i \in Nat \ {0} /\ show.len \in 0..Len(text) /\ show.prevai \in Glyph
      /\ show.overallwidth \in Int /\ state.charspacing \in Int /\ state.wordspace \in Nat
      /\ state.kerning \in BOOLEAN /\ FTypeOK /\ Space \in Glyph
  BY SpaceAssumption DEF XTypeOK, Glyph
<1>2. meas.len = show.len /\ OneWord
  BY ShowTyped, MeasTyped DEF OneWord, Name
<1>3. meas.i = show.i /\ meas.prevai = show.prevai /\ meas.width = show.overallwidth
  BY <1>2 DEF InStep
<1>4. NoBlankKern
  BY DEF FontSet, KernInv
<1>5. CASE ~Showing
  BY <1>2, <1>3, <1>5
  DEF Showing, Measuring, ShowRound, MeasureRound, ShowUnnamed, ShowMissing, ShowBlank,
      ShowGlyph, MeasureUnnamed, MeasureMissing, MeasureBlank, MeasureGlyph
<1>6. CASE Showing
  <2> DEFINE name == Name(text[show.i])
  <2>1. name \in Glyph /\ font.glyphs \subseteq Names /\ NoGlyph # Space
    BY <1>1, <1>6, AtCharacter, SpaceAssumption DEF Showing, FTypeOK, Metric
  <2>2. CASE name = NoGlyph
    <3>1. ShowUnnamed /\ MeasureUnnamed
      BY <1>2, <1>3, <1>6, <2>1, <2>2, SpaceAssumption
      DEF Showing, Measuring, ShowRound, MeasureRound, ShowMissing, ShowBlank,
          ShowGlyph, MeasureMissing, MeasureBlank, MeasureGlyph, Visible
    <3> QED
      BY <1>3, <3>1 DEF ShowUnnamed, MeasureUnnamed, XTypeOK
  <2>3. CASE name # NoGlyph /\ name \notin font.glyphs
    <3>1. ShowMissing /\ MeasureMissing
      BY <1>2, <1>3, <1>6, <2>1, <2>3
      DEF Showing, Measuring, ShowRound, MeasureRound, ShowUnnamed, ShowBlank,
          ShowGlyph, MeasureUnnamed, MeasureBlank, MeasureGlyph, Visible
    <3> QED
      BY <1>3, <3>1 DEF ShowMissing, MeasureMissing, XTypeOK
  <2>4. CASE name = Space /\ Space \in font.glyphs
    <3>1. ShowBlank /\ MeasureBlank
      BY <1>2, <1>3, <1>6, <2>1, <2>4
      DEF Showing, Measuring, ShowRound, MeasureRound, ShowUnnamed, ShowMissing,
          ShowGlyph, MeasureUnnamed, MeasureMissing, MeasureGlyph, Visible
    <3>2. state.charspacing = 0
      BY <1>1, <1>2, <1>6, <2>4 DEF OneWord, Showing
    <3>3. Kern(show.prevai, Space) = 0
      BY <1>1, <1>4, KernIs
    <3> QED
      BY <1>1, <1>3, <3>1, <3>2, <3>3 DEF ShowBlank, MeasureBlank, XTypeOK
  <2>5. CASE name # Space /\ name \in font.glyphs
    <3>1. ShowGlyph /\ MeasureGlyph
      BY <1>2, <1>3, <1>6, <2>1, <2>5, SpaceAssumption
      DEF Showing, Measuring, ShowRound, MeasureRound, ShowUnnamed, ShowMissing,
          ShowBlank, MeasureUnnamed, MeasureMissing, MeasureBlank
    <3> DEFINE g == GlyphAt(show.i)
               last == LastOf(show.i)
               kern == Kern(show.prevai, g)
    <3>2. g \in Names /\ g \in Glyph /\ last \in Nat
      BY <1>1, <3>1, AtCharacter, GlyphAtIs DEF ShowGlyph, Showing, Glyph
    <3>3. kern \in Int /\ font.width[g] \in Nat /\ Spacing(last, show.len) \in Int
      BY <1>1, <3>2, KernIs DEF FTypeOK, Metric, Spacing
    <3>4. /\ show'.i = last + 1 /\ show'.prevai = g
          /\ show'.overallwidth
               = show.overallwidth + font.width[g] + kern + Spacing(last, show.len)
      BY <3>1 DEF ShowGlyph, XTypeOK
    <3>5. /\ meas'.i = last + 1 /\ meas'.prevai = g
          /\ meas'.width = show.overallwidth + font.width[g] + Spacing(last, show.len) + kern
      BY <1>2, <1>3, <3>1 DEF MeasureGlyph, XTypeOK
    <3> HIDE DEF g, last, kern
    <3> QED
      BY <1>1, <3>2, <3>3, <3>4, <3>5
  <2> QED
    BY <2>1, <2>2, <2>3, <2>4, <2>5 DEF Glyph
<1> QED
  BY <1>5, <1>6

----------------------------------------------------------------------------
(* Every step.                                                             *)

\* While nothing is shown, nothing is claimed of the two loops.
LEMMA Quiet ==
  ASSUME IInv, pc \in {"off", "idle"}, pc' \in {"off", "idle"}, UNCHANGED <<show, meas>>,
         XTypeOK', KernInv', FontSet'
  PROVE  IInv'
BY DEF IInv, Between, PenInv, PenKnown, InStep

LEMMA KernStays ==
  ASSUME KernInv, UNCHANGED <<font, reading>>
  PROVE  KernInv'
<1>1. (NoBlankKern' <=> NoBlankKern) /\ (NoneToCome' <=> NoneToCome)
  BY DEF NoBlankKern, NoneToCome
<1>2. Removes(reading.ligkern)' <=> Removes(reading.ligkern)
  BY DEF Removes
<1> QED
  BY <1>1, <1>2 DEF KernInv

\* Pages, fonts, values and parameters.
LEMMA SettingStep ==
  ASSUME IInv,
         \/ PS_begin_page \/ PS_end_page \/ LoadFont \/ PS_setfont
         \/ \E v \in Wordspacings : SetWordspacing(v)
         \/ \E v \in Charspacings : SetCharspacing(v)
         \/ Toggle
         \/ \E x \in Positions : PS_set_text_pos(x)
  PROVE  IInv'
<1> USE DEF IInv
<1>1. CASE PS_begin_page
  BY <1>1, Quiet, KernStays, UnitAssumption DEF PS_begin_page, XTypeOK, FTypeOK, FontSet
<1>2. CASE PS_end_page
  <2> DEFINE States == [font : BOOLEAN, wordspace : Nat, charspacing : Int,
                        kerning : BOOLEAN, ligatures : BOOLEAN]
  <2>1. state \in States
    BY DEF XTypeOK
  <2>2. [state EXCEPT !.font = FALSE, !.wordspace = 0] \in States
    BY <2>1
  <2> HIDE DEF States
  <2>3. state' \in States /\ pos' \in [tx : Int, cx : Int] /\ pc = "idle" /\ pc' = "off"
        /\ UNCHANGED <<font, reading, pen, text, show, meas>>
    BY <1>2, <2>2 DEF PS_end_page
  <2>4. FontSet'
    BY <1>2, <2>1 DEF PS_end_page, FontSet, States
  <2>5. XTypeOK'
    BY <2>3 DEF XTypeOK, FTypeOK, States
  <2> QED
    BY <2>3, <2>4, <2>5, Quiet, KernStays
<1>3. CASE LoadFont
  <2>1. FTypeOK' /\ KernInv' /\ UNCHANGED tvars /\ pc \in {"off", "idle"}
        /\ (FileNext \/ Type3Next)
    BY <1>3, FileStep, Type3Step DEF LoadFont, Idle, XTypeOK
  <2>2. XTypeOK' /\ FontSet'
    BY <2>1, ReadyStays DEF tvars, XTypeOK, FontSet
  <2> QED
    BY <2>1, <2>2, Quiet DEF tvars
<1>4. CASE PS_setfont
  <2>1. DefaultWordspace \in Nat
    BY SpaceAssumption DEF DefaultWordspace, XTypeOK, FTypeOK, Metric
  <2> QED
    BY <1>4, <2>1, Quiet, KernStays DEF PS_setfont, Idle, Reading, XTypeOK, FTypeOK, FontSet
<1>5. ASSUME NEW v \in Wordspacings, SetWordspacing(v) PROVE IInv'
  <2>1. v \in Nat /\ font.width[Space] \in Nat
    BY ValuesAssumption, SpaceAssumption DEF XTypeOK, FTypeOK, Metric
  <2>2. v * font.width[Space] \in Nat
    <3> DEFINE w == font.width[Space]
    <3> HIDE DEF w
    <3> QED
      BY <2>1 DEF w
  <2> QED
    BY <1>5, <2>2, Quiet, KernStays DEF SetWordspacing, Set, Idle, XTypeOK, FTypeOK, FontSet
<1>6. ASSUME NEW v \in Charspacings, SetCharspacing(v) PROVE IInv'
  BY <1>6, ValuesAssumption, Quiet, KernStays
  DEF SetCharspacing, Set, Idle, XTypeOK, FTypeOK, FontSet
<1>7. CASE Toggle
  <2>1. /\ state' \in [font : BOOLEAN, wordspace : Nat, charspacing : Int,
                       kerning : BOOLEAN, ligatures : BOOLEAN]
        /\ state'.font = state.font
    BY <1>7 DEF Toggle, Set, XTypeOK
  <2> QED
    BY <1>7, <2>1, Quiet, KernStays, SMTT(30) DEF Toggle, Set, Idle, XTypeOK, FTypeOK, FontSet
<1>8. ASSUME NEW x \in Positions, PS_set_text_pos(x) PROVE IInv'
  BY <1>8, ValuesAssumption, Quiet, KernStays DEF PS_set_text_pos, XTypeOK, FTypeOK, FontSet
<1> QED
  BY <1>1, <1>2, <1>3, <1>4, <1>5, <1>6, <1>7, <1>8

\* A call begins with nothing counted, written or collected.
LEMMA EnterStep ==
  ASSUME IInv, NEW t \in Texts, NEW n \in Nat, NEW m \in Int, NEW x \in Int,
         Enter(t, m, x), pos'.tx = x, pos' \in [tx : Int, cx : Int],
         NEW c \in BOOLEAN, NEW b \in Int,
         show' = [i |-> 1, len |-> ShowLen(t, n), prevai |-> NoGlyph, overallwidth |-> 0,
                  held |-> 0, glyphs |-> <<>>, continued |-> c, back |-> b]
  PROVE  IInv'
<1> DEFINE sl == ShowLen(t, n)
           ml == MeasLen(t, m)
<1>1. t \in Seq(Chars) /\ sl \in 0..Len(t) /\ ml \in 0..Len(t)
  BY TextsAssumption DEF ShowLen, MeasLen
<1>2. /\ show' = [i |-> 1, len |-> sl, prevai |-> NoGlyph, overallwidth |-> 0,
                  held |-> 0, glyphs |-> <<>>, continued |-> c, back |-> b]
      /\ meas' = [i |-> 1, len |-> ml, prevai |-> NoGlyph, width |-> 0]
      /\ text' = t /\ pen' = x /\ pc' = "loop" /\ pc = "idle" /\ state.font
      /\ UNCHANGED <<font, reading, state>>
  BY DEF Enter, NoShow, NoMeas, Idle
<1> HIDE DEF sl, ml
<1>3. XTypeOK'
  <2>1. /\ show' \in [i : Nat \ {0}, len : 0..Len(t), prevai : Glyph, overallwidth : Int,
                      held : Int, glyphs : Seq(Written), continued : BOOLEAN, back : Int]
        /\ meas' \in [i : Nat \ {0}, len : 0..Len(t), prevai : Glyph, width : Int]
    BY <1>1, <1>2 DEF Glyph
  <2>2. FTypeOK'
    BY <1>2 DEF IInv, XTypeOK, FTypeOK
  <2> QED
    BY <1>1, <1>2, <2>1, <2>2 DEF IInv, XTypeOK
<1>4. KernInv' /\ FontSet' /\ Between'
  BY <1>2, KernStays DEF IInv, FontSet, Between
<1>5. PenInv'
  <2>1. Owed' = 0 /\ show'.prevai = NoGlyph /\ show'.held = 0 /\ show'.overallwidth = 0
    BY <1>2 DEF Owed
  <2> QED
    BY <1>2, <2>1 DEF PenInv
<1>6. PenKnown' /\ InStep'
  <2>1. /\ meas'.i = show'.i /\ meas'.prevai = show'.prevai
        /\ meas'.width = show'.overallwidth
    BY <1>2
  <2> QED
    BY <1>2, <2>1 DEF PenKnown, InStep
<1> QED
  BY <1>3, <1>4, <1>5, <1>6 DEF IInv

LEMMA CallStep ==
  ASSUME IInv, Calls
  PROVE  IInv'
<1> PICK t \in Texts, l \in Lengths :
       \/ PS_show2(t, l[1], l[2])
       \/ \E x \in Positions : PS_show_xy2(t, l[1], l[2], x)
       \/ PS_continue_text2(t, l[1], l[2])
  BY DEF Calls
<1>1. l[1] \in Nat /\ l[2] \in Int /\ pos \in [tx : Int, cx : Int]
  BY ValuesAssumption DEF IInv, XTypeOK
<1> DEFINE Shown(c, b) ==
             [i |-> 1, len |-> ShowLen(t, l[1]), prevai |-> NoGlyph, overallwidth |-> 0,
              held |-> 0, glyphs |-> <<>>, continued |-> c, back |-> b]
<1>2. ASSUME NEW x \in Int, Enter(t, l[2], x), pos'.tx = x, pos' \in [tx : Int, cx : Int],
             NEW b \in Int, show' = Shown(FALSE, b) \/ show' = Shown(TRUE, b)
      PROVE  IInv'
  <2>1. PICK c \in BOOLEAN : show' = Shown(c, b)
    <3> HIDE DEF Shown
    <3> QED
      BY <1>2, Zenon
  <2> QED
    BY <1>1, <1>2, <2>1, EnterStep
<1> HIDE DEF Shown
<1>3. CASE PS_show2(t, l[1], l[2])
  <2>1. Enter(t, l[2], pos.tx) /\ pos' = pos
    BY <1>3 DEF PS_show2
  <2>2. show' = Shown(FALSE, 0)
    <3>1. text' = t
      BY <2>1 DEF Enter
    <3> QED
      BY <1>3, <3>1 DEF PS_show2, Show, NoShow, Shown
  <2>3. pos.tx \in Int /\ pos'.tx = pos.tx /\ pos' \in [tx : Int, cx : Int] /\ 0 \in Int
    BY <1>1, <2>1
  <2> QED
    BY <1>2, <2>1, <2>2, <2>3, Zenon
<1>4. ASSUME NEW x \in Positions, PS_show_xy2(t, l[1], l[2], x) PROVE IInv'
  <2>1. Enter(t, l[2], x) /\ pos' = [tx |-> x, cx |-> x] /\ x \in Int
    BY <1>4, ValuesAssumption DEF PS_show_xy2
  <2>2. show' = Shown(FALSE, 0)
    <3>1. text' = t
      BY <2>1 DEF Enter
    <3> QED
      BY <1>4, <3>1 DEF PS_show_xy2, Show, NoShow, Shown
  <2>3. pos'.tx = x /\ pos' \in [tx : Int, cx : Int] /\ 0 \in Int
    BY <2>1
  <2> QED
    BY <1>2, <2>1, <2>2, <2>3, Zenon
<1>5. CASE PS_continue_text2(t, l[1], l[2])
  <2>1. Enter(t, l[2], pos.cx) /\ pos' = [pos EXCEPT !.tx = pos.cx]
    BY <1>5 DEF PS_continue_text2
  <2>2. show' = Shown(TRUE, pos.tx)
    <3>1. text' = t
      BY <2>1 DEF Enter
    <3> QED
      BY <1>5, <3>1 DEF PS_continue_text2, Show, NoShow, Shown
  <2> QED
    BY <1>1, <1>2, <2>1, <2>2
<1> QED
  BY <1>3, <1>4, <1>5

LEMMA RoundStep ==
  ASSUME IInv, Round
  PROVE  IInv'
<1>1. XTypeOK'
  BY ShowTyped, MeasTyped DEF Round, IInv, XTypeOK, FTypeOK
<1>2. PenInv' /\ InStep'
  BY PenStep, TogetherStep DEF Round, IInv
<1>3. KernInv' /\ FontSet' /\ Between' /\ PenKnown'
  BY KernStays DEF Round, IInv, FontSet, Between, PenKnown
<1> QED
  BY <1>1, <1>2, <1>3 DEF IInv

\* At the end nothing is owed, and what is collected is written.
LEMMA EndStep ==
  ASSUME IInv, EndShow
  PROVE  IInv'
<1>1. /\ pc' = "shown" /\ pen' = pen + show.held /\ pos' = [pos EXCEPT !.tx = @ + show.overallwidth]
      /\ UNCHANGED <<font, reading, state, text, show, meas>> /\ pc = "loop"
      /\ show.i > show.len
  BY DEF EndShow, Showing, IInv, XTypeOK
<1>2. pen \in Int /\ pos.tx \in Int /\ show.held \in Int /\ show.overallwidth \in Int
      /\ pos \in [tx : Int, cx : Int]
  BY DEF IInv, XTypeOK
<1>3. XTypeOK'
  <2>1. pen' \in Int /\ pos' \in [tx : Int, cx : Int]
    BY <1>1, <1>2
  <2> QED
    BY <1>1, <2>1 DEF IInv, XTypeOK, FTypeOK
<1>4. Encoded /\ EndsVisible => pen + show.held = pos.tx + show.overallwidth
  BY <1>1, <1>2 DEF IInv, PenInv, Owed
<1>5. (Encoded' <=> Encoded) /\ (EndsVisible' <=> EndsVisible) /\ (OneWord' <=> OneWord)
  BY <1>1 DEF Encoded, EndsVisible, Visible, Name, OneWord
<1>6. PenKnown'
  BY <1>1, <1>2, <1>4, <1>5 DEF PenKnown
<1>7. KernInv' /\ FontSet' /\ Between' /\ PenInv' /\ InStep'
  BY <1>1, <1>5, KernStays DEF IInv, FontSet, Between, PenInv, InStep
<1> QED
  BY <1>3, <1>6, <1>7 DEF IInv

LEMMA ReturnStep ==
  ASSUME IInv, Return
  PROVE  IInv'
<1>1. \A x \in Int : Whole(x) \in Int
  BY UnitAssumption DEF Whole
<1>2. pos' \in [tx : Int, cx : Int]
  BY <1>1 DEF Return, IInv, XTypeOK
<1>3. XTypeOK'
  BY <1>2 DEF Return, IInv, XTypeOK, FTypeOK, NoShow, NoMeas, Glyph
<1> QED
  BY <1>3, KernStays
  DEF Return, IInv, FontSet, Between, PenInv, PenKnown, InStep

\* A single glyph.
LEMMA GlyphStep ==
  ASSUME IInv, NEW g \in Names, PS_glyph_show(g)
  PROVE  IInv'
<1>1. font.width[g] \in Nat /\ pos \in [tx : Int, cx : Int]
  BY DEF IInv, XTypeOK, FTypeOK, Metric
<1>2. XTypeOK'
  <2>1. pen' \in Int /\ pos' \in [tx : Int, cx : Int] /\ pc' = "shown"
        /\ UNCHANGED <<font, reading, state, text, show, meas>>
    BY <1>1 DEF PS_glyph_show
  <2> QED
    BY <2>1 DEF IInv, XTypeOK, FTypeOK
<1>3. PenKnown' /\ InStep'
  BY <1>1 DEF PS_glyph_show, Idle, IInv, Between, PenKnown, InStep, NoShow, NoMeas
<1> QED
  BY <1>2, <1>3, KernStays DEF PS_glyph_show, Idle, IInv, FontSet, Between, PenInv

LEMMA Stutter ==
  ASSUME IInv, UNCHANGED vars
  PROVE  IInv'
<1>1. UNCHANGED <<font, reading, state, pos, pen, text, show, meas, pc>>
  BY DEF vars
<1> QED
  BY <1>1, KernStays
  DEF IInv, XTypeOK, FTypeOK, FontSet, Between, PenInv, Owed, PenKnown, InStep, Encoded,
      EndsVisible, Visible, Name, OneWord

LEMMA Invariance ==
  ASSUME IInv, [Next]_vars
  PROVE  IInv'
<1>1. ASSUME NEW g \in Names, PS_symbol(g) \/ PS_glyph_show(g) PROVE IInv'
  BY <1>1, GlyphStep DEF PS_symbol
<1> QED
  BY <1>1, SettingStep, CallStep, RoundStep, EndStep, ReturnStep, Stutter DEF Next

----------------------------------------------------------------------------
(* What is made of characters.                                             *)

\* A set of natural numbers that is not empty has a least one.
LEMMA LeastNumber ==
  ASSUME NEW T \in SUBSET Nat, T # {}
  PROVE  \E x \in T : \A y \in T : x <= y
<1> DEFINE R == OpToRel(<, Nat)
<1>1. PICK x \in T : \A y \in T : <<y, x>> \notin R
  BY NatLessThanWellFounded, WFMin
<1>2. \A y \in T : ~(y < x)
  BY <1>1 DEF OpToRel
<1> QED
  BY <1>2

\* One round of Made, of a table of what shorter stretches make.
MadeOf(made, a, b) ==
  IF a = b THEN {Name(text[a])} \cap font.glyphs
  ELSE {g \in Names : \E k \in a..b - 1 :
          \E x \in made[<<a, k>>], y \in made[<<k + 1, b>>] : g = font.lig[<<x, y>>]}

\* made is such a table up to stretches of n + 1 characters.
MadeUpTo(made, n) ==
  \A a, b \in 1..Len(text) : b - a <= n => made[<<a, b>>] = MadeOf(made, a, b)

SameBelow(made, other, L, n) ==
  \A c, d \in 1..L : d - c < n => made[<<c, d>>] = other[<<c, d>>]

\* A stretch makes what its parts make.
LEMMA MadeAgrees ==
  ASSUME NEW L \in Nat, NEW a \in 1..L, NEW b \in 1..L, NEW made, NEW other,
         SameBelow(made, other, L, b - a)
  PROVE  MadeOf(made, a, b) = MadeOf(other, a, b)
<1>1. ASSUME NEW k \in a..b - 1
      PROVE  made[<<a, k>>] = other[<<a, k>>] /\ made[<<k + 1, b>>] = other[<<k + 1, b>>]
  <2>1. PICK l \in 1..L : l = k + 1
    OBVIOUS
  <2>2. k \in 1..L /\ k - a < b - a /\ b - l < b - a
    BY <2>1
  <2>3. made[<<a, k>>] = other[<<a, k>>] /\ made[<<l, b>>] = other[<<l, b>>]
    BY <2>2 DEF SameBelow
  <2> QED
    BY <2>1, <2>3
<1> DEFINE By(f, g) == \E k \in a..b - 1 :
                         \E x \in f[<<a, k>>], y \in f[<<k + 1, b>>] : g = font.lig[<<x, y>>]
<1>2. ASSUME NEW g PROVE By(made, g) <=> By(other, g)
  BY <1>1, Zenon
<1>3. {g \in Names : By(made, g)} = {g \in Names : By(other, g)}
  <2> HIDE DEF By
  <2> QED
    BY <1>2
<1> QED
  BY <1>3, Zenon DEF MadeOf

LEMMA MadeExists ==
  ASSUME text \in Seq(Chars), NEW n \in Nat
  PROVE  \E made : made = [s \in (1..Len(text)) \X (1..Len(text)) |-> made[s]]
                     /\ MadeUpTo(made, n)
<1> DEFINE L == Len(text)
           Pairs == (1..L) \X (1..L)
           Table(made) == made = [s \in Pairs |-> made[s]]
           Missing == {m \in Nat : ~\E made : Table(made) /\ MadeUpTo(made, m)}
<1>0. L \in Nat
  OBVIOUS
<1> SUFFICES ASSUME Missing # {} PROVE FALSE
  OBVIOUS
<1>1. PICK m \in Missing : \A k \in Missing : m <= k
  <2> HIDE DEF Missing
  <2>1. Missing \in SUBSET Nat
    BY DEF Missing
  <2> QED
    BY <2>1, LeastNumber
\* From a table up to less than m, one up to m.
<1>2. ASSUME NEW f, \A a, b \in 1..L : b - a < m => f[<<a, b>>] = MadeOf(f, a, b)
      PROVE  FALSE
  <2> DEFINE g == [s \in Pairs |-> IF s[2] - s[1] < m THEN f[s] ELSE MadeOf(f, s[1], s[2])]
  <2>1. ASSUME NEW a \in 1..L, NEW b \in 1..L
        PROVE  g[<<a, b>>] = IF b - a < m THEN f[<<a, b>>] ELSE MadeOf(f, a, b)
    OBVIOUS
  <2>2. Table(g)
    <3>1. g = [s \in Pairs |-> g[s]]
      BY <2>1
    <3> QED
      BY <3>1
  <2> HIDE DEF g
  <2>3. ASSUME NEW a \in 1..L, NEW b \in 1..L, b - a <= m PROVE g[<<a, b>>] = MadeOf(g, a, b)
    <3>1. g[<<a, b>>] = MadeOf(f, a, b)
      BY <1>2, <2>1, <2>3
    <3>2. SameBelow(f, g, L, b - a)
      <4>1. ASSUME NEW c \in 1..L, NEW d \in 1..L, d - c < b - a PROVE f[<<c, d>>] = g[<<c, d>>]
        <5>1. d - c < m
          BY <1>1, <2>3, <4>1
        <5> QED
          BY <2>1, <5>1
      <4> QED
        BY <4>1 DEF SameBelow
    <3>3. MadeOf(f, a, b) = MadeOf(g, a, b)
      <4> HIDE DEF L
      <4> QED
        BY <1>0, <3>2, MadeAgrees
    <3> QED
      BY <3>1, <3>3
  <2>4. MadeUpTo(g, m)
    BY <2>3 DEF MadeUpTo
  <2> HIDE DEF Table
  <2> QED
    BY <1>1, <2>2, <2>4
<1>3. CASE m = 0
  <2> DEFINE none == [s \in Pairs |-> {}]
  <2>1. ASSUME NEW a \in 1..L, NEW b \in 1..L, b - a < m
        PROVE  none[<<a, b>>] = MadeOf(none, a, b)
    <3>1. a # b /\ a..b - 1 = {}
      BY <1>3, <2>1
    <3>2. MadeOf(none, a, b) = {}
      BY <3>1, Zenon DEF MadeOf
    <3> QED
      BY <3>2
  <2> HIDE DEF none
  <2> QED
    BY <1>2, <2>1
<1>4. CASE m # 0
  <2>1. PICK n1 \in Nat : n1 = m - 1
    <3>1. m \in Nat
      BY <1>1
    <3> QED
      BY <1>4, <3>1
  <2>2. n1 \notin Missing
    <3> HIDE DEF Missing
    <3>1. ~(m <= n1)
      <4>1. m \in Nat
        BY <1>1 DEF Missing
      <4> QED
        BY <2>1, <4>1
    <3> QED
      BY <1>1, <3>1
  <2>3. PICK f : MadeUpTo(f, n1)
    BY <2>2
  <2>4. \A a, b \in 1..L : b - a < m => f[<<a, b>>] = MadeOf(f, a, b)
    BY <2>1, <2>3 DEF MadeUpTo
  <2> QED
    BY <1>2, <2>4
<1> QED
  BY <1>3, <1>4

\* Made, one round unfolded.
LEMMA MadeIs ==
  ASSUME text \in Seq(Chars)
  PROVE  \A p, q \in 1..Len(text) :
           /\ p = q => Made(p, q) = {Name(text[p])} \cap font.glyphs
           /\ \A k \in p..q - 1 : \A x \in Made(p, k), y \in Made(k + 1, q) :
                font.lig[<<x, y>>] \in Names => font.lig[<<x, y>>] \in Made(p, q)
<1> DEFINE L == Len(text)
           Pairs == (1..L) \X (1..L)
           made == CHOOSE f : f = [s \in Pairs |-> MadeOf(f, s[1], s[2])]
<1>1. \E f : f = [s \in Pairs |-> MadeOf(f, s[1], s[2])]
  <2>0. L \in Nat
    OBVIOUS
  <2>1. PICK f : f = [s \in Pairs |-> f[s]] /\ MadeUpTo(f, L)
    BY <2>0, MadeExists
  <2>2. ASSUME NEW a \in 1..L, NEW b \in 1..L PROVE f[<<a, b>>] = MadeOf(f, a, b)
    <3>1. b - a <= L
      BY <2>0
    <3> QED
      BY <2>1, <3>1 DEF MadeUpTo
  <2>3. [s \in Pairs |-> f[s]] = [s \in Pairs |-> MadeOf(f, s[1], s[2])]
    BY <2>2
  <2> QED
    BY <2>1, <2>3
<1>2. made = [s \in Pairs |-> MadeOf(made, s[1], s[2])]
  BY <1>1
<1>3. ASSUME NEW p, NEW q PROVE Made(p, q) = made[<<p, q>>]
  BY Zenon DEF Made, MadeOf
<1> HIDE DEF made
<1>4. \A p, q \in 1..L : made[<<p, q>>] = MadeOf(made, p, q)
  BY <1>2
<1>5. ASSUME NEW p \in 1..L, NEW q \in 1..L, NEW k \in p..q - 1,
             NEW x \in Made(p, k), NEW y \in Made(k + 1, q), font.lig[<<x, y>>] \in Names
      PROVE  font.lig[<<x, y>>] \in Made(p, q)
  <2>0. Made(p, q) = MadeOf(made, p, q)
    BY <1>3, <1>4
  <2>1. Made(p, q) = MadeOf(made, p, q) /\ p # q
    BY <2>0
  <2>2. x \in made[<<p, k>>] /\ y \in made[<<k + 1, q>>]
    BY <1>3
  <2>3. font.lig[<<x, y>>] \in MadeOf(made, p, q)
    BY <1>5, <2>1, <2>2, Zenon DEF MadeOf
  <2> QED
    BY <2>1, <2>3
<1>6. ASSUME NEW p \in 1..L PROVE Made(p, p) = {Name(text[p])} \cap font.glyphs
  BY <1>3, <1>4 DEF MadeOf
<1> QED
  BY <1>5, <1>6

\* A ligature of what two neighbouring stretches make.
LEMMA MadeOfTwo ==
  ASSUME text \in Seq(Chars), NEW p \in 1..Len(text), NEW q \in 1..Len(text),
         NEW r \in 1..Len(text), p <= q, q < r, NEW x \in Made(p, q), NEW y \in Made(q + 1, r),
         font.lig[<<x, y>>] \in Names
  PROVE  font.lig[<<x, y>>] \in Made(p, r)
<1>1. q \in p..r - 1
  OBVIOUS
<1> QED
  BY <1>1, MadeIs

----------------------------------------------------------------------------
(* Looking ahead.                                                          *)

\* One round of ps_check_for_lig, of a table of what is found farther on.
LigOf(lig, rest, brk, k, g) ==
  LET next == gfindadobe(rest[k])
      later == lig[<<k + 1, next>>]
      two == Two(g, next, later)
      more == lig[<<k + 1, two>>]
  IN IF ~HasLigs(g) \/ k > Len(rest) THEN NoLig
     ELSE IF brk[k] THEN [name |-> g, offset |-> 1]
     ELSE IF next = NoGlyph THEN NoLig
     ELSE IF later # NoLig /\ font.lig[<<g, later.name>>] # NoGlyph
          THEN [name |-> font.lig[<<g, later.name>>], offset |-> Consumed(later)]
     ELSE IF two = NoGlyph THEN NoLig
     ELSE IF two \in font.glyphs /\ more # NoLig
          THEN [name |-> more.name, offset |-> Consumed(more)]
     ELSE [name |-> two, offset |-> 1]

SameFrom(lig, other, k) == \A g \in Names : lig[<<k, g>>] = other[<<k, g>>]

\* What is found depends on what is found behind the next character.
LEMMA LigAgrees ==
  ASSUME FTypeOK, NEW lig, NEW other, NEW rest, NEW brk, NEW k \in Nat, NEW g \in Names,
         SameFrom(lig, other, k + 1)
  PROVE  LigOf(lig, rest, brk, k, g) = LigOf(other, rest, brk, k, g)
<1> DEFINE next == gfindadobe(rest[k])
           two == font.lig[<<g, next>>]
<1>1. CASE next = NoGlyph
  BY <1>1, Zenon DEF LigOf
<1>2. CASE next # NoGlyph
  <2>1. next \in Names
    BY <1>2 DEF gfindadobe, FTypeOK, Metric
  <2>2. lig[<<k + 1, next>>] = other[<<k + 1, next>>]
    BY <2>1, Zenon DEF SameFrom
  <2>3. font.glyphs \subseteq Names
    BY DEF FTypeOK, Metric
  <2>4. CASE two \in Names
    <3>1. lig[<<k + 1, two>>] = other[<<k + 1, two>>]
      BY <2>4, Zenon DEF SameFrom
    <3> QED
      BY <2>2, <3>1, Zenon DEF LigOf, Two
  <2>5. CASE two \notin Names
    <3>1. two \notin font.glyphs
      BY <2>3, <2>5
    <3> QED
      BY <2>2, <3>1, Zenon DEF LigOf, Two
  <2> QED
    BY <2>4, <2>5
<1> QED
  BY <1>1, <1>2

\* lig is such a table for the last n + 1 places.
LigUpTo(lig, rest, brk, n) ==
  \A k \in 1..Len(rest) + 1 : \A g \in Names :
    Len(rest) + 1 - k <= n => lig[<<k, g>>] = LigOf(lig, rest, brk, k, g)

LEMMA LigExists ==
  ASSUME FTypeOK, NEW S, NEW rest \in Seq(S), NEW brk, NEW n \in Nat
  PROVE  \E lig : lig = [s \in (1..Len(rest) + 1) \X Names |-> lig[s]]
                    /\ LigUpTo(lig, rest, brk, n)
<1> DEFINE L == Len(rest) + 1
           Pairs == (1..L) \X Names
           Table(lig) == lig = [s \in Pairs |-> lig[s]]
           Missing == {m \in Nat : ~\E lig : Table(lig) /\ LigUpTo(lig, rest, brk, m)}
<1>0. L \in Nat
  OBVIOUS
<1> SUFFICES ASSUME Missing # {} PROVE FALSE
  OBVIOUS
<1>1. PICK m \in Missing : \A k \in Missing : m <= k
  <2> HIDE DEF Missing
  <2>1. Missing \in SUBSET Nat
    BY DEF Missing
  <2> QED
    BY <2>1, LeastNumber
<1>2. ASSUME NEW f,
             \A k \in 1..L : \A g \in Names : L - k < m => f[<<k, g>>] = LigOf(f, rest, brk, k, g)
      PROVE  FALSE
  <2> DEFINE h == [s \in Pairs |-> IF L - s[1] < m THEN f[s] ELSE LigOf(f, rest, brk, s[1], s[2])]
  <2>1. ASSUME NEW k \in 1..L, NEW g \in Names
        PROVE  h[<<k, g>>] = IF L - k < m THEN f[<<k, g>>] ELSE LigOf(f, rest, brk, k, g)
    OBVIOUS
  <2>2. Table(h)
    <3>1. h = [s \in Pairs |-> h[s]]
      OBVIOUS
    <3> QED
      BY <3>1
  <2> HIDE DEF h
  <2>3. ASSUME NEW k \in 1..L, NEW g \in Names, L - k <= m
        PROVE  h[<<k, g>>] = LigOf(h, rest, brk, k, g)
    <3>1. h[<<k, g>>] = LigOf(f, rest, brk, k, g)
      BY <1>2, <2>1
    <3>2. CASE k = L
      <4>1. k > Len(rest)
        BY <3>2
      <4>2. LigOf(f, rest, brk, k, g) = NoLig /\ LigOf(h, rest, brk, k, g) = NoLig
        BY <4>1, Zenon DEF LigOf
      <4> QED
        BY <3>1, <4>2
    <3>3. CASE k # L
      <4>1. PICK l \in 1..L : l = k + 1
        BY <3>3
      <4>2. L - l < m
        BY <1>1, <2>3, <4>1
      <4>3. SameFrom(f, h, k + 1)
        BY <2>1, <4>1, <4>2 DEF SameFrom
      <4> QED
        BY <3>1, <4>3, LigAgrees
    <3> QED
      BY <3>2, <3>3
  <2>4. LigUpTo(h, rest, brk, m)
    BY <2>3 DEF LigUpTo
  <2> HIDE DEF Table
  <2> QED
    BY <1>1, <2>2, <2>4
<1>3. CASE m = 0
  <2> DEFINE none == [s \in Pairs |-> NoLig]
  <2>1. ASSUME NEW k \in 1..L, NEW g \in Names, L - k < m
        PROVE  none[<<k, g>>] = LigOf(none, rest, brk, k, g)
    BY <1>3, <2>1
  <2> HIDE DEF none
  <2> QED
    BY <1>2, <2>1
<1>4. CASE m # 0
  <2>1. PICK n1 \in Nat : n1 = m - 1
    <3>1. m \in Nat
      BY <1>1
    <3> QED
      BY <1>4, <3>1
  <2>2. n1 \notin Missing
    <3> HIDE DEF Missing
    <3>1. ~(m <= n1)
      <4>1. m \in Nat
        BY <1>1 DEF Missing
      <4> QED
        BY <2>1, <4>1
    <3> QED
      BY <1>1, <3>1
  <2>3. PICK f : LigUpTo(f, rest, brk, n1)
    BY <2>2
  <2>4. ASSUME NEW k \in 1..L, NEW g \in Names, L - k < m
        PROVE  f[<<k, g>>] = LigOf(f, rest, brk, k, g)
    <3>1. L - k <= n1
      BY <2>1, <2>4, <1>1
    <3> QED
      BY <2>3, <3>1 DEF LigUpTo
  <2> QED
    BY <1>2, <2>4
<1> QED
  BY <1>3, <1>4

LigTable(lig, rest, brk) ==
  \A k \in 1..Len(rest) + 1 : \A g \in Names : lig[<<k, g>>] = LigOf(lig, rest, brk, k, g)

\* ps_check_for_lig is the first entry of such a table.
LEMMA LigIs ==
  ASSUME FTypeOK, NEW S, NEW rest \in Seq(S), NEW brk, NEW a \in Names
  PROVE  \E lig : ps_check_for_lig(a, rest, brk) = lig[<<1, a>>] /\ LigTable(lig, rest, brk)
<1> DEFINE L == Len(rest) + 1
           Pairs == (1..L) \X Names
           lig == CHOOSE f : f = [s \in Pairs |-> LigOf(f, rest, brk, s[1], s[2])]
<1>1. \E f : f = [s \in Pairs |-> LigOf(f, rest, brk, s[1], s[2])]
  <2>0. L \in Nat
    OBVIOUS
  <2> PICK n \in Nat : n = L
    BY <2>0
  <2>1. PICK f : f = [s \in Pairs |-> f[s]] /\ LigUpTo(f, rest, brk, n)
    BY LigExists
  <2>2. ASSUME NEW k \in 1..L, NEW g \in Names PROVE f[<<k, g>>] = LigOf(f, rest, brk, k, g)
    <3>1. Len(rest) + 1 - k <= n
      OBVIOUS
    <3>2. \A x \in Names : Len(rest) + 1 - k <= n => f[<<k, x>>] = LigOf(f, rest, brk, k, x)
      BY <2>1, Zenon DEF LigUpTo
    <3> QED
      BY <3>1, <3>2, Zenon
  <2>3. [s \in Pairs |-> f[s]] = [s \in Pairs |-> LigOf(f, rest, brk, s[1], s[2])]
    BY <2>2
  <2> QED
    BY <2>1, <2>3
<1>2. lig = [s \in Pairs |-> LigOf(lig, rest, brk, s[1], s[2])]
  BY <1>1
<1>3. ps_check_for_lig(a, rest, brk) = lig[<<1, a>>]
  BY Zenon DEF ps_check_for_lig, LigOf
<1> HIDE DEF lig
<1>4. LigTable(lig, rest, brk)
  BY <1>2 DEF LigTable
<1> QED
  BY <1>3, <1>4

\* Made of the characters p to the last before to, or before the break at to.
Reaches(name, p, q, to) ==
  LET last == IF text[to] = Ligdischar THEN to - 1 ELSE to
  IN  /\ to \in q + 1..Len(text)
      /\ name \in Made(p, last)
      /\ \A j \in q + 1..last : text[j] # Ligdischar

\* What is found for a glyph made of the characters p to q is made of them and
\* those that follow; it is a ligature, or the glyph if a break follows.
Found(p, q, g, l) ==
  /\ l \in LigFound /\ l.name \in Names /\ l.offset \in Nat \ {0}
  /\ Reaches(l.name, p, q, q + l.offset)
  /\ \/ l.name = g /\ text[q + 1] = Ligdischar
     \/ \E s \in Names \X Names : l.name = font.lig[s]

FoundFrom(lig, i, k) ==
  \A g \in Names, p \in 1..i + k - 1 :
    g \in Made(p, i + k - 1) /\ lig[<<k, g>>] # NoLig => Found(p, i + k - 1, g, lig[<<k, g>>])

\* What two stretches make with a ligature between them.
LEMMA ReachesOn ==
  ASSUME text \in Seq(Chars), NEW p \in 1..Len(text), NEW q \in 1..Len(text), p <= q, q < Len(text),
         NEW g \in Made(p, q), NEW y, NEW to, Reaches(y, q + 1, q + 1, to),
         text[q + 1] # Ligdischar, font.lig[<<g, y>>] \in Names
  PROVE  Reaches(font.lig[<<g, y>>], p, q, to)
<1> DEFINE last == IF text[to] = Ligdischar THEN to - 1 ELSE to
<1>1. /\ to \in q + 2..Len(text) /\ y \in Made(q + 1, last)
      /\ \A j \in q + 2..last : text[j] # Ligdischar
  BY DEF Reaches
<1>2. last \in q + 1..Len(text)
  BY <1>1
<1> HIDE DEF last
<1>3. last \in 1..Len(text) /\ q < last
  BY <1>2
<1>4. font.lig[<<g, y>>] \in Made(p, last)
  BY <1>1, <1>3, MadeOfTwo
<1>5. \A j \in q + 1..last : text[j] # Ligdischar
  BY <1>1, <1>2
<1> QED
  BY <1>1, <1>4, <1>5 DEF Reaches, last

LEMMA ReachesMore ==
  ASSUME text \in Seq(Chars), NEW p \in 1..Len(text), NEW q \in 1..Len(text), p <= q, q < Len(text),
         NEW y, NEW to, Reaches(y, p, q + 1, to), text[q + 1] # Ligdischar
  PROVE  Reaches(y, p, q, to)
BY DEF Reaches

\* What is found at one place, if what is found farther on is as it should be.
LEMMA FoundAt ==
  ASSUME FTypeOK, text \in Seq(Chars), NEW i \in 1..Len(text), NEW k \in Nat \ {0}, i + k - 1 <= Len(text),
         NEW rest, NEW brk, Len(rest) = Len(text) - i,
         k <= Len(rest) => rest[k] = Name(text[i + k]) /\ (brk[k] <=> text[i + k] = Ligdischar),
         NEW lig, FoundFrom(lig, i, k + 1),
         NEW g \in Names, NEW p \in 1..i + k - 1, g \in Made(p, i + k - 1),
         LigOf(lig, rest, brk, k, g) # NoLig
  PROVE  Found(p, i + k - 1, g, LigOf(lig, rest, brk, k, g))
<1> DEFINE next == gfindadobe(rest[k])
           later == lig[<<k + 1, next>>]
           two == font.lig[<<g, next>>]
           more == lig[<<k + 1, two>>]
           l == LigOf(lig, rest, brk, k, g)
<1>1. k <= Len(rest) /\ Len(rest) = Len(text) - i /\ Len(text) \in Nat
  <2>1. ~(k > Len(rest))
    BY Zenon DEF LigOf
  <2>2. Len(text) \in Nat
    OBVIOUS
  <2> QED
    BY <2>1, <2>2
<1> PICK q \in 1..Len(text) : q = i + k - 1
  BY <1>1
<1> PICK n \in 1..Len(text) : n = q + 1
  BY <1>1
<1>2. rest[k] = Name(text[n]) /\ (brk[k] <=> text[n] = Ligdischar) /\ p \in 1..Len(text) /\ p <= q /\ q < Len(text)
  BY <1>1
<1>3. CASE brk[k]
  <2>1. l = [name |-> g, offset |-> 1]
    BY <1>1, <1>3 DEF LigOf
  <2>2. Reaches(g, p, q, n)
    BY <1>2, <1>3 DEF Reaches
  <2> QED
    BY <1>2, <1>3, <2>1, <2>2 DEF Found, LigFound
<1>4. CASE ~brk[k]
  <2>1. next # NoGlyph
    BY <1>1, <1>4, Zenon DEF LigOf
  <2>2. next = Name(text[n]) /\ next \in font.glyphs /\ next \in Names
    BY <1>2, <2>1 DEF gfindadobe, FTypeOK, Metric
  <2>3. next \in Made(n, n)
    BY <2>2, MadeIs
  <2>4. text[n] # Ligdischar
    BY <1>2, <1>4
  <2>5. \A h \in Names : \A o \in 1..n : h \in Made(o, n) /\ lig[<<k + 1, h>>] # NoLig
                                  => Found(o, n, h, lig[<<k + 1, h>>])
    <3>1. i + (k + 1) - 1 = n
      BY <1>1
    <3> QED
      BY <3>1 DEF FoundFrom
  <2>6. \A s \in Names \X Names : font.lig[s] \in Names \cup {NoGlyph}
    BY DEF FTypeOK, Metric
  <2>7. CASE later # NoLig /\ font.lig[<<g, later.name>>] # NoGlyph
    <3>1. Found(n, n, next, later)
      BY <2>2, <2>3, <2>5, <2>7
    <3>2. later.name \in Names /\ later.offset \in Nat \ {0} /\ Reaches(later.name, n, n, n + later.offset)
      BY <3>1 DEF Found
    <3>3. font.lig[<<g, later.name>>] \in Names
      BY <2>6, <2>7, <3>2
    <3>4. Reaches(font.lig[<<g, later.name>>], p, q, n + later.offset)
      BY <1>2, <2>4, <3>2, <3>3, ReachesOn
    <3>5. l = [name |-> font.lig[<<g, later.name>>], offset |-> 1 + later.offset]
      BY <1>1, <1>4, <2>1, <2>7 DEF LigOf, Consumed
    <3>6. l.name = font.lig[<<g, later.name>>] /\ l.offset \in Nat \ {0} /\ q + l.offset = n + later.offset
      <4> PICK o \in Nat \ {0} : o = later.offset
        BY <3>2
      <4>1. l.name = font.lig[<<g, later.name>>] /\ l.offset = 1 + o
        BY <3>5
      <4> HIDE DEF l, later
      <4>2. 1 + o \in Nat \ {0} /\ q + (1 + o) = n + o
        BY SMTT(30)
      <4> QED
        BY <4>1, <4>2, Zenon
    <3> QED
      BY <3>2, <3>3, <3>4, <3>5, <3>6 DEF Found, LigFound
  <2>8. CASE ~(later # NoLig /\ font.lig[<<g, later.name>>] # NoGlyph)
    <3>1. two # NoGlyph
      BY <1>1, <1>4, <2>1, <2>8, Zenon DEF LigOf, Two
    <3>2. two \in Names
      BY <2>2, <2>6, <3>1
    <3>3. two \in Made(p, n)
      BY <1>2, <2>3, <3>2, MadeOfTwo
    <3>4. CASE two \in font.glyphs /\ more # NoLig
      <4>1. Found(p, n, two, more)
        BY <1>2, <2>5, <3>2, <3>3, <3>4
      <4>2. more.name \in Names /\ more.offset \in Nat \ {0} /\ Reaches(more.name, p, n, n + more.offset)
        BY <4>1 DEF Found
      <4>3. Reaches(more.name, p, q, n + more.offset)
        BY <1>2, <2>4, <4>2, ReachesMore
      <4>4. l = [name |-> more.name, offset |-> 1 + more.offset]
        BY <1>1, <1>4, <2>1, <2>8, <3>1, <3>4 DEF LigOf, Consumed, Two
      <4>5. l.name = more.name /\ l.offset \in Nat \ {0} /\ q + l.offset = n + more.offset
        <5> PICK o \in Nat \ {0} : o = more.offset
          BY <4>2
        <5>1. l.name = more.name /\ l.offset = 1 + o
          BY <4>4
        <5> HIDE DEF l, more
        <5>2. 1 + o \in Nat \ {0} /\ q + (1 + o) = n + o
          BY SMTT(30)
        <5> QED
          BY <5>1, <5>2, Zenon
      <4>6. \E s \in Names \X Names : more.name = font.lig[s]
        BY <2>2, <4>1 DEF Found
      <4> QED
        BY <4>2, <4>3, <4>4, <4>5, <4>6 DEF Found, LigFound
    <3>5. CASE ~(two \in font.glyphs /\ more # NoLig)
      <4>1. l = [name |-> two, offset |-> 1]
        BY <1>1, <1>4, <2>1, <2>8, <3>1, <3>5 DEF LigOf, Two
      <4>2. Reaches(two, p, q, n)
        BY <1>2, <2>4, <3>3 DEF Reaches
      <4>3. \E s \in Names \X Names : two = font.lig[s]
        BY <2>2
      <4> QED
        BY <3>2, <4>1, <4>2, <4>3 DEF Found, LigFound
    <3> QED
      BY <3>4, <3>5
  <2> QED
    BY <2>7, <2>8
<1> QED
  BY <1>3, <1>4

\* The names and breaks that ps_check_for_lig looks ahead to from character i.
Ahead(rest, brk, i) ==
  /\ Len(rest) = Len(text) - i
  /\ \A k \in 1..Len(rest) :
       rest[k] = Name(text[i + k]) /\ (brk[k] <=> text[i + k] = Ligdischar)

LEMMA FoundEverywhere ==
  ASSUME FTypeOK, text \in Seq(Chars), NEW i \in 1..Len(text), NEW rest, NEW brk,
         Ahead(rest, brk, i), NEW lig, LigTable(lig, rest, brk)
  PROVE  \A k \in 1..Len(rest) + 1 : FoundFrom(lig, i, k)
<1> PICK L \in Nat : L = Len(text) - i /\ L = Len(rest)
  <2>1. Len(text) - i \in Nat
    OBVIOUS
  <2>2. Len(rest) = Len(text) - i
    BY Zenon DEF Ahead
  <2> QED
    BY <2>1, <2>2
<1> DEFINE Missing == {m \in Nat : m <= L /\ ~FoundFrom(lig, i, L + 1 - m)}
<1> SUFFICES ASSUME Missing # {} PROVE FALSE
  <2>1. ASSUME Missing = {}, NEW k \in 1..L + 1 PROVE FoundFrom(lig, i, k)
    <3> PICK m \in Nat : m <= L /\ k = L + 1 - m
      <4>1. L + 1 - k \in Nat /\ L + 1 - k <= L /\ k = L + 1 - (L + 1 - k)
        BY <2>1
      <4> QED
        BY <4>1
    <3> QED
      BY <2>1
  <2> HIDE DEF Missing
  <2> QED
    BY <2>1
<1>1. PICK m \in Missing : \A j \in Missing : m <= j
  <2> HIDE DEF Missing
  <2>1. Missing \in SUBSET Nat
    BY DEF Missing
  <2> QED
    BY <2>1, LeastNumber
<1>2. m \in Nat /\ m <= L
  BY <1>1
<1> PICK k \in 1..L + 1 : k = L + 1 - m
  <2> HIDE DEF Missing
  <2>1. L + 1 - m \in 1..L + 1
    BY <1>2
  <2> QED
    BY <2>1
<1>3. PICK g \in Names, q \in 1..i + k - 1 :
        g \in Made(q, i + k - 1) /\ lig[<<k, g>>] # NoLig /\ ~Found(q, i + k - 1, g, lig[<<k, g>>])
  BY <1>1 DEF FoundFrom
<1>4. lig[<<k, g>>] = LigOf(lig, rest, brk, k, g)
  BY DEF LigTable
<1>5. k <= L
  <2>1. ~(k > Len(rest))
    BY <1>3, <1>4, Zenon DEF LigOf
  <2> QED
    BY <2>1
<1>6. FoundFrom(lig, i, k + 1)
  <2>1. PICK m1 \in Nat : m1 = m - 1
    BY <1>2, <1>5
  <2>2. m1 \notin Missing
    <3> HIDE DEF Missing
    <3> QED
      BY <1>1, <1>2, <2>1
  <2>3. m1 <= L /\ L + 1 - m1 = k + 1
    <3> HIDE DEF Missing
    <3> QED
      BY <1>2, <2>1
  <2>4. FoundFrom(lig, i, L + 1 - m1)
    BY <2>2, <2>3
  <2> QED
    BY <2>3, <2>4
<1>7. /\ k \in Nat \ {0} /\ i + k - 1 <= Len(text) /\ Len(rest) = Len(text) - i
      /\ k <= Len(rest) => rest[k] = Name(text[i + k]) /\ (brk[k] <=> text[i + k] = Ligdischar)
  <2>1. k \in 1..Len(rest) /\ k \in Nat \ {0} /\ i + k - 1 <= Len(text)
    <3> HIDE DEF Missing
    <3>1. k <= L /\ Len(text) \in Nat /\ k >= 1
      BY <1>5
    <3> QED
      BY <3>1
  <2>2. Len(rest) = Len(text) - i /\ rest[k] = Name(text[i + k]) /\ (brk[k] <=> text[i + k] = Ligdischar)
    BY <2>1, Zenon DEF Ahead
  <2> QED
    BY <2>1, <2>2
<1>8. Found(q, i + k - 1, g, LigOf(lig, rest, brk, k, g))
  <2> HIDE DEF Missing
  <2> QED
    BY <1>3, <1>4, <1>6, <1>7, FoundAt
<1> QED
  BY <1>3, <1>4, <1>8

\* ps_check_for_lig, of a character of the text: what it finds is made of it and
\* those that follow, and it finds something if it makes a ligature with the next.
LEMMA LigatureIs ==
  ASSUME XTypeOK, NEW i \in 1..Len(text), Name(text[i]) \in font.glyphs
  PROVE  /\ Ligature(i) # NoLig => Found(i, i, Name(text[i]), Ligature(i))
         /\ i < Len(text) /\ Name(text[i + 1]) \in font.glyphs /\ text[i + 1] # Ligdischar
              /\ font.lig[<<Name(text[i]), Name(text[i + 1])>>] # NoGlyph
            => Ligature(i) # NoLig
<1> DEFINE rest == [k \in 1..Len(text) - i |-> Name(text[i + k])]
           brk == [k \in 1..Len(text) - i |-> text[i + k] = Ligdischar]
           a == Name(text[i])
<1>1. FTypeOK /\ text \in Seq(Chars) /\ a \in Names
  BY DEF XTypeOK, FTypeOK, Metric
<1>2. rest \in Seq(Glyph) /\ Len(rest) = Len(text) - i
  <2> PICK n \in Nat : n = Len(text) - i
    BY <1>1
  <2>1. ASSUME NEW k \in 1..n PROVE Name(text[i + k]) \in Glyph
    <3>1. text[i + k] \in Chars
      <4> PICK j \in 1..Len(text) : j = i + k
        BY <1>1
      <4> QED
        BY <1>1
    <3> QED
      BY <3>1, InputencAssumption DEF Name, Glyph
  <2> QED
    BY <2>1
<1>3. Ahead(rest, brk, i)
  <2>1. \A k \in 1..Len(text) - i : rest[k] = Name(text[i + k]) /\ (brk[k] <=> text[i + k] = Ligdischar)
    BY Zenon
  <2> HIDE DEF rest, brk
  <2> QED
    BY <1>2, <2>1 DEF Ahead
<1>4. Ligature(i) = ps_check_for_lig(a, rest, brk)
  BY Zenon DEF Ligature
<1> HIDE DEF rest, brk
<1>5. PICK lig : ps_check_for_lig(a, rest, brk) = lig[<<1, a>>] /\ LigTable(lig, rest, brk)
  BY <1>1, <1>2, LigIs
<1>6. \A k \in 1..Len(rest) + 1 : FoundFrom(lig, i, k)
  BY <1>1, <1>3, <1>5, FoundEverywhere
<1>7. Len(text) \in Nat /\ Len(rest) \in Nat
  BY <1>1, <1>2
<1>8. a \in Made(i, i)
  BY <1>1, MadeIs
<1>9. ASSUME Ligature(i) # NoLig PROVE Found(i, i, a, Ligature(i))
  <2>1. FoundFrom(lig, i, 1) /\ i + 1 - 1 = i
    BY <1>6, <1>7
  <2> QED
    BY <1>1, <1>4, <1>5, <1>8, <1>9, <2>1 DEF FoundFrom
<1>10. ASSUME i < Len(text), Name(text[i + 1]) \in font.glyphs, text[i + 1] # Ligdischar,
              font.lig[<<a, Name(text[i + 1])>>] # NoGlyph
       PROVE  Ligature(i) # NoLig
  <2> DEFINE next == gfindadobe(rest[1])
             later == lig[<<1 + 1, next>>]
             two == font.lig[<<a, next>>]
             more == lig[<<1 + 1, two>>]
             l == LigOf(lig, rest, brk, 1, a)
  <2>1. 1 \in 1..Len(rest) /\ 1 \in 1..Len(rest) + 1 /\ 1 + 1 \in 1..Len(rest) + 1 /\ ~(1 > Len(rest))
    BY <1>2, <1>7, <1>10
  <2>2. rest[1] = Name(text[i + 1]) /\ ~brk[1]
    BY <1>3, <1>10, <2>1 DEF Ahead
  <2>3. next = Name(text[i + 1]) /\ next \in font.glyphs /\ next \in Names /\ next # NoGlyph
    BY <1>1, <1>10, <2>2, SpaceAssumption DEF gfindadobe, FTypeOK, Metric
  <2>4. Ligature(i) = l
    BY <1>1, <1>4, <1>5, <2>1 DEF LigTable
  <2>5. two # NoGlyph /\ two \in Names /\ HasLigs(a)
    <3>1. two # NoGlyph
      BY <1>10, <2>3
    <3>2. two \in Names \cup {NoGlyph}
      BY <1>1, <2>3 DEF FTypeOK, Metric
    <3> QED
      BY <2>3, <3>1, <3>2 DEF HasLigs
  <2>6. CASE later # NoLig /\ font.lig[<<a, later.name>>] # NoGlyph
    <3>1. l = [name |-> font.lig[<<a, later.name>>], offset |-> Consumed(later)]
      BY <2>1, <2>2, <2>3, <2>5, <2>6, Zenon DEF LigOf
    <3> QED
      BY <2>4, <2>6, <3>1 DEF NoLig
  <2>7. CASE ~(later # NoLig /\ font.lig[<<a, later.name>>] # NoGlyph)
    <3>1. CASE two \in font.glyphs /\ more # NoLig
      <4>1. l = [name |-> more.name, offset |-> Consumed(more)]
        BY <2>1, <2>2, <2>3, <2>5, <2>7, <3>1 DEF LigOf, Two
      <4>2. two \in Made(i, i + 1)
        <5> PICK n \in 1..Len(text) : n = i + 1
          BY <1>7, <1>10
        <5>1. next \in Made(n, n)
          BY <1>1, <2>3, MadeIs
        <5> QED
          BY <1>1, <1>8, <2>5, <5>1, MadeOfTwo
      <4>3. FoundFrom(lig, i, 1 + 1) /\ i + (1 + 1) - 1 = i + 1 /\ i \in 1..i + 1
        BY <1>6, <2>1
      <4>4. Found(i, i + 1, two, more)
        BY <2>5, <3>1, <4>2, <4>3 DEF FoundFrom
      <4>5. more.name # NoGlyph
        BY <4>4, SpaceAssumption DEF Found
      <4> QED
        BY <2>4, <4>1, <4>5 DEF NoLig
    <3>2. CASE ~(two \in font.glyphs /\ more # NoLig)
      <4>1. l = [name |-> two, offset |-> 1]
        BY <2>1, <2>2, <2>3, <2>5, <2>7, <3>2 DEF LigOf, Two
      <4> QED
        BY <2>4, <2>5, <4>1 DEF NoLig
    <3> QED
      BY <3>1, <3>2
  <2> QED
    BY <2>6, <2>7
<1> QED
  BY <1>9, <1>10

----------------------------------------------------------------------------
(* What PS_show2 writes.                                                   *)

\* GlyphsStandForText and NoPairMissed, of one glyph.
StandsFor(e) ==
  LET last == IF e.from < e.to /\ text[e.to] = Ligdischar THEN e.to - 1 ELSE e.to
  IN  /\ e.to <= Len(text)
      /\ \A k \in e.from + 1..last : text[k] # Ligdischar
      /\ e.glyph # NoGlyph => e.glyph \in Made(e.from, last)

NotPaired(e) ==
  LET next == Name(text[e.to + 1])
  IN  ( /\ e.from = e.to /\ e.to < Len(text)
        /\ e.glyph \notin {NoGlyph, Space}
        /\ next \in font.glyphs /\ text[e.to + 1] # Ligdischar )
      => font.lig[<<e.glyph, next>>] = NoGlyph

Ligatures ==
  /\ state.ligatures /\ state.charspacing = 0
  /\ \A p \in Names \X Names :
       font.lig[p] # NoGlyph => font.lig[p] \in font.glyphs \cap font.fontenc

GlyphsInv ==
  pc \in {"loop", "shown"} =>
    \A k \in 1..Len(show.glyphs) :
      StandsFor(show.glyphs[k]) /\ (Ligatures => NotPaired(show.glyphs[k]))

\* A round writes one glyph more, or none.
LEMMA RoundWrites ==
  ASSUME XTypeOK, ShowRound
  PROVE  \/ show'.glyphs = show.glyphs
         \/ \E e : /\ show'.glyphs = Append(show.glyphs, e)
                   /\ StandsFor(e) /\ (Ligatures => NotPaired(e))
<1> DEFINE i == show.i
           Entry(g, to) == [glyph |-> g, from |-> i, to |-> to]
<1>1. show \in [i : Nat \ {0}, len : 0..Len(text), prevai : Glyph, overallwidth : Int,
               held : Int, glyphs : Seq(Written), continued : BOOLEAN, back : Int]
      /\ text \in Seq(Chars) /\ FTypeOK
  BY DEF XTypeOK
<1>2. ASSUME Showing PROVE i \in 1..Len(text) /\ text[i] \in Chars
  BY <1>1, <1>2, AtCharacter DEF Showing
<1>3. ASSUME Showing, NEW g, NEW to, show'.glyphs = Became(g, to),
             StandsFor(Entry(g, to)), Ligatures => NotPaired(Entry(g, to))
      PROVE  \E e : /\ show'.glyphs = Append(show.glyphs, e)
                    /\ StandsFor(e) /\ (Ligatures => NotPaired(e))
  BY <1>3, Zenon DEF Became
<1>4. CASE ShowUnnamed \/ ShowMissing
  <2>1. Showing /\ show'.glyphs = Became(NoGlyph, i)
    BY <1>1, <1>4 DEF ShowUnnamed, ShowMissing
  <2>2. i \in 1..Len(text)
    BY <1>2, <2>1
  <2> HIDE DEF i
  <2>3. StandsFor(Entry(NoGlyph, i)) /\ NotPaired(Entry(NoGlyph, i))
    BY <2>2 DEF StandsFor, NotPaired
  <2> HIDE DEF Entry
  <2> QED
    BY <1>3, <2>1, <2>3
<1>5. CASE ShowBlank
  <2>1. Showing /\ show'.glyphs = Became(Space, i) /\ Name(text[i]) = Space /\ Space \in font.glyphs
    BY <1>1, <1>5 DEF ShowBlank
  <2>2. i \in 1..Len(text)
    BY <1>2, <2>1
  <2>3. Space \in Made(i, i)
    BY <1>1, <2>1, <2>2, MadeIs
  <2> HIDE DEF i
  <2>4. StandsFor(Entry(Space, i)) /\ NotPaired(Entry(Space, i))
    BY <2>2, <2>3 DEF StandsFor, NotPaired
  <2> HIDE DEF Entry
  <2> QED
    BY <1>3, <2>1, <2>4
<1>6. CASE ShowGlyph
  <2>1. Showing /\ show'.glyphs = Became(GlyphAt(i), LastOf(i)) /\ Name(text[i]) \in font.glyphs
    BY <1>1, <1>6 DEF ShowGlyph, Visible
  <2>2. i \in 1..Len(text)
    BY <1>2, <2>1
  <2> HIDE DEF i
  <2>3. CASE HasLigature(i)
    <3> DEFINE l == Ligature(i)
    <3>1. l \in LigFound /\ GlyphAt(i) = l.name /\ LastOf(i) = i + l.offset
      BY <2>3, Zenon DEF HasLigature, GlyphAt, LastOf
    <3>2. l # NoLig
      BY <3>1, SpaceAssumption DEF LigFound, NoLig
    <3>3. Found(i, i, Name(text[i]), l)
      BY <2>1, <2>2, <3>2, LigatureIs
    <3> HIDE DEF l
    <3>4. PICK to \in i + 1..Len(text) : to = LastOf(i)
      BY <3>1, <3>3 DEF Found, Reaches
    <3>5. PICK g : g = GlyphAt(i)
      OBVIOUS
    <3>6. Reaches(g, i, i, to)
      BY <3>1, <3>3, <3>4, <3>5 DEF Found
    <3>7. StandsFor(Entry(g, to)) /\ NotPaired(Entry(g, to))
      BY <2>2, <3>6 DEF StandsFor, NotPaired, Reaches
    <3> HIDE DEF Entry
    <3> QED
      BY <1>3, <2>1, <3>4, <3>5, <3>7
  <2>4. CASE ~HasLigature(i)
    <3> DEFINE g == Name(text[i])
    <3>1. GlyphAt(i) = g /\ LastOf(i) = i
      BY <2>4, Zenon DEF GlyphAt, LastOf
    <3>2. g \in Made(i, i)
      BY <1>1, <2>1, <2>2, MadeIs
    <3> HIDE DEF g
    <3>3. StandsFor(Entry(g, i))
      BY <2>2, <3>2 DEF StandsFor
    <3>4. ASSUME Ligatures, ~NotPaired(Entry(g, i)) PROVE FALSE
      <4> DEFINE l == Ligature(i)
      <4>1. /\ i < Len(text) /\ Name(text[i + 1]) \in font.glyphs /\ text[i + 1] # Ligdischar
            /\ font.lig[<<g, Name(text[i + 1])>>] # NoGlyph
        BY <3>4 DEF NotPaired
      <4>2. l # NoLig
        BY <2>1, <2>2, <4>1, LigatureIs DEF g
      <4>3. Found(i, i, g, l)
        BY <2>1, <2>2, <4>2, LigatureIs DEF g
      <4> HIDE DEF l
      <4>4. l \in LigFound /\ \E s \in Names \X Names : l.name = font.lig[s]
        BY <4>1, <4>3 DEF Found
      <4>5. l.name \in font.glyphs \cap font.fontenc
        BY <3>4, <4>4, SpaceAssumption DEF Ligatures, LigFound
      <4> QED
        BY <2>4, <3>4, <4>4, <4>5 DEF HasLigature, Ligatures, l
    <3> HIDE DEF Entry
    <3> QED
      BY <1>3, <2>1, <3>1, <3>3, <3>4
  <2> QED
    BY <2>3, <2>4
<1>7. CASE ~Showing /\ UNCHANGED <<show, pen>>
  BY <1>7
<1> QED
  BY <1>4, <1>5, <1>6, <1>7 DEF ShowRound

LEMMA StillStand ==
  ASSUME UNCHANGED <<font, state, text>>, NEW e
  PROVE  /\ StandsFor(e)' <=> StandsFor(e)
         /\ NotPaired(e)' <=> NotPaired(e)
         /\ Ligatures' <=> Ligatures
BY DEF StandsFor, NotPaired, Ligatures, Made, Name

LEMMA GlyphsWritten ==
  ASSUME XTypeOK, GlyphsInv, pc = "loop", ShowRound, UNCHANGED <<font, state, text>>
  PROVE  GlyphsInv'
<1>1. show.glyphs \in Seq(Written)
  BY DEF XTypeOK
<1> DEFINE Right(e) == StandsFor(e) /\ (Ligatures => NotPaired(e))
<1>2. \A k \in 1..Len(show.glyphs) : Right(show.glyphs[k])
  BY DEF GlyphsInv
<1>3. \A k \in 1..Len(show'.glyphs) : Right(show'.glyphs[k])
  <2>1. CASE show'.glyphs = show.glyphs
    BY <1>2, <2>1
  <2>2. ASSUME NEW e, show'.glyphs = Append(show.glyphs, e), Right(e)
        PROVE  \A k \in 1..Len(show'.glyphs) : Right(show'.glyphs[k])
    <3> DEFINE s == show.glyphs
    <3>1. s \in Seq(Written) /\ \A k \in 1..Len(s) : Right(s[k])
      BY <1>1, <1>2
    <3>2. show'.glyphs = Append(s, e)
      BY <2>2
    <3> HIDE DEF s, Right
    <3> QED
      BY <2>2, <3>1, <3>2
  <2> QED
    BY <2>1, <2>2, RoundWrites
<1> QED
  BY <1>3, StillStand DEF GlyphsInv

\* What does not show a text leaves none shown, or the text as it was.
LEMMA GlyphsStep ==
  ASSUME IInv, GlyphsInv, [Next]_vars
  PROVE  GlyphsInv'
<1>1. XTypeOK /\ Between
  BY DEF IInv
<1>2. ASSUME pc' \in {"off", "idle"} PROVE GlyphsInv'
  BY <1>2 DEF GlyphsInv
<1>3. ASSUME show'.glyphs = <<>> PROVE GlyphsInv'
  BY <1>3 DEF GlyphsInv
<1>4. ASSUME UNCHANGED <<show, font, state, text>>, pc \in {"loop", "shown"} PROVE GlyphsInv'
  BY <1>4, StillStand DEF GlyphsInv
<1>5. CASE PS_begin_page \/ PS_end_page \/ LoadFont \/ PS_setfont \/ Toggle \/ Return
  <2>1. pc' \in {"off", "idle"}
    BY <1>5 DEF PS_begin_page, PS_end_page, LoadFont, tvars, Idle, PS_setfont, Toggle, Set, Return
  <2> QED
    BY <1>2, <2>1
<1>6. CASE \/ \E v \in Wordspacings : SetWordspacing(v)
           \/ \E v \in Charspacings : SetCharspacing(v)
           \/ \E x \in Positions : PS_set_text_pos(x)
  <2>1. pc' \in {"off", "idle"}
    BY <1>6 DEF SetWordspacing, SetCharspacing, PS_set_text_pos, Set, Idle
  <2> QED
    BY <1>2, <2>1
<1>7. CASE Calls
  <2>1. show'.glyphs = <<>>
    <3>1. \A n : Show(n).glyphs = <<>> /\ [Show(n) EXCEPT !.continued = TRUE, !.back = pos.tx].glyphs = <<>>
      BY DEF Show, NoShow
    <3> QED
      BY <1>7, <3>1 DEF Calls, PS_show2, PS_show_xy2, PS_continue_text2
  <2> QED
    BY <1>3, <2>1
<1>8. CASE Round
  BY <1>1, <1>8, GlyphsWritten DEF Round
<1>9. CASE EndShow
  BY <1>4, <1>9 DEF EndShow
<1>10. CASE \E g \in Names : PS_symbol(g) \/ PS_glyph_show(g)
  <2>1. show' = show /\ pc = "idle"
    BY <1>10 DEF PS_symbol, PS_glyph_show, Idle
  <2>2. show'.glyphs = <<>>
    BY <1>1, <2>1 DEF Between, NoShow
  <2> QED
    BY <1>3, <2>2
<1>11. CASE UNCHANGED vars
  <2>1. UNCHANGED <<show, font, state, text, pc>>
    BY <1>11 DEF vars
  <2> QED
    BY <2>1, StillStand DEF GlyphsInv
<1> QED
  BY <1>5, <1>6, <1>7, <1>8, <1>9, <1>10, <1>11 DEF Next

----------------------------------------------------------------------------
(* The theorems.                                                           *)

\* The inductive invariant.
THEOREM TextInvariance == Spec => []IInv
<1>1. Init => IInv
  BY Start
<1>2. IInv /\ [Next]_vars => IInv'
  BY Invariance
<1> QED
  BY <1>1, <1>2, PTL DEF Spec

\* Texts are shown and fonts read with values of their types alone: every glyph
\* a loop takes from a ligature or an encoding is a glyph.
THEOREM TextTypeCorrect == Spec => []XTypeOK
<1>1. IInv => XTypeOK
  BY DEF IInv
<1> QED
  BY <1>1, TextInvariance, PTL

\* PS_show2: for every font, text, length and setting, the text position the
\* library goes on from behind a text is where the interpreter's pen is.
THEOREM PositionIsPen == Spec => []PenKnown
<1>1. IInv => PenKnown
  BY DEF IInv
<1> QED
  BY <1>1, TextInvariance, PTL

\* PS_stringwidth: what it calculates of a text is what PS_show2 moves on by,
\* for every font whose kerning with blanks the LIGKERN commands remove.
THEOREM WidthIsRight == Spec => []MeasuredAsShown
<1>1. IInv => MeasuredAsShown
  BY DEF IInv, InStep, MeasuredAsShown
<1> QED
  BY <1>1, TextInvariance, PTL

\* The glyphs written so far, with what the inductive invariant says of the font.
LEMMA GlyphsInvariance == Spec => []GlyphsInv
<1>1. Init => GlyphsInv
  BY DEF Init, GlyphsInv
<1>2. IInv /\ GlyphsInv /\ [Next]_vars => GlyphsInv'
  BY GlyphsStep
<1> QED
  BY <1>1, <1>2, TextInvariance, PTL DEF Spec

\* ps_check_for_lig in PS_show2: for every font, every text and every depth of
\* look-ahead, a glyph that is written is one that ligatures of the font make of
\* the characters it is written for.
THEOREM NoGlyphAstray == Spec => []GlyphsStandForText
<1>1. XTypeOK /\ GlyphsInv => GlyphsStandForText
  <2> SUFFICES ASSUME XTypeOK, GlyphsInv, pc = "shown",
                      NEW e \in {show.glyphs[k] : k \in DOMAIN show.glyphs}
               PROVE  StandsFor(e)
    BY DEF GlyphsStandForText, StandsFor
  <2>1. DOMAIN show.glyphs = 1..Len(show.glyphs)
    BY DEF XTypeOK
  <2> QED
    BY <2>1 DEF GlyphsInv
<1> QED
  BY <1>1, TextTypeCorrect, GlyphsInvariance, PTL

\* The same loop: no two characters that make a ligature are written apart, if
\* all ligatures of the font can be written.
THEOREM NoLigatureMissed == Spec => []NoPairMissed
<1>1. XTypeOK /\ GlyphsInv => NoPairMissed
  <2> SUFFICES ASSUME XTypeOK, GlyphsInv, pc = "shown", Ligatures,
                      NEW e \in {show.glyphs[k] : k \in DOMAIN show.glyphs}
               PROVE  NotPaired(e)
    BY DEF NoPairMissed, NotPaired, Ligatures
  <2>1. DOMAIN show.glyphs = 1..Len(show.glyphs)
    BY DEF XTypeOK
  <2> QED
    BY <2>1 DEF GlyphsInv
<1> QED
  BY <1>1, TextTypeCorrect, GlyphsInvariance, PTL
=============================================================================
