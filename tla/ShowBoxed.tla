----------------------------- MODULE ShowBoxed -----------------------------
(***************************************************************************)
(* PS_show_boxed breaks a text into lines and shows as many as a box holds; *)
(* it returns how many characters it could not write, and the caller goes   *)
(* on with these in another box.                                           *)
(*                                                                         *)
(* Indexes are those of the C string: textcopy[k] is At(k), and Nul stands  *)
(* behind the last character.  Every glyph is one unit wide and a line one *)
(* unit high, so that widths are numbers of glyphs.                        *)
(***************************************************************************)
EXTENDS Integers, Sequences, FiniteSets, SequencesExt

CONSTANTS
  Texts,        \* sequences of letters, delimiters and other characters
  Letters,      \* isalpha
  Boxes,        \* what a caller may ask for, see Box
  MinChars,     \* the value hyphenminchars
  Break(_),     \* the indexes hnj_hyphen_hyphenate marks in a string that
                \* begins with a letter
  BoxedRules    \* what the caller takes care of, see Allowed

\* width and height of the box (0: as tall as needed), indent of the first
\* line of a paragraph, the parameters hyphenation, linebreak and parbreak, and
\* hmode.
Box == [width : Nat, height : Nat, parindent : Nat, hyphenation : BOOLEAN,
        linebreak : BOOLEAN, parbreak : BOOLEAN,
        hmode : {"left", "justify", "fulljustify"}]

Nul == "nul"
Newline == "\n"
Cr == "\r"
Space == " "
Dash == "-"
SoftHyphen == "soft hyphen"  \* 0xAD

ASSUME BoxesAssumption == Boxes \subseteq Box
ASSUME MinCharsAssumption == MinChars \in Nat \ {0}
ASSUME BoxedRulesAssumption == BoxedRules \subseteq {"wide", "one_empty_line"}
\* A text is a C string.
ASSUME TextsAssumption == \A t \in Texts : t \in Seq(ToSet(t)) /\ Nul \notin ToSet(t)

VARIABLES
  all,       \* the text the caller wants to be shown
  box,       \* the arguments of the call
  textcopy,  \* the copy of what this call is given
  at,        \* curpos, lastbreak and lastdelim: indexes of textcopy
  line,      \* what is known of the line being collected
  par,       \* parlinecounter and parcounter
  ypos,      \* lines there is room for above the bottom of the box, less one
  out,       \* the lines shown, in all boxes
  ret,       \* what the last call returned
  pc

vars == <<all, box, textcopy, at, line, par, ypos, out, ret, pc>>

NoLine == [hlen |-> 0, oldhlen |-> 0, spaces |-> 0, firstword |-> TRUE,
           lineend |-> FALSE, parend |-> FALSE, prevchar |-> Nul]

At(k) == IF k < Len(textcopy) THEN textcopy[k + 1] ELSE Nul

\* n characters of s from index k on, as strncpy copies them.
From(s, k, n) == SubSeq(s, k + 1, IF k + n < Len(s) THEN k + n ELSE Len(s))

\* How wide s is: no input encoding has a glyph for Cr.
Glyphs(s) == Cardinality({k \in DOMAIN s : s[k] # Cr})

\* PS_stringwidth2: a negative length means all of it.
StringWidth(k, n) == Glyphs(From(textcopy, k, IF n < 0 THEN Len(textcopy) ELSE n))

Delimiters == {Space, Dash, Newline, Cr, SoftHyphen, Nul}

Treatcraspar == box.parbreak /\ ~box.linebreak

Doindent == box.parindent > 0 /\ par.parlinecounter < 1

Linewidth == IF Doindent THEN box.width - box.parindent ELSE box.width

----------------------------------------------------------------------------
(* The caller.                                                             *)

Rule(r, holds) == r \in BoxedRules => holds

\*   wide:           the box is wider than the indent;
\*   one_empty_line: paragraphs are separated by one empty line, and the word
\*                   before it fits into a line.
Allowed(t, b) ==
  /\ Rule("wide", b.width > b.parindent)
  /\ Rule("one_empty_line", \A k \in 2..Len(t) - 1 :
       t[k] = Newline /\ t[k + 1] = Newline =>
         /\ t[k - 1] # Newline
         /\ \E j \in 0..k - 1 :
              k - j <= b.width - b.parindent /\ (j > 0 => t[j] \in Delimiters))

\* Set up the variables of a call that is to show t.
Enter(t) ==
  /\ textcopy' = t
  /\ at' = [curpos |-> 0, lastbreak |-> 0, lastdelim |-> 0]
  /\ line' = NoLine
  /\ par' = [parlinecounter |-> 0, parcounter |-> 0]
  /\ ypos' = box.height - 1
  /\ pc' = "outer"

Init ==
  /\ all = <<>> /\ textcopy = <<>> /\ out = <<>> /\ ret = 0 /\ pc = "idle"
  /\ box \in Boxes
  /\ at = [curpos |-> 0, lastbreak |-> 0, lastdelim |-> 0]
  /\ line = NoLine /\ par = [parlinecounter |-> 0, parcounter |-> 0] /\ ypos = 0

PS_show_boxed(t) ==
  /\ pc = "idle"
  /\ Allowed(t, box)
  /\ all' = t
  /\ Enter(t)
  /\ UNCHANGED <<box, out, ret>>

\* The rest in another box of the same kind.
Continue ==
  /\ pc = "returned"
  /\ ret > 0
  /\ Enter(SubSeq(all, Len(all) - ret + 1, Len(all)))
  /\ UNCHANGED <<all, box, out, ret>>

----------------------------------------------------------------------------
(* A line.                                                                 *)

\* Mutant: the last line of a box is left empty.
RoomForTwo == ypos > 0 \/ box.height = 0

Room == ypos >= 0 \/ box.height = 0

StartLine ==
  /\ pc = "outer"
  /\ At(at.curpos) # Nul /\ Room
  /\ line' = [NoLine EXCEPT !.prevchar = line.prevchar]
  /\ pc' = "inner"
  /\ UNCHANGED <<all, box, textcopy, at, par, ypos, out, ret>>

Collecting ==
  /\ line.hlen < Linewidth
  /\ At(at.curpos) # Nul
  /\ ~line.lineend /\ ~line.parend

\* The delimiter behind the word that begins at index k.
WordEnd(k) == CHOOSE e \in k..Len(textcopy) :
  At(e) \in Delimiters /\ \A j \in k..e - 1 : At(j) \notin Delimiters

\* The first word of a line is shown though it may be too long.
Fits(hlen) == hlen < Linewidth \/ line.firstword

\* Mutant: a '-' that ends the word is not measured.
MorecharsBlank(parend, c) == IF parend THEN -1 ELSE 0

\* A '-' is measured, another delimiter is not, not even a soft hyphen; at the
\* end of a paragraph the one before it is not either.
Morechars(parend, c) == IF parend THEN -1 ELSE IF c = Dash THEN 1 ELSE 0

NextWord ==
  /\ pc = "inner"
  /\ Collecting
  /\ LET e == WordEnd(at.curpos)
         c == At(e)
         prev == IF e > at.curpos THEN At(e - 1) ELSE line.prevchar
         parend == Treatcraspar /\ prev = Newline /\ c = Newline
         hlen == StringWidth(at.lastbreak, e - at.lastbreak + Morechars(parend, c))
         collected == [line EXCEPT !.lineend = box.linebreak /\ c = Newline,
                                   !.parend = parend,
                                   !.oldhlen = line.hlen, !.hlen = hlen]
     IN  IF Fits(hlen)
         THEN /\ line' = [collected EXCEPT
                            !.prevchar = c, !.firstword = FALSE,
                            !.spaces = IF c \in {Space, Newline} THEN @ + 1 ELSE @]
              /\ at' = [at EXCEPT !.lastdelim = e,
                                  !.curpos = IF c = Nul THEN e ELSE e + 1]
              /\ textcopy' = IF c = Newline THEN [textcopy EXCEPT ![e + 1] = Space] ELSE textcopy
         ELSE /\ line' = [collected EXCEPT !.prevchar = prev]
              /\ at' = [at EXCEPT !.curpos = e]
              /\ UNCHANGED textcopy
  /\ UNCHANGED <<all, box, par, ypos, out, ret, pc>>

\* Mutant: the blank the line is broken at remains counted.
SpacesLeftAll == line.spaces

\* The blank the line is broken at is not shown.
SpacesLeft == IF At(at.lastdelim) = Space THEN line.spaces - 1 ELSE line.spaces

\* Mutant: the '-' a line is broken at is lost.
MorecharsNone == IF line.parend THEN -1 ELSE 0

\* Any delimiter the line is broken at is shown, but for a blank.
MorecharsLeft ==
  IF line.parend THEN -1 ELSE IF At(at.lastdelim) \in {Space, Nul} THEN 0 ELSE 1

Hyphenating ==
  box.hyphenation /\ ~line.lineend /\ ~line.parend /\ At(at.lastdelim) # Nul

\* What is copied from behind the last delimiter: the word that did not fit
\* and, depending on what delimits it, one or two characters more.
Hyphenword ==
  LET n == at.curpos - at.lastdelim - MorecharsLeft
  IN  From(textcopy, at.lastdelim + 1,
           IF At(at.curpos) \in {Space, Newline, Nul} THEN n ELSE n + 1)

\* Its leading characters that are not letters.
Leading(w) == CHOOSE k \in 0..Len(w) :
  (\A j \in 1..k : w[j] \notin Letters) /\ (k < Len(w) => w[k + 1] \in Letters)

\* The width of buf1: the delimiter before the word, what leads it (the first
\* character of the word as often), the letters up to index i, and a hyphen.
HyphenWidth(lead, i) ==
  (IF At(at.lastdelim) = Cr THEN 0 ELSE 1) + lead
    + Glyphs(SubSeq(Hyphenword, lead + 1, lead + i + 1)) + 1

\* Mutant: breaks right behind the first character are taken.
HyphenAfterAny ==
  LET lead == Leading(Hyphenword)
      n == Len(Hyphenword) - lead
      fit == {i \in 0..n - MinChars - 1 :
                i \in Break(SubSeq(Hyphenword, lead + 1, Len(Hyphenword)))
                  /\ HyphenWidth(lead, i) < Linewidth - line.oldhlen}
  IN  IF n <= 2 * MinChars \/ fit = {} THEN 0
      ELSE lead + 1 + CHOOSE i \in fit : \A j \in fit : j <= i

\* lasthp: how far the line reaches into the word, 0 if it is not broken.
LastHyphen ==
  LET lead == Leading(Hyphenword)
      n == Len(Hyphenword) - lead
      fit == {i \in MinChars - 1..n - MinChars - 1 :
                i \in Break(SubSeq(Hyphenword, lead + 1, Len(Hyphenword)))
                  /\ HyphenWidth(lead, i) < Linewidth - line.oldhlen}
  IN  IF n <= 2 * MinChars \/ fit = {} THEN 0
      ELSE lead + 1 + CHOOSE i \in fit : \A j \in fit : j <= i

\* Whether ps_add_word_spacing stretches the blanks of the line up to index d.
Stretch(spaces, d) ==
  /\ box.hmode # "left" /\ ~line.parend
  /\ spaces # 0 /\ At(at.curpos) # Nul /\ At(d) # Newline
  /\ box.hmode = "fulljustify" \/ ypos - 1 >= 0

\* The line is shown and the position set behind its last delimiter.
EndLine ==
  /\ pc = "inner"
  /\ ~Collecting
  /\ LET hp == IF Hyphenating THEN LastHyphen ELSE 0
         spaces == IF hp > 0 /\ At(at.lastdelim) = Space THEN SpacesLeft + 1 ELSE SpacesLeft
         d == at.lastdelim + hp
         n == d - at.lastbreak + (IF hp > 0 THEN 1 ELSE MorecharsLeft)
     IN  IF n < 0
         THEN \* strncpy is given the length (size_t) -1
              /\ pc' = "crashed"
              /\ UNCHANGED <<at, par, ypos, out>>
         ELSE /\ out' = Append(out,
                   [chars |-> From(textcopy, at.lastbreak, n), hyphen |-> hp > 0,
                    spaces |-> spaces, stretched |-> Stretch(spaces, d),
                    linewidth |-> Linewidth, next |-> At(d + 1)])
              /\ at' = [lastdelim |-> d, lastbreak |-> d + 1,
                        curpos |-> IF At(d) # Nul THEN d + 1 ELSE at.curpos]
              /\ ypos' = ypos - 1
              /\ par' = IF line.parend
                        THEN [parlinecounter |-> 0, parcounter |-> par.parcounter + 1]
                        ELSE [par EXCEPT !.parlinecounter = @ + 1]
              /\ pc' = "outer"
  /\ UNCHANGED <<all, box, textcopy, line, ret>>

Return ==
  /\ pc = "outer"
  /\ ~(At(at.curpos) # Nul /\ Room)
  /\ ret' = IF at.curpos = Len(textcopy) THEN 0 ELSE Len(textcopy) - at.curpos
  /\ pc' = "returned"
  /\ UNCHANGED <<all, box, textcopy, at, line, par, ypos, out>>

Step == StartLine \/ NextWord \/ EndLine \/ Return

Next == (\E t \in Texts : PS_show_boxed(t)) \/ Continue \/ Step

Spec == Init /\ [][Next]_vars

\* A call runs until it returns, and the caller does not give up.
FairSpec == Spec /\ WF_vars(Step) /\ WF_vars(Continue)

----------------------------------------------------------------------------
(* Properties.                                                             *)

\* What is seen of a text: blanks at the end of a line are left out.
Ink(s) ==
  LET ink[k \in 0..Len(s)] == IF k = 0 THEN <<>>
                              ELSE IF s[k] \in {Space, Newline} THEN ink[k - 1]
                              ELSE Append(ink[k - 1], s[k])
  IN  ink[Len(s)]

Shown(lines) ==
  LET upto[k \in 0..Len(lines)] == IF k = 0 THEN <<>> ELSE upto[k - 1] \o lines[k].chars
  IN  upto[Len(lines)]

\* Between two lines, and in what is returned: all that lies before the
\* current position has been shown, once and in order, and nothing behind it;
\* so the rest a caller goes on with is what is missing.
TextKept ==
  pc \in {"outer", "returned"} =>
    Ink(Shown(out)) = Ink(SubSeq(all, 1, Len(all) - Len(textcopy) + at.curpos))

\* The width of a line, with the hyphen it ends with.  A soft hyphen of the text
\* that it is broken at is shown, but PS_show_boxed does not reckon with it.
Reckoned(l) ==
  Glyphs(l.chars) + (IF l.hyphen THEN 1
                     ELSE IF l.chars # <<>> /\ Last(l.chars) = SoftHyphen THEN -1 ELSE 0)

\* A line of more than one word is not wider than the box, the hyphen included,
\* unless by a soft hyphen of the text at its end.
LinesFit ==
  \A l \in ToSet(out) :
    \/ Reckoned(l) < l.linewidth
    \/ \A k \in 1..Len(l.chars) - 1 : l.chars[k] \notin Delimiters

\* What is left over of a line is divided by the number of blanks shown in it,
\* so that a justified line ends at the margin.
SpacesCounted ==
  \A l \in ToSet(out) :
    l.stretched => l.spaces = Cardinality({k \in DOMAIN l.chars : l.chars[k] = Space})

\* A hyphen is put within a word, and behind hyphenminchars of its characters
\* at the least.
HyphenWithin ==
  \A l \in ToSet(out) :
    l.hyphen =>
      /\ l.next \notin Delimiters
      /\ \A k \in 0..MinChars - 1 : l.chars[Len(l.chars) - k] \notin Delimiters

\* Each call returns, and with one box after the other all of the text is
\* shown: no call leaves its box empty.
AllShown == pc = "outer" ~> pc = "returned" /\ ret = 0

=============================================================================
