--------------------------- MODULE PSGraphics_proofs ---------------------------
(***************************************************************************)
(* Proofs about PSGraphics: whatever is set, saved, restored and painted   *)
(* on whatever canvas, what is painted has the colour asked for, although  *)
(* pslib writes a colour only when it believes the interpreter to have     *)
(* another one.  The invariant says this of every level of PS_save, not of *)
(* the current one only.                                                   *)
(***************************************************************************)
EXTENDS PSGraphics, PSDocument_proofs

----------------------------------------------------------------------------
(* Every call is a call of PSDocument, or leaves it alone.                 *)

LEMMA ShadingCalled ==
  ASSUME GShadingPattern
  PROVE  ShadingPattern
<1>1. PICK found \in {FALSE, gfx.shading} : Returns(PS_shading_pattern(psdoc, found))
  BY DEF GShadingPattern
<1>2. PS_shading_pattern(psdoc, found) \in
        {PS_shading_pattern(psdoc, TRUE), PS_shading_pattern(psdoc, FALSE)}
  BY DEF PS_shading_pattern
<1> QED
  BY <1>1, <1>2 DEF GShadingPattern, ShadingPattern

LEMMA TextCalled ==
  ASSUME GShowText
  PROVE  ShowText \/ (Returns(psdoc) /\ UNCHANGED <<opens, pending>>)
<1>1. PICK lines \in Decorations :
        Returns(IF gfx.font = NoFont THEN psdoc ELSE PS_show2(psdoc, lines))
  BY DEF GShowText
<1>2. lines \in SUBSET Decoration
  BY DecorationsAssumption
<1>3. NeedsLevel /\ UNCHANGED <<opens, pending>>
  BY DEF GShowText
<1> QED
  BY <1>1, <1>2, <1>3 DEF ShowText

LEMMA DocumentCalled ==
  ASSUME GNext
  PROVE  Next \/ UNCHANGED vars
<1>1. Returns(psdoc) /\ UNCHANGED <<opens, pending>> => UNCHANGED vars
  BY DEF Returns, vars
<1>2. CASE GBeginPage \/ GEndPage \/ GCloseDocument \/ GDeleteDocument
  BY <1>2 DEF GBeginPage, GEndPage, GCloseDocument, GDeleteDocument, Next
<1>3. CASE (BeginTemplate /\ GDefine("TEMPLATE")) \/ (BeginGlyph /\ GDefine("GLYPH"))
  BY <1>3 DEF Next
<1>4. CASE GBeginPattern \/ GEndPattern \/ GBeginFont \/ GEndDefinition
  BY <1>4 DEF GBeginPattern, GEndPattern, GBeginFont, GEndDefinition, Next
<1>5. CASE GShadingPattern
  BY <1>5, ShadingCalled DEF Next
<1>6. CASE GOther
  BY <1>6 DEF GOther, Next
<1>7. CASE GSave \/ GRestore \/ GEndPath
  BY <1>7 DEF GSave, GRestore, GEndPath, Next
<1>8. CASE GShowText
  BY <1>1, <1>8, TextCalled DEF Next
<1>9. CASE SetColour \/ SetGray \/ SetFont \/ MakeSpotColour \/ MakeShading
  BY <1>1, <1>9 DEF SetColour, SetGray, SetFont, MakeSpotColour, MakeShading
<1> QED
  BY <1>2, <1>3, <1>4, <1>5, <1>6, <1>7, <1>8, <1>9 DEF GNext

LEMMA DocumentKept ==
  ASSUME [GNext]_gvars
  PROVE  [Next]_vars
  BY DocumentCalled DEF gvars, vars

\* PSGraphics is PSDocument with colours: whatever is true of a document is
\* true of the documents here.
THEOREM DocumentWithGraphics == GSpec => Spec
<1>1. GInit => Init
  BY DEF GInit
<1> QED
  BY <1>1, DocumentKept, PTL DEF GSpec, Spec

----------------------------------------------------------------------------
(* The stacks of levels.                                                   *)

\* Names for what the proofs below leave closed.
Stack(S, s) == s \in Seq(S) /\ Len(s) >= 1
Height(s) == Len(s)
At(s, i) == s[i]

LEMMA StackTop ==
  ASSUME NEW S, NEW s, Stack(S, s)
  PROVE  /\ Height(s) \in Nat /\ Height(s) >= 1
         /\ Top(s) \in S /\ Top(s) = At(s, Height(s))
         /\ \A i \in 1..Height(s) : At(s, i) \in S
  BY DEF Stack, Height, At, Top

LEMMA StackSet ==
  ASSUME NEW S, NEW s, Stack(S, s), NEW x \in S
  PROVE  /\ Stack(S, SetTop(s, x)) /\ Height(SetTop(s, x)) = Height(s)
         /\ Top(SetTop(s, x)) = x
         /\ \A i \in 1..Height(s) :
              At(SetTop(s, x), i) = IF i = Height(s) THEN x ELSE At(s, i)
<1>1. s \in Seq(S) /\ Len(s) \in 1..Len(s)
  BY DEF Stack
<1>2. /\ SetTop(s, x) \in Seq(S) /\ Len(SetTop(s, x)) = Len(s)
      /\ \A i \in 1..Len(s) : SetTop(s, x)[i] = IF i = Len(s) THEN x ELSE s[i]
  BY <1>1, ExceptSeq DEF SetTop
<1>3. Top(SetTop(s, x)) = x
  BY <1>1, <1>2 DEF Top
<1>4. Stack(S, SetTop(s, x)) /\ Height(SetTop(s, x)) = Height(s)
  BY <1>2 DEF Stack, Height
<1>5. \A i \in 1..Height(s) : At(SetTop(s, x), i) = IF i = Height(s) THEN x ELSE At(s, i)
  BY <1>2 DEF Height, At
<1> QED
  BY <1>3, <1>4, <1>5

LEMMA StackEqual ==
  ASSUME NEW S, NEW s, NEW t, Stack(S, s), Stack(S, t), Height(s) = Height(t),
         \A i \in 1..Height(s) : At(s, i) = At(t, i)
  PROVE  s = t
  BY SeqEqual DEF Stack, Height, At

LEMMA StackUnset ==
  ASSUME NEW S, NEW s, Stack(S, s)
  PROVE  SetTop(s, Top(s)) = s
<1>1. Top(s) \in S /\ Top(s) = At(s, Height(s))
  BY StackTop
<1>2. /\ Stack(S, SetTop(s, Top(s))) /\ Height(SetTop(s, Top(s))) = Height(s)
      /\ \A i \in 1..Height(s) :
           At(SetTop(s, Top(s)), i) = IF i = Height(s) THEN Top(s) ELSE At(s, i)
  BY <1>1, StackSet
<1>3. \A i \in 1..Height(s) : At(SetTop(s, Top(s)), i) = At(s, i)
  BY <1>1, <1>2
<1> QED
  BY <1>2, <1>3, StackEqual

LEMMA StackPush ==
  ASSUME NEW S, NEW s, Stack(S, s)
  PROVE  /\ Stack(S, Push(s)) /\ Height(Push(s)) = Height(s) + 1 /\ Top(Push(s)) = Top(s)
         /\ \A i \in 1..Height(s) : At(Push(s), i) = At(s, i)
         /\ At(Push(s), Height(s) + 1) = Top(s)
<1>1. s \in Seq(S) /\ Len(s) \in 1..Len(s) /\ Top(s) \in S
  BY DEF Stack, Top
<1>2. /\ Push(s) \in Seq(S) /\ Len(Push(s)) = Len(s) + 1
      /\ \A i \in 1..Len(s) : Push(s)[i] = s[i]
      /\ Push(s)[Len(s) + 1] = Top(s)
  BY <1>1, AppendProperties DEF Push
<1>3. Top(Push(s)) = Top(s)
  BY <1>2 DEF Top
<1> QED
  BY <1>1, <1>2, <1>3 DEF Stack, Height, At

LEMMA StackPop ==
  ASSUME NEW S, NEW s, Stack(S, s)
  PROVE  /\ Stack(S, Pop(s))
         /\ Height(Pop(s)) = IF Height(s) > 1 THEN Height(s) - 1 ELSE 1
         /\ \A i \in 1..Height(Pop(s)) : At(Pop(s), i) = At(s, i)
<1>1. CASE Height(s) > 1
  <2>1. s \in Seq(S) /\ Len(s) - 1 \in 1..Len(s) /\ Len(s) > 1
    BY <1>1 DEF Stack, Height
  <2>2. /\ SubSeq(s, 1, Len(s) - 1) \in Seq(S)
        /\ Len(SubSeq(s, 1, Len(s) - 1)) = Len(s) - 1
        /\ \A i \in 1..(Len(s) - 1) : SubSeq(s, 1, Len(s) - 1)[i] = s[i]
    BY <2>1
  <2> QED
    BY <1>1, <2>1, <2>2 DEF Pop, Stack, Height, At
<1>2. CASE ~(Height(s) > 1)
  <2>1. Pop(s) = s
    BY <1>2 DEF Pop, Height
  <2>2. Height(s) = 1
    <3>1. Height(s) \in Nat /\ Height(s) >= 1
      BY StackTop
    <3> QED
      BY <1>2, <3>1
  <2> QED
    BY <1>2, <2>1, <2>2
<1> QED
  BY <1>1, <1>2

\* What PS_fill_stroke fills with is gone when it strokes.
LEMMA PushedPopped ==
  ASSUME NEW S, NEW s, Stack(S, s), NEW x \in S
  PROVE  Pop(Push(s)) = s /\ Pop(SetTop(Push(s), x)) = s
<1>0. Height(s) \in Nat /\ Height(s) >= 1
  BY StackTop
<1>1. /\ Stack(S, Push(s)) /\ Height(Push(s)) = Height(s) + 1
      /\ \A i \in 1..Height(s) : At(Push(s), i) = At(s, i)
  BY StackPush
<1>2. /\ Stack(S, SetTop(Push(s), x)) /\ Height(SetTop(Push(s), x)) = Height(s) + 1
      /\ \A i \in 1..(Height(s) + 1) : At(SetTop(Push(s), x), i) =
           IF i = Height(s) + 1 THEN x ELSE At(Push(s), i)
  BY <1>1, StackSet
<1>3. \A i \in 1..Height(s) : At(SetTop(Push(s), x), i) = At(s, i)
  BY <1>0, <1>1, <1>2
<1>4. ASSUME NEW q, Stack(S, q), Height(q) = Height(s) + 1,
             \A i \in 1..Height(s) : At(q, i) = At(s, i)
      PROVE  Pop(q) = s
  <2>1. Height(q) > 1 /\ Height(q) - 1 = Height(s)
    BY <1>0, <1>4
  <2>2. /\ Stack(S, Pop(q)) /\ Height(Pop(q)) = Height(s)
        /\ \A i \in 1..Height(s) : At(Pop(q), i) = At(q, i)
    BY <1>4, <2>1, StackPop
  <2>3. \A i \in 1..Height(s) : At(Pop(q), i) = At(s, i)
    BY <1>4, <2>2
  <2> QED
    BY <2>2, <2>3, StackEqual
<1> QED
  BY <1>1, <1>2, <1>3, <1>4

LEMMA StackSetTwice ==
  ASSUME NEW S, NEW s, Stack(S, s), NEW x \in S, NEW y \in S
  PROVE  SetTop(SetTop(s, x), y) = SetTop(s, y)
<1> DEFINE t == SetTop(s, x)
           u == SetTop(t, y)
           v == SetTop(s, y)
<1>0. Height(s) \in Nat
  BY StackTop
<1>1. /\ Stack(S, t) /\ Height(t) = Height(s)
      /\ \A i \in 1..Height(s) : At(t, i) = IF i = Height(s) THEN x ELSE At(s, i)
  BY StackSet
<1> HIDE DEF t
<1>2. /\ Stack(S, u) /\ Height(u) = Height(s)
      /\ \A i \in 1..Height(s) : At(u, i) = IF i = Height(s) THEN y ELSE At(t, i)
  BY <1>1, StackSet
<1>3. /\ Stack(S, v) /\ Height(v) = Height(s)
      /\ \A i \in 1..Height(s) : At(v, i) = IF i = Height(s) THEN y ELSE At(s, i)
  BY StackSet
<1> HIDE DEF u, v
<1>4. \A i \in 1..Height(s) : At(u, i) = At(v, i)
  BY <1>1, <1>2, <1>3
<1>5. u = v
  BY <1>2, <1>3, <1>4, StackEqual
<1> QED
  BY <1>5 DEF t, u, v

----------------------------------------------------------------------------
(* The invariant.                                                          *)

Values == Colours \cup SpotNames \cup Patterns \cup {""}

Spaces == {"device", "spot", "pattern", "unset", "inherited", "none", "not set"}

AnyColour ==
  [space : Spaces, c : Values,
   over : {<<>>} \cup ({"device", "spot"} \X Values)]

AState == [colour : [Kind -> AnyColour], invalid : [Kind -> BOOLEAN]]

Wishes == [Kind -> AnyColour]

GraphicsRecords ==
  [agstates : Seq(AState), font : Fonts \cup {NoFont}, painttype : [Patterns -> 0..2],
   pattern : Patterns \cup {NoPattern}, spots : SUBSET SpotNames, shading : BOOLEAN,
   defined : SUBSET ((Patterns \cup {NoPattern}) \X {"page", "document"}),
   interp : Seq(AnyColour), wanted : Seq(Wishes),
   mark : SUBSET [used : AnyColour, wanted : AnyColour]]

Typed(g) ==
  /\ g \in GraphicsRecords
  /\ Stack(AState, g.agstates) /\ Stack(AnyColour, g.interp) /\ Stack(Wishes, g.wanted)

\* A colour that the interpreter has once it is written.
Paintable(g, colour) ==
  \/ colour.space \in {"device", "spot"}
  \/ /\ colour.space = "pattern" /\ colour.c \in Patterns /\ IsDefined(g, colour.c)
     /\ \/ g.painttype[colour.c] = 1
        \/ g.painttype[colour.c] = 2 /\ colour.over # <<>> /\ colour.over[1] = "device"

\* One level: what pslib remembers is what is wanted, and what need not be
\* written is what the interpreter has.
Meant(g, a, w) ==
  \A k \in Kind : w[k] # Unset => Same(a.colour[k], w[k]) /\ Paintable(g, a.colour[k])

UpToDate(a, i, w) ==
  \A k \in Kind : w[k] # Unset /\ ~a.invalid[k] => i = a.colour[k]

Right(g, a, i, w) == Meant(g, a, w) /\ UpToDate(a, i, w)

\* As many levels for the interpreter as for pslib, and every one is right.
Coherent(g) ==
  /\ Typed(g)
  /\ Height(g.interp) = Height(g.agstates) /\ Height(g.wanted) = Height(g.agstates)
  /\ \A l \in 1..Height(g.agstates) :
       Right(g, At(g.agstates, l), At(g.interp, l), At(g.wanted, l))

NoWish == [k \in Kind |-> Unset]

Wishless(g) == \A l \in 1..Height(g.wanted) : At(g.wanted, l) = NoWish

\* The inductive invariant.  No colour is wanted but on a canvas.
GInv ==
  /\ Coherent(gfx)
  /\ psdoc.life = "live" => Height(gfx.agstates) = psdoc.agstate + 1
  /\ ~HasCanvas(psdoc) => Wishless(gfx)
  /\ gfx.mark = {}

----------------------------------------------------------------------------
(* What calls leave alone.                                                 *)

SameBooks(g, h) ==
  /\ h.font = g.font /\ h.painttype = g.painttype /\ h.pattern = g.pattern
  /\ h.spots = g.spots /\ (h.shading <=> g.shading) /\ h.defined = g.defined
  /\ h.mark = g.mark

LEMMA NewAgstates ==
  ASSUME NEW g, Typed(g), NEW s, Stack(AState, s)
  PROVE  LET h == [g EXCEPT !.agstates = s]
         IN  Typed(h) /\ SameBooks(g, h) /\ h.agstates = s /\ h.interp = g.interp
             /\ h.wanted = g.wanted
<1> DEFINE h == [g EXCEPT !.agstates = s]
<1>1. g \in GraphicsRecords /\ s \in Seq(AState)
  BY DEF Typed, Stack
<1>2. h \in GraphicsRecords
  BY <1>1 DEF GraphicsRecords
<1>3. h.agstates = s /\ h.interp = g.interp /\ h.wanted = g.wanted
  BY <1>1 DEF GraphicsRecords
<1>4. SameBooks(g, h)
  BY <1>1 DEF GraphicsRecords, SameBooks
<1> HIDE DEF h
<1> QED
  BY <1>2, <1>3, <1>4 DEF Typed, h

LEMMA NewInterp ==
  ASSUME NEW g, Typed(g), NEW s, Stack(AnyColour, s)
  PROVE  LET h == [g EXCEPT !.interp = s]
         IN  Typed(h) /\ SameBooks(g, h) /\ h.interp = s /\ h.agstates = g.agstates
             /\ h.wanted = g.wanted
<1> DEFINE h == [g EXCEPT !.interp = s]
<1>1. g \in GraphicsRecords /\ s \in Seq(AnyColour)
  BY DEF Typed, Stack
<1>2. h \in GraphicsRecords
  BY <1>1 DEF GraphicsRecords
<1>3. h.interp = s /\ h.agstates = g.agstates /\ h.wanted = g.wanted
  BY <1>1 DEF GraphicsRecords
<1>4. SameBooks(g, h)
  BY <1>1 DEF GraphicsRecords, SameBooks
<1> HIDE DEF h
<1> QED
  BY <1>2, <1>3, <1>4 DEF Typed, h

LEMMA NewWanted ==
  ASSUME NEW g, Typed(g), NEW s, Stack(Wishes, s)
  PROVE  LET h == [g EXCEPT !.wanted = s]
         IN  Typed(h) /\ SameBooks(g, h) /\ h.wanted = s /\ h.agstates = g.agstates
             /\ h.interp = g.interp
<1> DEFINE h == [g EXCEPT !.wanted = s]
<1>1. g \in GraphicsRecords /\ s \in Seq(Wishes)
  BY DEF Typed, Stack
<1>2. h \in GraphicsRecords
  BY <1>1 DEF GraphicsRecords
<1>3. h.wanted = s /\ h.agstates = g.agstates /\ h.interp = g.interp
  BY <1>1 DEF GraphicsRecords
<1>4. SameBooks(g, h)
  BY <1>1 DEF GraphicsRecords, SameBooks
<1> HIDE DEF h
<1> QED
  BY <1>2, <1>3, <1>4 DEF Typed, h

LEMMA BooksAreShared ==
  ASSUME NEW g, NEW h, SameBooks(g, h)
  PROVE  /\ \A colour : Paintable(h, colour) <=> Paintable(g, colour)
         /\ \A a, i, w : Right(h, a, i, w) <=> Right(g, a, i, w)
         /\ \A a, w : Meant(h, a, w) <=> Meant(g, a, w)
<1>1. \A colour : Paintable(h, colour) <=> Paintable(g, colour)
  BY DEF SameBooks, Paintable, IsDefined
<1> QED
  BY <1>1 DEF Right, Meant

\* The levels below the current one stay as they are.
LEMMA TopsChanged ==
  ASSUME NEW g, Coherent(g), NEW h, Typed(h), SameBooks(g, h),
         NEW a \in AState, NEW i \in AnyColour, NEW w \in Wishes, Right(g, a, i, w),
         h.agstates = SetTop(g.agstates, a), h.interp = SetTop(g.interp, i),
         h.wanted = SetTop(g.wanted, w)
  PROVE  Coherent(h) /\ Height(h.agstates) = Height(g.agstates)
<1>1. PICK n \in Nat : n = Height(g.agstates) /\ n >= 1
  BY StackTop DEF Coherent, Typed
<1>2. /\ Height(h.agstates) = n
      /\ \A l \in 1..n : At(h.agstates, l) = IF l = n THEN a ELSE At(g.agstates, l)
  BY <1>1, StackSet DEF Coherent, Typed
<1>3. /\ Height(h.interp) = n
      /\ \A l \in 1..n : At(h.interp, l) = IF l = n THEN i ELSE At(g.interp, l)
  BY <1>1, StackSet DEF Coherent, Typed
<1>4. /\ Height(h.wanted) = n
      /\ \A l \in 1..n : At(h.wanted, l) = IF l = n THEN w ELSE At(g.wanted, l)
  BY <1>1, StackSet DEF Coherent, Typed
<1>5. ASSUME NEW l \in 1..n
      PROVE  Right(h, At(h.agstates, l), At(h.interp, l), At(h.wanted, l))
  <2>1. CASE l = n
    BY <1>2, <1>3, <1>4, <2>1, BooksAreShared
  <2>2. CASE l # n
    BY <1>1, <1>2, <1>3, <1>4, <2>2, BooksAreShared DEF Coherent
  <2> QED
    BY <2>1, <2>2
<1> QED
  BY <1>1, <1>2, <1>3, <1>4, <1>5 DEF Coherent

\* What is right at the top of coherent levels.
LEMMA TopIsRight ==
  ASSUME NEW g, Coherent(g)
  PROVE  /\ Top(g.agstates) \in AState /\ Top(g.interp) \in AnyColour /\ Top(g.wanted) \in Wishes
         /\ Right(g, Top(g.agstates), Top(g.interp), Top(g.wanted))
<1>1. PICK n \in Nat : n = Height(g.agstates) /\ n >= 1
  BY StackTop DEF Coherent, Typed
<1>2. /\ Top(g.agstates) \in AState /\ Top(g.agstates) = At(g.agstates, n)
      /\ Top(g.interp) \in AnyColour /\ Top(g.interp) = At(g.interp, n)
      /\ Top(g.wanted) \in Wishes /\ Top(g.wanted) = At(g.wanted, n)
  BY <1>1, StackTop DEF Coherent, Typed
<1> QED
  BY <1>1, <1>2 DEF Coherent

----------------------------------------------------------------------------
(* Colours are written.                                                    *)

LEMMA ColourIs ==
  ASSUME NEW space \in Spaces, NEW c \in Values
  PROVE  LET colour == Colour(space, c)
         IN  colour \in AnyColour /\ colour.space = space /\ colour.c = c /\ colour.over = <<>>
  BY DEF Colour, AnyColour, Spaces

LEMMA WrittenIs ==
  ASSUME NEW g, Typed(g), NEW colour \in AnyColour
  PROVE  /\ Written(g, colour) \in AnyColour
         /\ Paintable(g, colour) => Written(g, colour) = colour
<1>1. Top(g.interp) \in AnyColour
  BY StackTop DEF Typed
<1>2. NotSet \in AnyColour
  BY ColourIs DEF NotSet, Spaces, Values
<1>3. Written(g, colour) \in {colour, NotSet, Top(g.interp)}
  BY DEF Written
<1>4. ASSUME Paintable(g, colour)
      PROVE  Written(g, colour) = colour
  BY <1>4 DEF Paintable, Written
<1> QED
  BY <1>1, <1>2, <1>3, <1>4

\* The flags when the colour of kind k has been written.
Flagged(a, k) == [a EXCEPT !.invalid = [j \in Kind |-> j = Other(k)]]

LEMMA FlaggedIs ==
  ASSUME NEW a \in AState, NEW k \in Kind
  PROVE  /\ Flagged(a, k) \in AState /\ Flagged(a, k).colour = a.colour
         /\ \A j \in Kind : Flagged(a, k).invalid[j] <=> j # k
         /\ a.colour[k] \in AnyColour
<1>1. \A j \in Kind : (j = Other(k)) <=> j # k
  BY DEF Kind, Other
<1>2. [j \in Kind |-> j = Other(k)] \in [Kind -> BOOLEAN]
  OBVIOUS
<1>3. Flagged(a, k) \in AState /\ Flagged(a, k).colour = a.colour
      /\ Flagged(a, k).invalid = [j \in Kind |-> j = Other(k)]
  BY <1>2 DEF Flagged, AState
<1>4. a.colour[k] \in AnyColour
  BY DEF AState
<1> QED
  BY <1>1, <1>3, <1>4

\* What ps_setcolor does to the two stacks.
LEMMA SetColorIs ==
  ASSUME NEW g, Typed(g), NEW d, NEW k \in Kind, ~Uncoloured(g, d), Top(g.agstates).invalid[k]
  PROVE  LET h == ps_setcolor(g, d, k)
             a == Top(g.agstates)
         IN  /\ Typed(h) /\ SameBooks(g, h) /\ h.wanted = g.wanted
             /\ h.agstates = SetTop(g.agstates, Flagged(a, k))
             /\ h.interp = SetTop(g.interp, Written(g, a.colour[k]))
<1> DEFINE a == Top(g.agstates)
           m == [g EXCEPT !.agstates = SetTop(@, Flagged(a, k))]
           i == Written(g, a.colour[k])
           h == ps_setcolor(g, d, k)
<1>1. a \in AState
  BY StackTop DEF Typed
<1>2. Flagged(a, k) \in AState /\ a.colour[k] \in AnyColour
  BY <1>1, FlaggedIs
<1>3. Stack(AState, SetTop(g.agstates, Flagged(a, k)))
  BY <1>2, StackSet DEF Typed
<1>4. m = [g EXCEPT !.agstates = SetTop(g.agstates, Flagged(a, k))]
  OBVIOUS
<1>5. /\ Typed(m) /\ SameBooks(g, m) /\ m.agstates = SetTop(g.agstates, Flagged(a, k))
      /\ m.interp = g.interp /\ m.wanted = g.wanted
  BY <1>3, <1>4, NewAgstates
<1>6. h = Write(m, a.colour[k])
  BY DEF ps_setcolor, Flagged
<1>7. Written(m, a.colour[k]) = i
  BY <1>5 DEF Written, SameBooks, IsDefined
<1>8. i \in AnyColour
  BY <1>2, WrittenIs
<1>9. h = [m EXCEPT !.interp = SetTop(g.interp, i)]
  BY <1>5, <1>6, <1>7 DEF Write
<1>10. Stack(AnyColour, SetTop(g.interp, i))
  BY <1>8, StackSet DEF Typed
<1> HIDE DEF m, i, h, a
<1>11. /\ Typed(h) /\ SameBooks(m, h) /\ h.interp = SetTop(g.interp, i)
       /\ h.agstates = m.agstates /\ h.wanted = m.wanted
  BY <1>5, <1>9, <1>10, NewInterp
<1>12. SameBooks(g, h)
  BY <1>5, <1>11 DEF SameBooks
<1> QED
  BY <1>5, <1>11, <1>12 DEF h, i, a

LEMMA SetColorNot ==
  ASSUME NEW g, NEW d, NEW k, Uncoloured(g, d) \/ ~Top(g.agstates).invalid[k]
  PROVE  ps_setcolor(g, d, k) = g
  BY DEF ps_setcolor

\* What has just been made current is painted as it was asked for.
LEMMA PaintedRight ==
  ASSUME NEW g, NEW k \in Kind,
         Right(g, Top(g.agstates), Top(g.interp), Top(g.wanted)), ~Top(g.agstates).invalid[k]
  PROVE  Painted(g, k) = g
<1>1. CASE Top(g.wanted)[k] = Unset
  BY <1>1 DEF Painted
<1>2. CASE Top(g.wanted)[k] # Unset
  <2>1. Same(Top(g.interp), Top(g.wanted)[k])
    BY <1>2 DEF Right, Meant, UpToDate
  <2> QED
    BY <2>1 DEF Painted
<1> QED
  BY <1>1, <1>2

\* The value at the top of each stack when a colour has been written.
LEMMA WrittenRight ==
  ASSUME NEW g, Typed(g), NEW a \in AState, NEW w \in Wishes, NEW k \in Kind, Meant(g, a, w)
  PROVE  Right(g, Flagged(a, k), Written(g, a.colour[k]), w)
<1>1. /\ Flagged(a, k).colour = a.colour
      /\ \A j \in Kind : Flagged(a, k).invalid[j] <=> j # k
      /\ a.colour[k] \in AnyColour
  BY FlaggedIs
<1>2. Meant(g, Flagged(a, k), w)
  BY <1>1 DEF Meant
<1>3. ASSUME NEW j \in Kind, w[j] # Unset, ~Flagged(a, k).invalid[j]
      PROVE  Written(g, a.colour[k]) = Flagged(a, k).colour[j]
  <2>1. j = k
    BY <1>1, <1>3
  <2>2. Paintable(g, a.colour[k])
    BY <1>3, <2>1 DEF Meant
  <2> QED
    BY <1>1, <2>1, <2>2, WrittenIs
<1> QED
  BY <1>2, <1>3 DEF Right, UpToDate

LEMMA ColourWritten ==
  ASSUME NEW g, Coherent(g), NEW d, NEW k \in Kind
  PROVE  LET h == ps_setcolor(g, d, k)
         IN  /\ Coherent(h) /\ SameBooks(g, h) /\ h.wanted = g.wanted
             /\ Height(h.agstates) = Height(g.agstates)
             /\ ~Uncoloured(g, d) => Painted(h, k) = h
<1> DEFINE h == ps_setcolor(g, d, k)
           a == Top(g.agstates)
           w == Top(g.wanted)
           i == Written(g, a.colour[k])
<1>1. a \in AState /\ w \in Wishes /\ Top(g.interp) \in AnyColour /\ Typed(g)
      /\ Right(g, a, Top(g.interp), w)
  BY TopIsRight DEF Coherent
<1>2. CASE Uncoloured(g, d) \/ ~a.invalid[k]
  <2>1. h = g
    BY <1>2, SetColorNot
  <2>2. ~Uncoloured(g, d) => Painted(g, k) = g
    BY <1>1, <1>2, PaintedRight
  <2> QED
    BY <2>1, <2>2 DEF SameBooks
<1>3. CASE ~Uncoloured(g, d) /\ a.invalid[k]
  <2>1. /\ Typed(h) /\ SameBooks(g, h) /\ h.wanted = g.wanted
        /\ h.agstates = SetTop(g.agstates, Flagged(a, k))
        /\ h.interp = SetTop(g.interp, i)
    BY <1>1, <1>3, SetColorIs
  <2>2. Flagged(a, k) \in AState /\ i \in AnyColour /\ ~Flagged(a, k).invalid[k]
    BY <1>1, FlaggedIs, WrittenIs
  <2>3. Right(g, Flagged(a, k), i, w)
    BY <1>1, WrittenRight DEF Right
  <2>4. SetTop(g.wanted, w) = g.wanted
    BY <1>1, StackUnset DEF Typed
  <2> HIDE DEF h, a, w, i
  <2>5. Coherent(h) /\ Height(h.agstates) = Height(g.agstates)
    BY <1>1, <2>1, <2>2, <2>3, <2>4, TopsChanged
  <2>6. Top(h.agstates) = Flagged(a, k)
    BY <1>1, <2>1, <2>2, StackSet DEF Typed
  <2>7. Painted(h, k) = h
    BY <2>2, <2>5, <2>6, TopIsRight, PaintedRight
  <2> QED
    BY <2>1, <2>5, <2>7 DEF h
<1> QED
  BY <1>2, <1>3

----------------------------------------------------------------------------
(* Painting.                                                               *)

\* What painting changes: neither the wishes nor the levels, and it leaves no
\* mark.
Repaints(g, h) ==
  /\ Coherent(h) /\ SameBooks(g, h) /\ h.wanted = g.wanted
  /\ Height(h.agstates) = Height(g.agstates)

LEMMA RepaintsTwice ==
  ASSUME NEW g, NEW h, NEW i, Repaints(g, h), Repaints(h, i)
  PROVE  Repaints(g, i)
  BY DEF Repaints, SameBooks

LEMMA RepaintsNothing ==
  ASSUME NEW g, Coherent(g)
  PROVE  Repaints(g, g)
  BY DEF Repaints, SameBooks

LEMMA PathIsColoured ==
  ASSUME NEW g, NEW d, ps_check_scope(d, {"PATH"})
  PROVE  ~Uncoloured(g, d)
  BY DEF Uncoloured, ps_check_scope

LEMMA PathPainted ==
  ASSUME NEW g, Coherent(g), NEW d, NEW k \in Kind
  PROVE  Repaints(g, PaintWith(g, d, k))
<1>1. CASE ps_check_scope(d, {"PATH"})
  <2>1. PaintWith(g, d, k) = ps_setcolor(g, d, k)
    BY <1>1, PathIsColoured, ColourWritten DEF PaintWith
  <2> QED
    BY <2>1, ColourWritten DEF Repaints
<1>2. CASE ~ps_check_scope(d, {"PATH"})
  BY <1>2, RepaintsNothing DEF PaintWith
<1> QED
  BY <1>1, <1>2

\* In PS_fill_stroke the colour to fill with goes with its gsave, and with it
\* pslib's belief in it: to stroke is to overwrite it.
LEMMA FilledAndStroked ==
  ASSUME NEW g, Coherent(g), NEW d
  PROVE  Repaints(g, PS_fill_stroke(g, d))
<1>1. CASE ~ps_check_scope(d, {"PATH"})
  BY <1>1, RepaintsNothing DEF PS_fill_stroke
<1>2. CASE ps_check_scope(d, {"PATH"})
  <2> DEFINE saved == [g EXCEPT !.interp = Push(@)]
             coloured == ps_setcolor(saved, d, "fill")
             filled == Painted(coloured, "fill")
             back == [filled EXCEPT !.interp = Pop(@)]
             a == Top(g.agstates)
             w == Top(g.wanted)
  <2>1. /\ Typed(g) /\ a \in AState /\ w \in Wishes /\ Top(g.interp) \in AnyColour
        /\ Right(g, a, Top(g.interp), w)
    BY TopIsRight DEF Coherent
  <2>2. "fill" \in Kind /\ "stroke" \in Kind
    BY DEF Kind
  <2>3. PS_fill_stroke(g, d) = PaintWith(back, d, "stroke")
    BY <1>2 DEF PS_fill_stroke
  <2>4. /\ Typed(saved) /\ SameBooks(g, saved) /\ saved.interp = Push(g.interp)
        /\ saved.agstates = g.agstates /\ saved.wanted = g.wanted
    <3>1. Stack(AnyColour, Push(g.interp))
      BY <2>1, StackPush DEF Typed
    <3> QED
      BY <2>1, <3>1, NewInterp
  <2>5. Top(saved.interp) = Top(g.interp)
    BY <2>1, <2>4, StackPush DEF Typed
  <2>6. Right(saved, a, Top(saved.interp), w)
    BY <2>1, <2>4, <2>5, BooksAreShared
  <2>7. ~Uncoloured(saved, d)
    BY <1>2, PathIsColoured
  <2>8. CASE ~a.invalid["fill"]
    <3>1. coloured = saved
      BY <2>4, <2>8, SetColorNot
    <3>2. filled = saved
      BY <2>2, <2>4, <2>6, <2>8, <3>1, PaintedRight
    <3>3. back = g
      <4>1. Pop(Push(g.interp)) = g.interp
        BY <2>1, PushedPopped DEF Typed
      <4>2. back = [g EXCEPT !.interp = Pop(Push(g.interp))]
        <5>1. back = [saved EXCEPT !.interp = Pop(Push(g.interp))]
          BY <2>4, <3>2
        <5> QED
          BY <2>1, <5>1 DEF Typed, GraphicsRecords
      <4>3. [g EXCEPT !.interp = g.interp] = g
        BY <2>1 DEF Typed, GraphicsRecords
      <4> QED
        BY <4>1, <4>2, <4>3
    <3> QED
      BY <2>2, <2>3, <3>3, PathPainted
  <2>9. CASE a.invalid["fill"]
    <3> DEFINE i == Written(saved, a.colour["fill"])
               b == Flagged(a, "fill")
    <3>1. /\ Typed(coloured) /\ SameBooks(saved, coloured) /\ coloured.wanted = g.wanted
          /\ coloured.agstates = SetTop(g.agstates, b)
          /\ coloured.interp = SetTop(Push(g.interp), i)
      <4>1. Typed(saved) /\ Top(saved.agstates) = a /\ saved.agstates = g.agstates
            /\ saved.interp = Push(g.interp) /\ saved.wanted = g.wanted
        BY <2>4
      <4> HIDE DEF saved, a
      <4>2. /\ Typed(coloured) /\ SameBooks(saved, coloured) /\ coloured.wanted = saved.wanted
            /\ coloured.agstates = SetTop(saved.agstates, Flagged(a, "fill"))
            /\ coloured.interp = SetTop(saved.interp, Written(saved, a.colour["fill"]))
        BY <2>2, <2>7, <2>9, <4>1, SetColorIs
      <4> QED
        BY <4>1, <4>2
    <3>2. /\ b \in AState /\ i \in AnyColour /\ ~b.invalid["fill"] /\ b.invalid["stroke"]
          /\ b.colour = a.colour
      BY <2>1, <2>2, <2>4, FlaggedIs, WrittenIs
    <3>3. Right(saved, b, i, w)
      BY <2>1, <2>2, <2>4, <2>6, WrittenRight DEF Right
    <3>4. /\ Top(coloured.agstates) = b /\ Top(coloured.wanted) = w
          /\ Top(coloured.interp) = i
      <4>1. Stack(AnyColour, Push(g.interp))
        BY <2>1, StackPush DEF Typed
      <4> QED
        BY <2>1, <3>1, <3>2, <4>1, StackSet DEF Typed
    <3>5. filled = coloured
      BY <2>2, <3>1, <3>2, <3>3, <3>4, BooksAreShared, PaintedRight
    <3>6. Pop(SetTop(Push(g.interp), i)) = g.interp
      BY <2>1, <3>2, PushedPopped DEF Typed
    <3>7. back = [coloured EXCEPT !.interp = g.interp]
      BY <3>1, <3>5, <3>6
    <3> HIDE DEF saved, coloured, filled, back, i, b
    <3>8. /\ Typed(back) /\ SameBooks(coloured, back) /\ back.interp = g.interp
          /\ back.agstates = SetTop(g.agstates, b) /\ back.wanted = g.wanted
      <4>1. Typed(coloured) /\ Stack(AnyColour, g.interp)
        BY <2>1, <3>1 DEF Typed
      <4> QED
        BY <3>1, <3>7, <4>1, NewInterp
    <3>9. SameBooks(g, back)
      BY <2>4, <3>1, <3>8 DEF SameBooks
    <3> DEFINE h == ps_setcolor(back, d, "stroke")
               j == Written(back, b.colour["stroke"])
               c == Flagged(b, "stroke")
    <3>10. Top(back.agstates) = b
      BY <2>1, <3>2, <3>8, StackSet DEF Typed
    <3>11. ~Uncoloured(back, d)
      BY <1>2, PathIsColoured
    <3>12. /\ Typed(h) /\ SameBooks(back, h) /\ h.wanted = g.wanted
           /\ h.agstates = SetTop(SetTop(g.agstates, b), c)
           /\ h.interp = SetTop(g.interp, j)
      BY <2>2, <3>2, <3>8, <3>10, <3>11, SetColorIs
    <3>13. c \in AState /\ j \in AnyColour /\ ~c.invalid["stroke"]
      BY <2>2, <3>2, <3>8, FlaggedIs, WrittenIs
    <3>14. h.agstates = SetTop(g.agstates, c)
      BY <2>1, <3>2, <3>12, <3>13, StackSetTwice DEF Typed
    <3>15. Meant(back, b, w)
      BY <2>1, <3>2, <3>9, BooksAreShared DEF Right, Meant
    <3>16. Right(back, c, j, w)
      BY <2>1, <2>2, <3>2, <3>8, <3>15, WrittenRight
    <3>17. Right(g, c, j, w)
      BY <3>9, <3>16, BooksAreShared
    <3>18. SameBooks(g, h)
      BY <3>9, <3>12 DEF SameBooks
    <3>19. SetTop(g.wanted, w) = g.wanted
      BY <2>1, StackUnset DEF Typed
    <3> HIDE DEF h, j, c, a, w
    <3>20. Coherent(h) /\ Height(h.agstates) = Height(g.agstates)
      BY <2>1, <3>12, <3>13, <3>14, <3>17, <3>18, <3>19, TopsChanged
    <3>21. Top(h.agstates) = c
      BY <2>1, <3>13, <3>14, StackSet DEF Typed
    <3>22. Painted(h, "stroke") = h
      BY <2>2, <3>13, <3>20, <3>21, TopIsRight, PaintedRight
    <3>23. PS_fill_stroke(g, d) = h
      BY <1>2, <2>3, <3>22 DEF PaintWith, h
    <3> QED
      BY <3>12, <3>18, <3>20, <3>23 DEF Repaints
  <2> QED
    BY <2>8, <2>9
<1> QED
  BY <1>1, <1>2

----------------------------------------------------------------------------
(* Levels.                                                                 *)

\* g with other stacks.
Restacked(g, a, i, w) == [g EXCEPT !.agstates = a, !.interp = i, !.wanted = w]

LEMMA NewStacks ==
  ASSUME NEW g, Typed(g), NEW a, Stack(AState, a), NEW i, Stack(AnyColour, i),
         NEW w, Stack(Wishes, w)
  PROVE  LET h == Restacked(g, a, i, w)
         IN  Typed(h) /\ SameBooks(g, h) /\ h.agstates = a /\ h.interp = i /\ h.wanted = w
<1> DEFINE h == Restacked(g, a, i, w)
<1>1. g \in GraphicsRecords /\ a \in Seq(AState) /\ i \in Seq(AnyColour) /\ w \in Seq(Wishes)
  BY DEF Typed, Stack
<1>2. h \in GraphicsRecords
  BY <1>1 DEF GraphicsRecords, Restacked
<1>3. h.agstates = a /\ h.interp = i /\ h.wanted = w
  BY <1>1 DEF GraphicsRecords, Restacked
<1>4. SameBooks(g, h)
  BY <1>1 DEF GraphicsRecords, SameBooks, Restacked
<1> HIDE DEF h
<1> QED
  BY <1>2, <1>3, <1>4 DEF Typed, h

\* PS_save copies what is right to the new level.
LEMMA LevelSaved ==
  ASSUME NEW g, Coherent(g)
  PROVE  LET h == Restacked(g, Push(g.agstates), Push(g.interp), Push(g.wanted))
         IN  /\ Coherent(h) /\ SameBooks(g, h) /\ h.wanted = Push(g.wanted)
             /\ Height(h.agstates) = Height(g.agstates) + 1
<1> DEFINE h == Restacked(g, Push(g.agstates), Push(g.interp), Push(g.wanted))
<1>1. PICK n \in Nat : n = Height(g.agstates) /\ n >= 1
  BY StackTop DEF Coherent, Typed
<1>2. /\ Stack(AState, Push(g.agstates)) /\ Height(Push(g.agstates)) = n + 1
      /\ \A l \in 1..n : At(Push(g.agstates), l) = At(g.agstates, l)
      /\ At(Push(g.agstates), n + 1) = Top(g.agstates)
  BY <1>1, StackPush DEF Coherent, Typed
<1>3. /\ Stack(AnyColour, Push(g.interp)) /\ Height(Push(g.interp)) = n + 1
      /\ \A l \in 1..n : At(Push(g.interp), l) = At(g.interp, l)
      /\ At(Push(g.interp), n + 1) = Top(g.interp)
  BY <1>1, StackPush DEF Coherent, Typed
<1>4. /\ Stack(Wishes, Push(g.wanted)) /\ Height(Push(g.wanted)) = n + 1
      /\ \A l \in 1..n : At(Push(g.wanted), l) = At(g.wanted, l)
      /\ At(Push(g.wanted), n + 1) = Top(g.wanted)
  BY <1>1, StackPush DEF Coherent, Typed
<1>5. /\ Typed(h) /\ SameBooks(g, h) /\ h.agstates = Push(g.agstates)
      /\ h.interp = Push(g.interp) /\ h.wanted = Push(g.wanted)
  BY <1>2, <1>3, <1>4, NewStacks DEF Coherent
<1> HIDE DEF h
<1>6. ASSUME NEW l \in 1..(n + 1)
      PROVE  Right(h, At(h.agstates, l), At(h.interp, l), At(h.wanted, l))
  <2>1. CASE l = n + 1
    BY <1>2, <1>3, <1>4, <1>5, <2>1, TopIsRight, BooksAreShared
  <2>2. CASE l \in 1..n
    BY <1>1, <1>2, <1>3, <1>4, <1>5, <2>2, BooksAreShared DEF Coherent
  <2> QED
    BY <1>6, <2>1, <2>2
<1>7. Coherent(h) /\ Height(h.agstates) = n + 1
  BY <1>2, <1>3, <1>4, <1>5, <1>6 DEF Coherent
<1> QED
  BY <1>1, <1>5, <1>7 DEF h

\* PS_restore returns to a level that is as right as the current one.
LEMMA LevelRestored ==
  ASSUME NEW g, Coherent(g), Height(g.agstates) > 1
  PROVE  LET h == Restacked(g, Pop(g.agstates), Pop(g.interp), Pop(g.wanted))
         IN  /\ Coherent(h) /\ SameBooks(g, h) /\ h.wanted = Pop(g.wanted)
             /\ Height(h.agstates) = Height(g.agstates) - 1
<1> DEFINE h == Restacked(g, Pop(g.agstates), Pop(g.interp), Pop(g.wanted))
<1>1. PICK n \in Nat : n = Height(g.agstates) /\ n > 1
  BY StackTop DEF Coherent, Typed
<1>2. /\ Stack(AState, Pop(g.agstates)) /\ Height(Pop(g.agstates)) = n - 1
      /\ \A l \in 1..(n - 1) : At(Pop(g.agstates), l) = At(g.agstates, l)
  BY <1>1, StackPop DEF Coherent, Typed
<1>3. /\ Stack(AnyColour, Pop(g.interp)) /\ Height(Pop(g.interp)) = n - 1
      /\ \A l \in 1..(n - 1) : At(Pop(g.interp), l) = At(g.interp, l)
  BY <1>1, StackPop DEF Coherent, Typed
<1>4. /\ Stack(Wishes, Pop(g.wanted)) /\ Height(Pop(g.wanted)) = n - 1
      /\ \A l \in 1..(n - 1) : At(Pop(g.wanted), l) = At(g.wanted, l)
  BY <1>1, StackPop DEF Coherent, Typed
<1>5. /\ Typed(h) /\ SameBooks(g, h) /\ h.agstates = Pop(g.agstates)
      /\ h.interp = Pop(g.interp) /\ h.wanted = Pop(g.wanted)
  BY <1>2, <1>3, <1>4, NewStacks DEF Coherent
<1> HIDE DEF h
<1>6. ASSUME NEW l \in 1..(n - 1)
      PROVE  Right(h, At(h.agstates, l), At(h.interp, l), At(h.wanted, l))
  <2>1. l \in 1..n
    BY <1>1
  <2> QED
    BY <1>1, <1>2, <1>3, <1>4, <1>5, <2>1, BooksAreShared DEF Coherent
<1>7. Coherent(h) /\ Height(h.agstates) = n - 1
  BY <1>2, <1>3, <1>4, <1>5, <1>6 DEF Coherent
<1> QED
  BY <1>1, <1>5, <1>7 DEF h

LEMMA SaveLevelIs ==
  ASSUME NEW g, NEW d, PS_save(d).agstate # d.agstate
  PROVE  SaveLevel(g, d) = Restacked(g, Push(g.agstates), Push(g.interp), Push(g.wanted))
  BY DEF SaveLevel, Restacked

LEMMA RestoreLevelIs ==
  ASSUME NEW g, NEW d, PS_restore(d).agstate # d.agstate
  PROVE  RestoreLevel(g, d) = Restacked(g, Pop(g.agstates), Pop(g.interp), Pop(g.wanted))
  BY DEF RestoreLevel, Restacked

\* A line that decorates a text is stroked between PS_save and PS_restore.
LEMMA TextDecorated ==
  ASSUME Orderly, NEW g, Coherent(g), NEW d, Ready(d), ps_current_scope(d) \in DrawingScope,
         d.agstate < MaxGState - 1
  PROVE  Repaints(g, DecorateText(g, d))
<1> DEFINE s == PS_save(d)
           saved == SaveLevel(g, d)
           painted == PaintWith(saved, PS_moveto(s), "stroke")
           h == DecorateText(g, d)
<1>1. PICK level \in Nat : level = d.agstate
  BY ReadyStacks DEF Stacks
<1>2. Ready(s) /\ s.scopes = d.scopes /\ s.agstate = level + 1
  BY <1>1, Saves DEF SameStream
<1>3. ps_current_scope(s) \in DrawingScope
  BY <1>2 DEF ps_current_scope
<1>4. s.agstate # d.agstate
  BY <1>1, <1>2
<1>5. PS_restore(s).agstate # s.agstate
  <2>1. s.agstate > 0
    BY <1>2
  <2>2. PS_restore(s).agstate = s.agstate - 1
    BY <1>2, <1>3, <2>1, Restores
  <2> QED
    BY <1>2, <2>2
<1>6. /\ Coherent(saved) /\ SameBooks(g, saved) /\ saved.wanted = Push(g.wanted)
      /\ Height(saved.agstates) = Height(g.agstates) + 1
  BY <1>4, SaveLevelIs, LevelSaved
<1>7. Repaints(saved, painted)
  <2>1. "stroke" \in Kind
    BY DEF Kind
  <2> QED
    BY <1>6, <2>1, PathPainted
<1>8. h = RestoreLevel(painted, s)
  BY DEF DecorateText
<1> HIDE DEF s, saved, painted, h
<1>9. h = Restacked(painted, Pop(painted.agstates), Pop(painted.interp), Pop(painted.wanted))
  BY <1>5, <1>8, RestoreLevelIs
<1>10. PICK n \in Nat : n = Height(g.agstates) /\ n >= 1
  BY StackTop DEF Coherent, Typed
<1>11. Height(painted.agstates) = n + 1 /\ Coherent(painted)
  BY <1>6, <1>7, <1>10 DEF Repaints
<1>12. Height(painted.agstates) > 1
  BY <1>10, <1>11
<1>13. /\ Coherent(h) /\ SameBooks(painted, h) /\ h.wanted = Pop(painted.wanted)
       /\ Height(h.agstates) = Height(painted.agstates) - 1
  BY <1>9, <1>11, <1>12, LevelRestored
<1>14. Height(h.agstates) = n
  BY <1>11, <1>13
<1>15. h.wanted = g.wanted
  <2>1. painted.wanted = Push(g.wanted)
    BY <1>6, <1>7 DEF Repaints
  <2>2. Pop(Push(g.wanted)) = g.wanted
    <3>1. Stack(Wishes, g.wanted) /\ Top(g.wanted) \in Wishes
      BY StackTop DEF Coherent, Typed
    <3> QED
      BY <3>1, PushedPopped
  <2> QED
    BY <1>13, <2>1, <2>2
<1>16. SameBooks(g, h)
  BY <1>6, <1>7, <1>13 DEF Repaints, SameBooks
<1>17. Repaints(g, h)
  BY <1>10, <1>13, <1>14, <1>15, <1>16 DEF Repaints
<1> QED
  BY <1>17 DEF h

\* Text is filled or stroked, and then decorated.
LEMMA TextShown ==
  ASSUME Orderly, NEW g, Coherent(g), NEW d, Ready(d), NEW k \in Kind, NEW lines,
         ps_current_scope(d) \in DrawingScope => d.agstate < MaxGState - 1
  PROVE  Repaints(g, ShowText2(g, d, k, lines))
<1>1. CASE ~(ps_check_scope(d, DrawingScope) /\ g.font # NoFont)
  BY <1>1, RepaintsNothing DEF ShowText2
<1>2. CASE ps_check_scope(d, DrawingScope) /\ g.font # NoFont
  <2> DEFINE t == ps_render_text(g, d, k)
             u == IF "underline" \in lines THEN DecorateText(t, d) ELSE t
             du == IF "underline" \in lines THEN DrawLine(d) ELSE d
             o == IF "overline" \in lines THEN DecorateText(u, du) ELSE u
             do == IF "overline" \in lines THEN DrawLine(du) ELSE du
             s == IF "strikeout" \in lines THEN DecorateText(o, do) ELSE o
  <2>1. ps_current_scope(d) \in DrawingScope /\ d.agstate < MaxGState - 1
    BY <1>2 DEF ps_check_scope
  <2>2. ShowText2(g, d, k, lines) = s
    BY <1>2 DEF ShowText2
  <2>3. Repaints(g, t)
    <3>1. t = ps_setcolor(g, d, k)
      BY ColourWritten DEF ps_render_text
    <3> QED
      BY <3>1, ColourWritten DEF Repaints
  <2> HIDE DEF t
  <2>4. /\ Ready(du) /\ ps_current_scope(du) \in DrawingScope /\ du.agstate < MaxGState - 1
        /\ Repaints(t, u)
    <3>1. Coherent(t)
      BY <2>3 DEF Repaints
    <3>2. CASE "underline" \in lines
      BY <2>1, <3>1, <3>2, LineDrawn, TextDecorated DEF SameStream, ps_current_scope
    <3>3. CASE "underline" \notin lines
      BY <2>1, <3>1, <3>3, RepaintsNothing
    <3> QED
      BY <3>2, <3>3
  <2> HIDE DEF u, du
  <2>5. /\ Ready(do) /\ ps_current_scope(do) \in DrawingScope /\ do.agstate < MaxGState - 1
        /\ Repaints(u, o)
    <3>1. Coherent(u)
      BY <2>4 DEF Repaints
    <3>2. CASE "overline" \in lines
      BY <2>4, <3>1, <3>2, LineDrawn, TextDecorated DEF SameStream, ps_current_scope
    <3>3. CASE "overline" \notin lines
      BY <2>4, <3>1, <3>3, RepaintsNothing
    <3> QED
      BY <3>2, <3>3
  <2> HIDE DEF o, do
  <2>6. Repaints(o, s)
    <3>1. Coherent(o)
      BY <2>5 DEF Repaints
    <3> QED
      BY <2>5, <3>1, TextDecorated, RepaintsNothing
  <2> HIDE DEF s
  <2>7. Repaints(g, s)
    BY <2>3, <2>4, <2>5, <2>6, RepaintsTwice
  <2> QED
    BY <2>2, <2>7
<1> QED
  BY <1>1, <1>2

----------------------------------------------------------------------------
(* Colours are set.                                                        *)

Careful == {"setgray_recoloured", "colourspaces", "defined_here", "over_device"} \subseteq GraphicsRules

LEMMA RequestIs ==
  ASSUME NEW colour \in Requests
  PROVE  /\ colour \in AnyColour /\ colour.over = <<>>
         /\ colour = NoSpace \/ colour.space \in {"device", "spot", "pattern"}
         /\ colour.space = "pattern" => colour.c \in Patterns
         /\ colour.space \in {"device", "spot"} => colour.c \in Values
         /\ colour.space # "unset"
<1>1. CASE \E c \in Colours : colour = Device(c)
  <2>1. PICK c \in Colours : colour = Colour("device", c)
    BY <1>1 DEF Device
  <2>2. c \in Values
    BY DEF Values
  <2>3. colour \in AnyColour /\ colour.space = "device" /\ colour.c = c /\ colour.over = <<>>
    <3>1. "device" \in Spaces
      BY DEF Spaces
    <3> QED
      BY <2>1, <2>2, <3>1, ColourIs
  <2> QED
    BY <2>2, <2>3
<1>2. CASE \E name \in SpotNames : colour = Colour("spot", name)
  <2>1. PICK name \in SpotNames : colour = Colour("spot", name)
    BY <1>2
  <2>2. name \in Values
    BY DEF Values
  <2>3. colour \in AnyColour /\ colour.space = "spot" /\ colour.c = name /\ colour.over = <<>>
    <3>1. "spot" \in Spaces
      BY DEF Spaces
    <3> QED
      BY <2>1, <2>2, <3>1, ColourIs
  <2> QED
    BY <2>2, <2>3
<1>3. CASE \E p \in Patterns : colour = Colour("pattern", p)
  <2>1. PICK p \in Patterns : colour = Colour("pattern", p)
    BY <1>3
  <2>2. p \in Values
    BY DEF Values
  <2>3. colour \in AnyColour /\ colour.space = "pattern" /\ colour.c = p /\ colour.over = <<>>
    <3>1. "pattern" \in Spaces
      BY DEF Spaces
    <3> QED
      BY <2>1, <2>2, <3>1, ColourIs
  <2> QED
    BY <2>2, <2>3
<1>4. CASE colour = NoSpace
  <2>1. "" \in Values
    BY DEF Values
  <2>2. colour \in AnyColour /\ colour.space = "none" /\ colour.over = <<>>
    BY <1>4, <2>1, ColourIs DEF NoSpace, Spaces
  <2> QED
    BY <1>4, <2>2
<1> QED
  BY <1>1, <1>2, <1>3, <1>4 DEF Requests

\* A pattern without a colour.
Bare(g, colour) == colour.space = "pattern" /\ g.painttype[colour.c] = 2

LEMMA BecomesIs ==
  ASSUME NEW g, NEW colour \in Requests, NEW before \in AnyColour
  PROVE  LET b == Becomes(g, colour, before)
         IN  /\ b \in AnyColour /\ b.space = colour.space /\ b.c = colour.c
             /\ b.over = IF Bare(g, colour) /\ before.space \in {"device", "spot"}
                         THEN <<before.space, before.c>> ELSE <<>>
<1>1. colour \in AnyColour /\ colour.over = <<>>
  BY RequestIs
<1>2. CASE Bare(g, colour) /\ before.space \in {"device", "spot"}
  <2>1. <<before.space, before.c>> \in {"device", "spot"} \X Values
    BY <1>2 DEF AnyColour
  <2>2. Becomes(g, colour, before) = [colour EXCEPT !.over = <<before.space, before.c>>]
    BY <1>2 DEF Becomes, Bare, Over
  <2> QED
    BY <1>1, <1>2, <2>1, <2>2 DEF AnyColour
<1>3. CASE ~(Bare(g, colour) /\ before.space \in {"device", "spot"})
  BY <1>1, <1>3 DEF Becomes, Bare
<1> QED
  BY <1>2, <1>3

LEMMA AskedIs ==
  ASSUME NEW g, NEW colour \in Requests, NEW before \in AnyColour
  PROVE  LET b == Asked(g, colour, before)
         IN  /\ b \in AnyColour /\ b.space = colour.space /\ b.c = colour.c
             /\ b.over = IF Bare(g, colour) /\ before.space = "pattern" THEN before.over
                         ELSE Becomes(g, colour, before).over
<1>1. colour \in AnyColour
  BY RequestIs
<1>2. CASE Bare(g, colour) /\ before.space = "pattern"
  <2>1. before.over \in {<<>>} \cup ({"device", "spot"} \X Values)
    BY DEF AnyColour
  <2>2. Asked(g, colour, before) = [colour EXCEPT !.over = before.over]
    BY <1>2 DEF Asked, Bare
  <2> QED
    BY <1>1, <1>2, <2>1, <2>2 DEF AnyColour
<1>3. CASE ~(Bare(g, colour) /\ before.space = "pattern")
  <2>1. Asked(g, colour, before) = Becomes(g, colour, before)
    BY <1>3 DEF Asked, Bare
  <2>2. /\ Becomes(g, colour, before) \in AnyColour
        /\ Becomes(g, colour, before).space = colour.space
        /\ Becomes(g, colour, before).c = colour.c
    BY BecomesIs
  <2> QED
    BY <1>3, <2>1, <2>2
<1> QED
  BY <1>2, <1>3

\* What pslib remembers of a colour set over another is what the caller means,
\* when the two agreed before.
LEMMA SetAsAsked ==
  ASSUME NEW g, Typed(g), NEW colour \in Requests, colour # NoSpace, Exists(g, colour),
         colour.space = "pattern" => IsDefined(g, colour.c),
         NEW before \in AnyColour, Bare(g, colour) => before.space = "device",
         NEW asked \in AnyColour, asked # Unset => Same(before, asked)
  PROVE  /\ Same(Becomes(g, colour, before), Asked(g, colour, asked))
         /\ Paintable(g, Becomes(g, colour, before))
<1> DEFINE b == Becomes(g, colour, before)
           a == Asked(g, colour, asked)
<1>1. /\ b.space = colour.space /\ b.c = colour.c
      /\ b.over = IF Bare(g, colour) /\ before.space \in {"device", "spot"}
                  THEN <<before.space, before.c>> ELSE <<>>
  BY BecomesIs
<1>2. /\ a.space = colour.space /\ a.c = colour.c
      /\ a.over = IF Bare(g, colour) /\ asked.space = "pattern" THEN asked.over
                  ELSE Becomes(g, colour, asked).over
  BY AskedIs
<1>3. Becomes(g, colour, asked).over =
        IF Bare(g, colour) /\ asked.space \in {"device", "spot"}
        THEN <<asked.space, asked.c>> ELSE <<>>
  BY BecomesIs
<1>4. /\ colour.space \in {"device", "spot", "pattern"}
      /\ colour.space = "pattern" => colour.c \in Patterns
  BY RequestIs
<1> HIDE DEF b, a
<1>5. Same(b, a)
  <2>1. ASSUME a.over # <<>>
        PROVE  b.over = a.over
    <3>1. Bare(g, colour) /\ before.space = "device"
      BY <1>2, <1>3, <2>1
    <3>2. asked # Unset
      <4>1. ASSUME asked = Unset PROVE FALSE
        <5>1. asked.space = "unset"
          BY <4>1 DEF Unset, Colour
        <5> QED
          BY <1>2, <1>3, <2>1, <5>1
      <4> QED
        BY <4>1
    <3>3. asked.space = "device" /\ asked.c = before.c
      BY <3>1, <3>2 DEF Same
    <3> QED
      BY <1>1, <1>2, <1>3, <3>1, <3>3
  <2> QED
    BY <1>1, <1>2, <2>1 DEF Same
<1>6. Paintable(g, b)
  <2>1. CASE colour.space \in {"device", "spot"}
    BY <1>1, <2>1 DEF Paintable
  <2>2. CASE colour.space = "pattern"
    <3>1. colour.c \in Patterns /\ g.painttype[colour.c] \in {1, 2}
      <4>1. colour.c \in Patterns /\ g.painttype[colour.c] # 0
        BY <1>4, <2>2 DEF Exists
      <4>2. g.painttype[colour.c] \in 0..2
        BY <4>1 DEF Typed, GraphicsRecords
      <4> QED
        BY <4>1, <4>2
    <3>2. CASE g.painttype[colour.c] = 1
      BY <1>1, <2>2, <3>1, <3>2 DEF Paintable
    <3>3. CASE g.painttype[colour.c] = 2
      <4>1. b.over = <<"device", before.c>>
        BY <1>1, <2>2, <3>3 DEF Bare
      <4>2. b.over # <<>> /\ b.over[1] = "device"
        BY <4>1
      <4> QED
        BY <1>1, <2>2, <3>1, <3>3, <4>2 DEF Paintable
    <3> QED
      BY <3>1, <3>2, <3>3
  <2> QED
    BY <1>4, <2>1, <2>2
<1> QED
  BY <1>5, <1>6 DEF b, a

\* The values PS_setcolor gives to the current level.
SetState(g, type, colour, a) ==
  [colour |-> [k \in Kind |-> IF k \in type THEN Becomes(g, colour, a.colour[k])
                              ELSE a.colour[k]],
   invalid |-> [k \in Kind |-> k \in type \/ a.invalid[k]]]

SetWishes(g, type, colour, w) ==
  [k \in Kind |-> IF k \in type THEN Asked(g, colour, w[k]) ELSE w[k]]

LEMMA SetStateIs ==
  ASSUME NEW g, NEW colour \in Requests, NEW type, NEW a \in AState
  PROVE  LET s == SetState(g, type, colour, a)
         IN  /\ s \in AState
             /\ \A k \in Kind :
                  /\ s.colour[k] = IF k \in type THEN Becomes(g, colour, a.colour[k])
                                   ELSE a.colour[k]
                  /\ s.invalid[k] <=> k \in type \/ a.invalid[k]
<1>1. \A k \in Kind : a.colour[k] \in AnyColour
  BY DEF AState
<1>2. \A k \in Kind : Becomes(g, colour, a.colour[k]) \in AnyColour
  BY <1>1, BecomesIs
<1>3. SetState(g, type, colour, a).colour \in [Kind -> AnyColour]
  BY <1>1, <1>2 DEF SetState
<1>4. SetState(g, type, colour, a).invalid \in [Kind -> BOOLEAN]
  BY DEF SetState
<1>5. SetState(g, type, colour, a) \in AState
  BY <1>3, <1>4 DEF SetState, AState
<1> QED
  BY <1>5 DEF SetState

LEMMA SetWishesIs ==
  ASSUME NEW g, NEW colour \in Requests, NEW type, NEW w \in Wishes
  PROVE  SetWishes(g, type, colour, w) \in Wishes
<1>1. \A k \in Kind : w[k] \in AnyColour
  BY DEF Wishes
<1>2. \A k \in Kind : Asked(g, colour, w[k]) \in AnyColour
  BY <1>1, AskedIs
<1> QED
  BY <1>1, <1>2 DEF SetWishes, Wishes

\* Nothing is wanted: everything is right.
LEMMA NoWishIs ==
  /\ NoWish \in Wishes
  /\ \A g, a, i : Right(g, a, i, NoWish)
<1>1. Unset \in AnyColour
  BY ColourIs DEF Unset, Spaces, Values
<1>2. \A k \in Kind : NoWish[k] = Unset
  BY DEF NoWish
<1> QED
  BY <1>1, <1>2 DEF NoWish, Wishes, Right, Meant, UpToDate

LEMMA ColourSetRight ==
  ASSUME NEW g, Typed(g), NEW type, NEW colour \in Requests, colour # NoSpace, Exists(g, colour),
         colour.space = "pattern" => IsDefined(g, colour.c),
         NEW a \in AState, NEW i \in AnyColour, NEW w \in Wishes, Right(g, a, i, w),
         Bare(g, colour) => \A k \in Kind : k \in type => a.colour[k].space = "device"
  PROVE  Right(g, SetState(g, type, colour, a), i, SetWishes(g, type, colour, w))
<1> DEFINE s == SetState(g, type, colour, a)
           v == SetWishes(g, type, colour, w)
<1>1. \A k \in Kind :
        /\ s.colour[k] = IF k \in type THEN Becomes(g, colour, a.colour[k]) ELSE a.colour[k]
        /\ s.invalid[k] <=> k \in type \/ a.invalid[k]
  BY SetStateIs
<1>2. \A k \in Kind : v[k] = IF k \in type THEN Asked(g, colour, w[k]) ELSE w[k]
  BY DEF SetWishes
<1> HIDE DEF s, v
<1>3. ASSUME NEW k \in Kind, v[k] # Unset
      PROVE  Same(s.colour[k], v[k]) /\ Paintable(g, s.colour[k])
  <2>1. CASE k \in type
    <3>1. a.colour[k] \in AnyColour /\ w[k] \in AnyColour
      BY DEF AState, Wishes
    <3>2. w[k] # Unset => Same(a.colour[k], w[k])
      BY DEF Right, Meant
    <3>3. Bare(g, colour) => a.colour[k].space = "device"
      BY <2>1
    <3>4. Same(Becomes(g, colour, a.colour[k]), Asked(g, colour, w[k]))
          /\ Paintable(g, Becomes(g, colour, a.colour[k]))
      BY <3>1, <3>2, <3>3, SetAsAsked
    <3> QED
      BY <1>1, <1>2, <2>1, <3>4
  <2>2. CASE k \notin type
    BY <1>1, <1>2, <1>3, <2>2 DEF Right, Meant
  <2> QED
    BY <2>1, <2>2
<1>4. ASSUME NEW k \in Kind, v[k] # Unset, ~s.invalid[k]
      PROVE  i = s.colour[k]
  BY <1>1, <1>2, <1>4 DEF Right, UpToDate
<1>5. Right(g, s, i, v)
  BY <1>3, <1>4 DEF Right, Meant, UpToDate
<1> QED
  BY <1>5 DEF s, v

\* Only the stack of what is remembered and the stack of wishes change.
LEMMA Retopped ==
  ASSUME NEW g, Coherent(g), NEW a \in AState, NEW i \in AnyColour, NEW w \in Wishes,
         Right(g, a, i, w)
  PROVE  LET h == Restacked(g, SetTop(g.agstates, a), SetTop(g.interp, i), SetTop(g.wanted, w))
         IN  /\ Coherent(h) /\ SameBooks(g, h) /\ Height(h.agstates) = Height(g.agstates)
             /\ h.wanted = SetTop(g.wanted, w)
<1> DEFINE h == Restacked(g, SetTop(g.agstates, a), SetTop(g.interp, i), SetTop(g.wanted, w))
<1>1. /\ Stack(AState, SetTop(g.agstates, a)) /\ Stack(AnyColour, SetTop(g.interp, i))
      /\ Stack(Wishes, SetTop(g.wanted, w))
  BY StackSet DEF Coherent, Typed
<1>2. /\ Typed(h) /\ SameBooks(g, h) /\ h.agstates = SetTop(g.agstates, a)
      /\ h.interp = SetTop(g.interp, i) /\ h.wanted = SetTop(g.wanted, w)
  BY <1>1, NewStacks DEF Coherent
<1> HIDE DEF h
<1>3. Coherent(h) /\ Height(h.agstates) = Height(g.agstates)
  BY <1>2, TopsChanged
<1> QED
  BY <1>2, <1>3 DEF h

\* One record for what is written as several changes of it.
LEMMA NewAgstatesAndWanted ==
  ASSUME NEW g, Typed(g), NEW a, NEW w
  PROVE  [[g EXCEPT !.agstates = a] EXCEPT !.wanted = w] = Restacked(g, a, g.interp, w)
  BY DEF Typed, GraphicsRecords, Restacked

LEMMA NewWantedAndInterp ==
  ASSUME NEW g, Typed(g), NEW i, NEW w
  PROVE  [[g EXCEPT !.wanted = w] EXCEPT !.interp = i] = Restacked(g, g.agstates, i, w)
  BY DEF Typed, GraphicsRecords, Restacked

LEMMA NewAgstatesOnly ==
  ASSUME NEW g, Typed(g), NEW a
  PROVE  [g EXCEPT !.agstates = a] = Restacked(g, a, g.interp, g.wanted)
  BY DEF Typed, GraphicsRecords, Restacked

LEMMA WishlessTop ==
  ASSUME NEW g, Typed(g), Wishless(g)
  PROVE  Top(g.wanted) = NoWish
<1>1. /\ Height(g.wanted) \in Nat /\ Height(g.wanted) >= 1
      /\ Top(g.wanted) = At(g.wanted, Height(g.wanted))
  BY StackTop DEF Typed
<1> QED
  BY <1>1 DEF Wishless

\* What setting a colour changes: the wishes only where something can be
\* painted.
Recolours(g, h, d) ==
  /\ Coherent(h) /\ SameBooks(g, h) /\ Height(h.agstates) = Height(g.agstates)
  /\ ps_current_scope(d) \notin DrawingScope => h.wanted = g.wanted

LEMMA ColourSet ==
  ASSUME NEW g, Coherent(g), NEW d, ps_current_scope(d) \notin DrawingScope => Wishless(g),
         NEW type, NEW colour \in Requests, colour # NoSpace,
         colour.space = "pattern" => IsDefined(g, colour.c),
         Bare(g, colour) => \A k \in type : Top(g.agstates).colour[k].space = "device"
  PROVE  Recolours(g, PS_setcolor(g, d, type, colour), d)
<1> DEFINE a == Top(g.agstates)
           i == Top(g.interp)
           w == Top(g.wanted)
           s == SetState(g, type, colour, a)
           v == SetWishes(g, type, colour, w)
           m == [g EXCEPT !.agstates = SetTop(@, s)]
           h == PS_setcolor(g, d, type, colour)
<1>1. Typed(g) /\ a \in AState /\ i \in AnyColour /\ w \in Wishes /\ Right(g, a, i, w)
  BY TopIsRight DEF Coherent
<1>2. SetTop(g.interp, i) = g.interp /\ SetTop(g.wanted, w) = g.wanted
  BY <1>1, StackUnset DEF Typed
<1>3. s \in AState /\ v \in Wishes
  BY <1>1, SetStateIs, SetWishesIs
<1>4. CASE ~(ps_check_scope(d, ColourScope) /\ Exists(g, colour))
  <2>1. h = g
    BY <1>4 DEF PS_setcolor
  <2> QED
    BY <2>1 DEF Recolours, SameBooks
<1>5. CASE ps_check_scope(d, ColourScope) /\ Exists(g, colour)
  <2>1. h = AskFor(m, d, type, colour)
    BY <1>5 DEF PS_setcolor, SetState
  <2>2. Right(g, s, i, v)
    BY <1>1, <1>5, ColourSetRight
  <2>3. CASE ps_current_scope(d) \in DrawingScope
    <3>1. h = [m EXCEPT !.wanted = SetTop(m.wanted,
                 [k \in Kind |-> IF k \in type THEN Asked(m, colour, Top(m.wanted)[k])
                                 ELSE Top(m.wanted)[k]])]
      BY <2>1, <2>3 DEF AskFor, ps_check_scope
    <3>2. m = [g EXCEPT !.agstates = SetTop(g.agstates, s)]
      OBVIOUS
    <3>3. Stack(AState, SetTop(g.agstates, s))
      BY <1>1, <1>3, StackSet DEF Typed
    <3>4. m.wanted = g.wanted /\ m.painttype = g.painttype
      BY <1>1, <3>2, <3>3, NewAgstates DEF SameBooks
    <3>5. \A before : Asked(m, colour, before) = Asked(g, colour, before)
      BY <3>4 DEF Asked, Becomes
    <3>6. [k \in Kind |-> IF k \in type THEN Asked(m, colour, Top(m.wanted)[k])
                          ELSE Top(m.wanted)[k]] = v
      BY <3>4, <3>5 DEF SetWishes
    <3>7. h = [[g EXCEPT !.agstates = SetTop(g.agstates, s)] EXCEPT !.wanted = SetTop(g.wanted, v)]
      BY <3>1, <3>2, <3>4, <3>6
    <3> HIDE DEF h, a, i, w, s, v, m
    <3>8. h = Restacked(g, SetTop(g.agstates, s), SetTop(g.interp, i), SetTop(g.wanted, v))
      <4>1. h = Restacked(g, SetTop(g.agstates, s), g.interp, SetTop(g.wanted, v))
        BY <1>1, <3>7, NewAgstatesAndWanted
      <4> QED
        BY <1>2, <4>1
    <3>9. Coherent(h) /\ SameBooks(g, h) /\ Height(h.agstates) = Height(g.agstates)
      BY <1>1, <1>3, <2>2, <3>8, Retopped
    <3> QED
      BY <2>3, <3>9 DEF Recolours, h
  <2>4. CASE ps_current_scope(d) \notin DrawingScope
    <3>1. h = [g EXCEPT !.agstates = SetTop(g.agstates, s)]
      BY <2>1, <2>4 DEF AskFor, ps_check_scope
    <3>2. w = NoWish
      BY <1>1, <2>4, WishlessTop
    <3>3. Right(g, s, i, w)
      BY <3>2, NoWishIs
    <3> HIDE DEF h, a, i, w, s, v, m
    <3>4. h = Restacked(g, SetTop(g.agstates, s), SetTop(g.interp, i), SetTop(g.wanted, w))
      BY <1>1, <1>2, <3>1, NewAgstatesOnly
    <3>5. /\ Coherent(h) /\ SameBooks(g, h) /\ Height(h.agstates) = Height(g.agstates)
          /\ h.wanted = g.wanted
      BY <1>1, <1>2, <1>3, <3>3, <3>4, Retopped
    <3> QED
      BY <3>5 DEF Recolours, h
  <2> QED
    BY <2>3, <2>4
<1> QED
  BY <1>4, <1>5

\* PS_setgray writes a colour pslib does not know of; the caller expects none.
LEMMA GraySet ==
  ASSUME Careful, NEW g, Coherent(g), NEW d, NEW colour \in Requests, colour.space = "device"
  PROVE  Recolours(g, PS_setgray(WantGray(g, d, colour), d, colour), d)
<1> DEFINE a == Top(g.agstates)
           m == WantGray(g, d, colour)
           h == PS_setgray(m, d, colour)
<1>1. Typed(g) /\ a \in AState
  BY TopIsRight DEF Coherent
<1>2. CASE ~ps_check_scope(d, {"PAGE"})
  <2>1. h = g
    BY <1>2 DEF PS_setgray, WantGray
  <2> QED
    BY <2>1 DEF Recolours, SameBooks
<1>3. CASE ps_check_scope(d, {"PAGE"})
  <2>1. m = [g EXCEPT !.wanted = SetTop(g.wanted, NoWish)]
    BY <1>3 DEF WantGray, Careful, NoWish
  <2>2. Stack(Wishes, SetTop(g.wanted, NoWish))
    BY <1>1, NoWishIs, StackSet DEF Typed
  <2>3. m.interp = g.interp
    BY <1>1, <2>1, <2>2, NewWanted
  <2>4. h = [m EXCEPT !.interp = SetTop(m.interp, colour)]
    BY <1>3 DEF PS_setgray, Write, Written
  <2>5. h = [[g EXCEPT !.wanted = SetTop(g.wanted, NoWish)] EXCEPT !.interp = SetTop(g.interp, colour)]
    BY <2>1, <2>3, <2>4
  <2>6. SetTop(g.agstates, a) = g.agstates
    BY <1>1, StackUnset DEF Typed
  <2>7. colour \in AnyColour
    BY RequestIs
  <2>8. ps_current_scope(d) \in DrawingScope
    BY <1>3 DEF ps_check_scope, DrawingScope
  <2> HIDE DEF h, m, a
  <2>9. h = Restacked(g, SetTop(g.agstates, a), SetTop(g.interp, colour), SetTop(g.wanted, NoWish))
    <3>1. h = Restacked(g, g.agstates, SetTop(g.interp, colour), SetTop(g.wanted, NoWish))
      BY <1>1, <2>5, NewWantedAndInterp
    <3> QED
      BY <2>6, <3>1
  <2>10. Coherent(h) /\ SameBooks(g, h) /\ Height(h.agstates) = Height(g.agstates)
    BY <1>1, <2>7, <2>9, NoWishIs, Retopped
  <2> QED
    BY <2>8, <2>10 DEF Recolours, h, m
<1> QED
  BY <1>2, <1>3

\* Changes of nothing but the fonts, the spot colours and the patterns: what
\* could be painted can be painted after them.
Keeping(g, h) ==
  /\ Typed(h) /\ h.agstates = g.agstates /\ h.interp = g.interp /\ h.wanted = g.wanted
  /\ h.mark = g.mark
  /\ \A colour : Paintable(g, colour) => Paintable(h, colour)

LEMMA KeepingIsCoherent ==
  ASSUME NEW g, Coherent(g), NEW h, Keeping(g, h)
  PROVE  Coherent(h)
  BY DEF Coherent, Keeping, Right, Meant

\* A canvas without wishes.
Cleared(g, h) ==
  /\ Typed(h) /\ h.agstates = g.agstates /\ h.mark = g.mark
  /\ h.wanted = <<NoWish>> /\ \E colour \in AnyColour : h.interp = <<colour>>

LEMMA OneLevel ==
  ASSUME NEW S, NEW x \in S
  PROVE  Stack(S, <<x>>) /\ Height(<<x>>) = 1 /\ At(<<x>>, 1) = x
  BY DEF Stack, Height, At

LEMMA ClearedIsCoherent ==
  ASSUME NEW g, NEW h, Cleared(g, h), Height(g.agstates) = 1
  PROVE  Coherent(h) /\ Wishless(h)
<1>1. /\ Height(h.wanted) = 1 /\ At(h.wanted, 1) = NoWish
  BY NoWishIs, OneLevel DEF Cleared
<1>2. Height(h.interp) = 1
  BY OneLevel DEF Cleared
<1>3. \A l \in 1..1 : At(h.wanted, l) = NoWish
  BY <1>1
<1> QED
  BY <1>1, <1>2, <1>3, NoWishIs DEF Cleared, Coherent, Wishless

LEMMA CanvasCleared ==
  ASSUME NEW g, Typed(g), NEW colour \in AnyColour
  PROVE  Cleared(g, OnCanvas(g, colour)) /\ SameBooks(g, OnCanvas(g, colour))
<1> DEFINE h == OnCanvas(g, colour)
<1>1. h = Restacked(g, g.agstates, <<colour>>, <<NoWish>>)
  BY DEF Typed, GraphicsRecords, OnCanvas, Restacked, NoWish
<1>2. Stack(AnyColour, <<colour>>) /\ Stack(Wishes, <<NoWish>>)
  BY OneLevel, NoWishIs
<1>3. /\ Typed(h) /\ SameBooks(g, h) /\ h.agstates = g.agstates
      /\ h.interp = <<colour>> /\ h.wanted = <<NoWish>>
  <2>1. Stack(AState, g.agstates)
    BY DEF Typed
  <2> HIDE DEF h
  <2> QED
    BY <1>1, <1>2, <2>1, NewStacks
<1> HIDE DEF h
<1> QED
  BY <1>3 DEF Cleared, SameBooks, h

----------------------------------------------------------------------------
(* Fonts, spot colours and patterns.                                       *)

LEMMA NothingKept ==
  ASSUME NEW g, Typed(g)
  PROVE  Keeping(g, g)
  BY DEF Keeping

LEMMA FontSet ==
  ASSUME NEW g, Typed(g), NEW f \in Fonts \cup {NoFont}
  PROVE  Keeping(g, [g EXCEPT !.font = f])
<1> DEFINE h == [g EXCEPT !.font = f]
<1>1. g \in GraphicsRecords
  BY DEF Typed
<1>2. h \in GraphicsRecords
  BY <1>1 DEF GraphicsRecords
<1>3. /\ h.agstates = g.agstates /\ h.interp = g.interp /\ h.wanted = g.wanted
      /\ h.mark = g.mark /\ h.painttype = g.painttype /\ h.defined = g.defined
  BY <1>1 DEF GraphicsRecords
<1> HIDE DEF h
<1>4. Typed(h)
  BY <1>2, <1>3 DEF Typed
<1>5. \A colour : Paintable(g, colour) => Paintable(h, colour)
  BY <1>3 DEF Paintable, IsDefined
<1> QED
  BY <1>3, <1>4, <1>5 DEF Keeping, h

LEMMA SpotMade ==
  ASSUME NEW g, Typed(g), NEW name \in SpotNames
  PROVE  Keeping(g, [g EXCEPT !.spots = @ \cup {name}])
<1> DEFINE h == [g EXCEPT !.spots = @ \cup {name}]
<1>1. g \in GraphicsRecords
  BY DEF Typed
<1>2. h \in GraphicsRecords
  BY <1>1 DEF GraphicsRecords
<1>3. /\ h.agstates = g.agstates /\ h.interp = g.interp /\ h.wanted = g.wanted
      /\ h.mark = g.mark /\ h.painttype = g.painttype /\ h.defined = g.defined
  BY <1>1 DEF GraphicsRecords
<1> HIDE DEF h
<1>4. Typed(h)
  BY <1>2, <1>3 DEF Typed
<1>5. \A colour : Paintable(g, colour) => Paintable(h, colour)
  BY <1>3 DEF Paintable, IsDefined
<1> QED
  BY <1>3, <1>4, <1>5 DEF Keeping, h

LEMMA ShadingMade ==
  ASSUME NEW g, Typed(g)
  PROVE  Keeping(g, [g EXCEPT !.shading = TRUE])
<1> DEFINE h == [g EXCEPT !.shading = TRUE]
<1>1. g \in GraphicsRecords
  BY DEF Typed
<1>2. h \in GraphicsRecords
  BY <1>1 DEF GraphicsRecords
<1>3. /\ h.agstates = g.agstates /\ h.interp = g.interp /\ h.wanted = g.wanted
      /\ h.mark = g.mark /\ h.painttype = g.painttype /\ h.defined = g.defined
  BY <1>1 DEF GraphicsRecords
<1> HIDE DEF h
<1>4. Typed(h)
  BY <1>2, <1>3 DEF Typed
<1>5. \A colour : Paintable(g, colour) => Paintable(h, colour)
  BY <1>3 DEF Paintable, IsDefined
<1> QED
  BY <1>3, <1>4, <1>5 DEF Keeping, h

\* A pattern is made and defined at once: it was not one that could be painted.
LEMMA PatternDefined ==
  ASSUME NEW g, Typed(g), NEW p \in Patterns, g.painttype[p] = 0,
         NEW where \in {"page", "document"}
  PROVE  Keeping(g, [g EXCEPT !.painttype[p] = 1, !.defined = @ \cup {<<p, where>>}])
<1> DEFINE h == [g EXCEPT !.painttype[p] = 1, !.defined = @ \cup {<<p, where>>}]
<1>1. g \in GraphicsRecords
  BY DEF Typed
<1>2. /\ g.painttype \in [Patterns -> 0..2] /\ 1 \in 0..2
      /\ [g.painttype EXCEPT ![p] = 1] \in [Patterns -> 0..2]
  BY <1>1 DEF GraphicsRecords
<1>3. g.defined \cup {<<p, where>>} \in SUBSET ((Patterns \cup {NoPattern}) \X {"page", "document"})
  BY <1>1 DEF GraphicsRecords
<1>4. h \in GraphicsRecords
  BY <1>1, <1>2, <1>3 DEF GraphicsRecords
<1>5. /\ h.agstates = g.agstates /\ h.interp = g.interp /\ h.wanted = g.wanted
      /\ h.mark = g.mark /\ h.painttype = [g.painttype EXCEPT ![p] = 1]
      /\ h.defined = g.defined \cup {<<p, where>>}
  BY <1>1 DEF GraphicsRecords
<1> HIDE DEF h
<1>6. Typed(h)
  BY <1>4, <1>5 DEF Typed
<1>7. ASSUME NEW colour, Paintable(g, colour)
      PROVE  Paintable(h, colour)
  <2>1. CASE colour.space \in {"device", "spot"}
    BY <2>1 DEF Paintable
  <2>2. CASE colour.space \notin {"device", "spot"}
    <3>1. /\ colour.space = "pattern" /\ colour.c \in Patterns /\ IsDefined(g, colour.c)
          /\ \/ g.painttype[colour.c] = 1
             \/ g.painttype[colour.c] = 2 /\ colour.over # <<>> /\ colour.over[1] = "device"
      BY <1>7, <2>2 DEF Paintable
    <3>2. colour.c # p
      BY <3>1
    <3>3. h.painttype[colour.c] = g.painttype[colour.c]
      BY <1>2, <1>5, <3>1, <3>2
    <3>4. IsDefined(h, colour.c)
      BY <1>5, <3>1 DEF IsDefined
    <3> QED
      BY <3>1, <3>3, <3>4 DEF Paintable
  <2> QED
    BY <2>1, <2>2
<1> QED
  BY <1>5, <1>6, <1>7 DEF Keeping, h

\* A canvas is cleared together with changes of the fonts and patterns.
LEMMA ClearedToo ==
  ASSUME NEW g, NEW m, Cleared(g, m), NEW h \in GraphicsRecords,
         h.agstates = m.agstates, h.interp = m.interp, h.wanted = m.wanted, h.mark = m.mark
  PROVE  Cleared(g, h)
  BY DEF Cleared, Typed

LEMMA PatternBegun ==
  ASSUME NEW g, Typed(g), NEW p \in Patterns, NEW painttype \in {1, 2}
  PROVE  Cleared(g, [OnCanvas(g, Inherited) EXCEPT !.painttype[p] = painttype, !.pattern = p])
<1> DEFINE m == OnCanvas(g, Inherited)
           h == [m EXCEPT !.painttype[p] = painttype, !.pattern = p]
<1>1. Inherited \in AnyColour
  BY ColourIs DEF Inherited, Spaces, Values
<1>2. Cleared(g, m)
  BY <1>1, CanvasCleared
<1>3. m \in GraphicsRecords
  BY <1>2 DEF Cleared, Typed
<1> HIDE DEF m
<1>4. /\ m.painttype \in [Patterns -> 0..2] /\ painttype \in 0..2
      /\ [m.painttype EXCEPT ![p] = painttype] \in [Patterns -> 0..2]
  BY <1>3 DEF GraphicsRecords
<1>5. h \in GraphicsRecords
  BY <1>3, <1>4 DEF GraphicsRecords
<1>6. h.agstates = m.agstates /\ h.interp = m.interp /\ h.wanted = m.wanted /\ h.mark = m.mark
  BY <1>3 DEF GraphicsRecords
<1> HIDE DEF h
<1>7. Cleared(g, h)
  BY <1>2, <1>5, <1>6, ClearedToo
<1> QED
  BY <1>7 DEF h, m

LEMMA PatternEnded ==
  ASSUME NEW g, Typed(g), NEW p \in Patterns \cup {NoPattern}
  PROVE  Cleared(g, [OnCanvas(g, Inherited) EXCEPT !.defined = @ \cup {<<p, "document">>},
                                                   !.pattern = NoPattern])
<1> DEFINE m == OnCanvas(g, Inherited)
           h == [m EXCEPT !.defined = @ \cup {<<p, "document">>}, !.pattern = NoPattern]
<1>1. Inherited \in AnyColour
  BY ColourIs DEF Inherited, Spaces, Values
<1>2. Cleared(g, m)
  BY <1>1, CanvasCleared
<1>3. m \in GraphicsRecords
  BY <1>2 DEF Cleared, Typed
<1> HIDE DEF m
<1>4. m.defined \cup {<<p, "document">>} \in
        SUBSET ((Patterns \cup {NoPattern}) \X {"page", "document"})
  BY <1>3 DEF GraphicsRecords
<1>5. h \in GraphicsRecords
  BY <1>3, <1>4 DEF GraphicsRecords
<1>6. h.agstates = m.agstates /\ h.interp = m.interp /\ h.wanted = m.wanted /\ h.mark = m.mark
  BY <1>3 DEF GraphicsRecords
<1> HIDE DEF h
<1>7. Cleared(g, h)
  BY <1>2, <1>5, <1>6, ClearedToo
<1> QED
  BY <1>7 DEF h, m

\* The page takes its font and its patterns with it.
LEMMA PageForgotten ==
  ASSUME NEW g, Typed(g)
  PROVE  Cleared(g, OnCanvas([g EXCEPT !.font = NoFont,
                                       !.defined = {def \in @ : def[2] = "document"}], Inherited))
<1> DEFINE m == [g EXCEPT !.font = NoFont, !.defined = {def \in @ : def[2] = "document"}]
<1>1. Inherited \in AnyColour
  BY ColourIs DEF Inherited, Spaces, Values
<1>2. g \in GraphicsRecords
  BY DEF Typed
<1>3. {def \in g.defined : def[2] = "document"} \in
        SUBSET ((Patterns \cup {NoPattern}) \X {"page", "document"})
  BY <1>2 DEF GraphicsRecords
<1>4. m \in GraphicsRecords
  BY <1>2, <1>3 DEF GraphicsRecords
<1>5. m.agstates = g.agstates /\ m.interp = g.interp /\ m.wanted = g.wanted /\ m.mark = g.mark
  BY <1>2 DEF GraphicsRecords
<1> HIDE DEF m
<1>6. Typed(m)
  BY <1>4, <1>5 DEF Typed
<1>7. Cleared(m, OnCanvas(m, Inherited))
  BY <1>1, <1>6, CanvasCleared
<1>8. Cleared(g, OnCanvas(m, Inherited))
  BY <1>5, <1>7 DEF Cleared
<1> QED
  BY <1>8 DEF m

\* A new PSDoc.
LEMMA NewIsCoherent ==
  /\ Coherent(NewGraphics) /\ Wishless(NewGraphics) /\ NewGraphics.mark = {}
  /\ Height(NewGraphics.agstates) = 1
<1> DEFINE a == [colour |-> [k \in Kind |-> Device(Black)], invalid |-> [k \in Kind |-> FALSE]]
           h == NewGraphics
<1>1. Device(Black) \in AnyColour /\ Inherited \in AnyColour
  BY BlackAssumption, ColourIs DEF Device, Inherited, Spaces, Values
<1>2. a \in AState
  BY <1>1 DEF AState
<1> HIDE DEF a
<1>3. Stack(AState, <<a>>) /\ Stack(AnyColour, <<Inherited>>) /\ Stack(Wishes, <<NoWish>>)
  BY <1>1, <1>2, NoWishIs, OneLevel
<1>4. /\ h.agstates = <<a>> /\ h.interp = <<Inherited>> /\ h.wanted = <<NoWish>> /\ h.mark = {}
      /\ h.font = NoFont /\ h.pattern = NoPattern /\ h.spots = {} /\ h.shading = FALSE
      /\ h.defined = {} /\ h.painttype = [p \in Patterns |-> 0]
  BY DEF NewGraphics, NoWish, a
<1>5. h.painttype \in [Patterns -> 0..2]
  BY <1>4
<1>6. h \in GraphicsRecords
  BY <1>3, <1>4, <1>5 DEF GraphicsRecords, NewGraphics, Stack, NoWish, a
<1> HIDE DEF h
<1>7. Cleared(h, h) /\ Height(h.agstates) = 1
  BY <1>1, <1>2, <1>3, <1>4, <1>6, OneLevel DEF Cleared, Typed
<1> QED
  BY <1>4, <1>7, ClearedIsCoherent DEF h

----------------------------------------------------------------------------
(* Where the calls leave the document.                                     *)

Painter == DrawingScope \cup {"PATH"}

\* What lies on a canvas is a path.
LEMMA CanvasTop ==
  ASSUME NEW d, Ready(d), HasCanvas(d)
  PROVE  /\ ps_current_scope(d) \in Painter /\ d.beginprologwritten
         /\ ps_current_scope(d) = "PATH" =>
              Len(d.scopes) - 1 \in 1..Len(d.scopes) /\ d.scopes[Len(d.scopes) - 1] \in DrawingScope
<1>1. Good(d) /\ d \in PSDoc /\ OneDocument(d)
  BY ReadyStacks DEF Ready, SteadyDocs, PageAgrees
<1>2. PICK n \in Nat : n = Len(d.scopes) /\ n >= 1
  BY <1>1 DEF Good
<1>3. PICK i \in 1..n : d.scopes[i] \in DrawingScope
  BY <1>2 DEF HasCanvas
<1>4. d.scopes[1] = "OBJECT" /\ \A j \in 2..n : d.scopes[j - 1] \in Below(d.scopes[j])
  BY <1>1, <1>2 DEF Good, Nested
<1>5. \A j \in 1..n : d.scopes[j] = "DOCUMENT" => j = 2
  BY <1>1, <1>2 DEF OneDocument
<1>6. \A j \in 1..n : d.scopes[j] \in Scope
  BY <1>1, <1>2 DEF PSDoc
<1>7. i # 1
  BY <1>3, <1>4 DEF DrawingScope
<1>8. ASSUME NEW j \in 2..n, d.scopes[j - 1] \in Painter
      PROVE  d.scopes[j] = "PATH" /\ d.scopes[j - 1] \in DrawingScope
  <2>1. d.scopes[j - 1] \in Below(d.scopes[j]) /\ d.scopes[j] \in Scope
    BY <1>4, <1>6
  <2>2. d.scopes[j] # "DOCUMENT"
    <3>1. d.scopes[1] \notin Painter
      BY <1>4 DEF Painter, DrawingScope
    <3>2. j = 2 => j - 1 = 1
      OBVIOUS
    <3> QED
      BY <1>2, <1>5, <1>8, <3>1, <3>2
  <2> QED
    BY <1>8, <2>1, <2>2 DEF Below, Painter, DrawingScope, Scope
<1>9. CASE i = n
  BY <1>1, <1>2, <1>3, <1>9 DEF Good, ps_current_scope, Painter, DrawingScope
<1>10. CASE i < n
  <2>1. i + 1 \in 2..n /\ (i + 1) - 1 = i
    BY <1>2, <1>10
  <2>2. d.scopes[i + 1] = "PATH"
    BY <1>3, <1>8, <2>1 DEF Painter
  <2>3. i + 1 = n
    <3>1. ASSUME i + 1 < n
          PROVE  FALSE
      <4>1. i + 2 \in 2..n /\ (i + 2) - 1 = i + 1
        BY <1>2, <3>1
      <4>2. d.scopes[i + 1] \in DrawingScope
        BY <1>8, <2>2, <4>1 DEF Painter
      <4> QED
        BY <2>2, <4>2 DEF DrawingScope
    <3> QED
      BY <1>2, <1>10, <3>1
  <2>4. ps_current_scope(d) = "PATH"
    BY <1>2, <2>2, <2>3 DEF ps_current_scope
  <2>5. n - 1 \in 1..n /\ d.scopes[n - 1] \in DrawingScope
    <3>1. n - 1 = i
      BY <1>2, <2>3
    <3> QED
      BY <1>3, <3>1
  <2>6. d.beginprologwritten
    BY <1>1, <1>2, <1>3 DEF Good, DrawingScope
  <2> QED
    BY <1>2, <2>4, <2>5, <2>6 DEF Painter
<1> QED
  BY <1>2, <1>9, <1>10

\* The scope that a call leaves under the same stack of scopes.
SameScopes(d, e) == e.scopes = d.scopes

LEMMA SameScopesIs ==
  ASSUME NEW d, NEW e, SameScopes(d, e)
  PROVE  (HasCanvas(e) <=> HasCanvas(d)) /\ ps_current_scope(e) = ps_current_scope(d)
  BY DEF SameScopes, HasCanvas, ps_current_scope

\* The canvas stays, or there is none.
CanvasStays == HasCanvas(psdoc) => HasCanvas(psdoc')

\* What is known around every call.
Around == OutInv /\ PageAgrees(psdoc)

LEMMA NotCrashed ==
  ASSUME OutInv
  PROVE  psdoc.life # "crashed"
<1>1. Ready(psdoc) => psdoc.life # "crashed"
  BY DEF Ready, SteadyDocs, Writable
<1>2. Rests(psdoc) => psdoc.life # "crashed"
  BY DEF Rests, Idle
<1> QED
  BY <1>1, <1>2 DEF OutInv

LEMMA ReturnedIs ==
  ASSUME OutInv, OutInv', NEW d, Returns(d)
  PROVE  psdoc' = d /\ psdoc.life = "live"
<1>1. psdoc'.life # "crashed"
  <2>1. Ready(psdoc') => psdoc'.life # "crashed"
    BY DEF Ready, SteadyDocs, Writable
  <2>2. Rests(psdoc') => psdoc'.life # "crashed"
    BY DEF Rests, Idle
  <2> QED
    BY <2>1, <2>2 DEF OutInv
<1>2. psdoc \in PSDoc
  BY DEF OutInv, IInv, Good
<1>3. CASE d.life = "crashed"
  <2>1. psdoc' = [psdoc EXCEPT !.life = "crashed"]
    BY <1>3 DEF Returns
  <2>2. psdoc'.life = "crashed"
    BY <1>2, <2>1 DEF PSDoc
  <2> QED
    BY <1>1, <2>2
<1>4. CASE d.life # "crashed"
  BY <1>4 DEF Returns
<1> QED
  BY <1>3, <1>4

\* agstate follows the canvas: LevelsAgree before and after.
LEMMA LevelsFollow ==
  ASSUME OutInv, OutInv'
  PROVE  /\ psdoc.agstate = IF HasCanvas(psdoc) THEN pending ELSE 0
         /\ psdoc'.agstate = IF HasCanvas(psdoc') THEN pending' ELSE 0
         /\ \/ ~HasCanvas(psdoc) /\ ~HasCanvas(psdoc')
            \/ CanvasStays /\ HasCanvas(psdoc) /\ pending' = pending
            => psdoc'.agstate = psdoc.agstate
  BY DEF OutInv, LevelsAgree, HasCanvas, CanvasStays

LEMMA RestsIs ==
  ASSUME NEW d, Rests(d)
  PROVE  /\ d.agstate = 0 /\ ~HasCanvas(d)
         /\ \A S : S \subseteq Scope \ {"OBJECT"} => ~ps_check_scope(d, S)
<1>1. d.scopes = <<"OBJECT">> /\ d.agstate = 0
  BY DEF Rests, Idle
<1>2. Len(d.scopes) = 1 /\ d.scopes[1] = "OBJECT"
  BY <1>1
<1>3. ~HasCanvas(d)
  BY <1>2 DEF HasCanvas, DrawingScope
<1>4. ps_current_scope(d) = "OBJECT"
  BY <1>2 DEF ps_current_scope
<1> QED
  BY <1>1, <1>3, <1>4 DEF ps_check_scope

\* On a canvas nothing can be defined, and the prolog has been begun.
LEMMA CanvasRefuses ==
  ASSUME NEW d, Ready(d), HasCanvas(d)
  PROVE  /\ PrologStarted(d) = d
         /\ ~ps_check_scope(d, {"DOCUMENT", "PROLOG"})
         /\ ~ps_check_scope(d, {"FONT"}) /\ ~ps_check_scope(d, {"GLYPH"})
<1>1. ps_current_scope(d) \in Painter /\ d.beginprologwritten
  BY CanvasTop
<1> QED
  BY <1>1 DEF PrologStarted, ps_check_scope, Painter, DrawingScope

LEMMA DefinitionsRefused ==
  ASSUME NEW d, Ready(d), HasCanvas(d)
  PROVE  /\ PS_begin_template(d) = d /\ PS_begin_pattern(d) = d /\ PS_begin_font(d) = d
         /\ PS_begin_glyph(d) = d /\ PS_end_font(d) = d /\ PS_end_glyph(d) = d
  BY CanvasRefuses DEF PS_begin_template, PS_begin_pattern, PS_begin_font, PS_begin_glyph,
     PS_end_font, PS_end_glyph, BeginDefinition, EndDefinition

LEMMA ResourceScopes ==
  ASSUME NEW d, Ready(d), HasCanvas(d)
  PROVE  /\ \A writes \in BOOLEAN : SameScopes(d, PS_findfont(d, writes))
         /\ \A reuse \in BOOLEAN : SameScopes(d, PS_open_image(d, reuse))
         /\ SameScopes(d, PS_include_file(d))
         /\ \A found \in BOOLEAN : SameScopes(d, PS_shading_pattern(d, found))
<1>1. PrologStarted(d) = d
  BY CanvasRefuses
<1>2. d \in PSDoc
  BY ReadyStacks
<1>3. d.scopes = [d EXCEPT !.images = TRUE].scopes
  BY <1>2 DEF PSDoc
<1>4. ASSUME NEW found \in BOOLEAN
      PROVE  SameScopes(d, PS_shading_pattern(d, found))
  <2>1. CASE ps_check_scope(d, {"DOCUMENT", "PAGE"}) /\ found
    <3> DEFINE n == IF d.phase = "empty" THEN Garbled ELSE d.nest
    <3>1. n \in Seq(Construct)
      <4>1. "stray" \in Construct
        BY DEF Construct
      <4>2. Garbled \in Seq(Construct)
        BY <4>1 DEF Garbled
      <4>3. d.nest \in Seq(Construct)
        BY <1>2 DEF PSDoc
      <4> QED
        BY <4>2, <4>3
    <3>2. PS_shading_pattern(d, found) = ps_printf(d, n)
      BY <2>1 DEF PS_shading_pattern
    <3> HIDE DEF n
    <3>3. ps_printf(d, n).scopes = d.scopes
      BY <1>2, <3>1, Printf DEF Writes
    <3> QED
      BY <3>2, <3>3 DEF SameScopes
  <2>2. CASE ~(ps_check_scope(d, {"DOCUMENT", "PAGE"}) /\ found)
    BY <2>2 DEF PS_shading_pattern, SameScopes
  <2> QED
    BY <2>1, <2>2
<1>5. \A writes \in BOOLEAN : SameScopes(d, PS_findfont(d, writes))
  BY <1>1 DEF PS_findfont, SameScopes
<1>6. \A reuse \in BOOLEAN : SameScopes(d, PS_open_image(d, reuse))
  BY <1>1, <1>3 DEF PS_open_image, SameScopes
<1>7. SameScopes(d, PS_include_file(d))
  BY <1>1 DEF PS_include_file, SameScopes
<1> QED
  BY <1>4, <1>5, <1>6, <1>7

\* A path begins on its canvas and leaves it.
LEMMA PathScopes ==
  ASSUME Orderly, NEW d, Ready(d), HasCanvas(d)
  PROVE  HasCanvas(PS_moveto(d)) /\ HasCanvas(PS_arc(d)) /\ HasCanvas(PaintPath(d))
<1>1. d \in PSDoc /\ Good(d)
  BY ReadyStacks
<1>2. PICK n \in Nat : n = Len(d.scopes) /\ n >= 1
  BY <1>1 DEF Good
<1>3. ASSUME NEW e, e.scopes \in {d.scopes, Append(d.scopes, "PATH")}
      PROVE  HasCanvas(e)
  <2>1. PICK i \in 1..n : d.scopes[i] \in DrawingScope
    BY <1>2 DEF HasCanvas
  <2>2. d.scopes \in Seq(Scope) /\ "PATH" \in Scope
    BY <1>1 DEF PSDoc, Scope
  <2>3. Len(Append(d.scopes, "PATH")) = n + 1 /\ Append(d.scopes, "PATH")[i] = d.scopes[i]
    BY <1>2, <2>1, <2>2, AppendProperties
  <2>4. i \in 1..n /\ i \in 1..(n + 1)
    BY <1>2, <2>1
  <2> QED
    BY <1>2, <1>3, <2>1, <2>3, <2>4 DEF HasCanvas
<1>4. ASSUME NEW allowed
      PROVE  StartPath(d, allowed).scopes \in {d.scopes, Append(d.scopes, "PATH")}
  <2>1. ps_enter_scope(d, "PATH").scopes \in {d.scopes, Append(d.scopes, "PATH")}
    BY <1>1 DEF ps_enter_scope, PSDoc
  <2> QED
    BY <2>1 DEF StartPath
<1>5. HasCanvas(PaintPath(d))
  <2>1. CASE ps_current_scope(d) = "PATH"
    <3> DEFINE e == PaintPath(d)
    <3>1. n - 1 \in 1..n /\ d.scopes[n - 1] \in DrawingScope
      BY <1>2, <2>1, CanvasTop
    <3>2. e.scopes = SubSeq(d.scopes, 1, n - 1)
      BY <1>1, <1>2, <2>1 DEF PaintPath, ps_check_scope, ps_leave_scope, PSDoc
    <3>3. d.scopes \in Seq(Scope)
      BY <1>1 DEF PSDoc
    <3>4. Len(SubSeq(d.scopes, 1, n - 1)) = n - 1
          /\ SubSeq(d.scopes, 1, n - 1)[n - 1] = d.scopes[n - 1]
      BY <1>2, <3>1, <3>3
    <3> HIDE DEF e
    <3>5. HasCanvas(e)
      BY <1>2, <3>1, <3>2, <3>4 DEF HasCanvas
    <3> QED
      BY <3>5 DEF e
  <2>2. CASE ps_current_scope(d) # "PATH"
    BY <2>2 DEF PaintPath, ps_check_scope
  <2> QED
    BY <2>1, <2>2
<1>6. HasCanvas(PS_moveto(d)) /\ HasCanvas(PS_arc(d))
  BY <1>3, <1>4 DEF PS_moveto, PS_arc
<1> QED
  BY <1>5, <1>6

----------------------------------------------------------------------------
(* The invariant is kept.                                                  *)

GraphicsInv == GInv /\ Around

\* A call that leaves the levels and the wishes as they are, on a canvas that
\* stays or on none.
LEMMA KeptGraphics ==
  ASSUME GInv, Coherent(gfx'), gfx'.mark = {},
         Height(gfx'.agstates) = Height(gfx.agstates),
         ~HasCanvas(psdoc') => Wishless(gfx'),
         psdoc.life = "live", psdoc'.agstate = psdoc.agstate
  PROVE  GInv'
  BY DEF GInv

\* The wishes are the same and the canvas is.
LEMMA WishesKept ==
  ASSUME GInv, CanvasStays, gfx'.wanted = gfx.wanted
  PROVE  ~HasCanvas(psdoc') => Wishless(gfx')
  BY DEF GInv, CanvasStays, Wishless

\* A call that begins or ends a canvas.
LEMMA ClearedGraphics ==
  ASSUME GInv, Cleared(gfx, gfx'), psdoc.life = "live", psdoc.agstate = 0, psdoc'.agstate = 0
  PROVE  GInv'
<1>1. Height(gfx.agstates) = 1
  BY DEF GInv
<1>2. Coherent(gfx') /\ Wishless(gfx')
  BY <1>1, ClearedIsCoherent
<1>3. gfx'.agstates = gfx.agstates /\ gfx'.mark = gfx.mark
  BY DEF Cleared
<1> QED
  BY <1>1, <1>2, <1>3 DEF GInv

\* Nothing was marked by the last call.
LEMMA FreshIs ==
  ASSUME GInv
  PROVE  Fresh = gfx
<1>1. gfx \in GraphicsRecords /\ gfx.mark = {}
  BY DEF GInv, Coherent, Typed
<1> QED
  BY <1>1 DEF Fresh, GraphicsRecords

LEMMA InheritedIs == Inherited \in AnyColour
  BY ColourIs DEF Inherited, Spaces, Values

LEMMA KeepingGraphics ==
  ASSUME GInv, Keeping(gfx, gfx'), CanvasStays, psdoc.life = "live", psdoc'.agstate = psdoc.agstate
  PROVE  GInv'
<1>1. Coherent(gfx') /\ gfx'.mark = {}
  BY KeepingIsCoherent DEF GInv, Keeping
<1>2. gfx'.agstates = gfx.agstates /\ gfx'.wanted = gfx.wanted
  BY DEF Keeping
<1> QED
  BY <1>1, <1>2, WishesKept, KeptGraphics

LEMMA RepaintedGraphics ==
  ASSUME GInv, Repaints(gfx, gfx'), CanvasStays, psdoc.life = "live", psdoc'.agstate = psdoc.agstate
  PROVE  GInv'
<1>1. Coherent(gfx') /\ gfx'.mark = {}
  BY DEF GInv, Repaints, SameBooks
<1>2. Height(gfx'.agstates) = Height(gfx.agstates) /\ gfx'.wanted = gfx.wanted
  BY DEF Repaints
<1> QED
  BY <1>1, <1>2, WishesKept, KeptGraphics

\* What the calls that change neither canvas nor levels have in common.
SameLevels == CanvasStays /\ psdoc'.agstate = psdoc.agstate

LEMMA SamePSDoc ==
  ASSUME psdoc' = psdoc
  PROVE  SameLevels
  BY DEF SameLevels, CanvasStays

\* The levels are as they were when the canvas is.
LEMMA CanvasAndLevels ==
  ASSUME Around, Around', CanvasStays, HasCanvas(psdoc') => HasCanvas(psdoc), pending' = pending
  PROVE  SameLevels
  BY LevelsFollow DEF Around, SameLevels, CanvasStays

\* The calls that change neither canvas nor levels.
LEMMA OtherCalls ==
  ASSUME Orderly, Around, Around', Ready(psdoc),
         \/ FindFont \/ OpenImage \/ IncludeFile \/ ShadingPattern \/ EndFont
         \/ ConstructPath \/ EndPath \/ PlaceImage \/ ShowText
  PROVE  SameLevels /\ psdoc.life = "live"
<1>1. OutInv /\ OutInv'
  BY DEF Around
<1>2. ps_current_scope(psdoc) \in DrawingScope => psdoc.agstate = pending
  BY <1>1, LevelsFollow, TopIsOn
<1>3. ASSUME NEW d, Returns(d), HasCanvas(psdoc) => HasCanvas(d), psdoc'.agstate = psdoc.agstate
      PROVE  SameLevels /\ psdoc.life = "live"
  BY <1>1, <1>3, ReturnedIs DEF SameLevels, CanvasStays
<1>4. ASSUME NEW d, Returns(d), HasCanvas(psdoc) => SameScopes(psdoc, d),
             psdoc'.agstate = psdoc.agstate
      PROVE  SameLevels /\ psdoc.life = "live"
  BY <1>3, <1>4, SameScopesIs
<1>5. CASE FindFont
  <2>1. PICK writes \in BOOLEAN : Returns(PS_findfont(psdoc, writes))
    BY <1>5 DEF FindFont
  <2>2. psdoc'.agstate = psdoc.agstate
    BY <1>5, ResourceCalls DEF SameCanvas
  <2> QED
    BY <1>4, <2>1, <2>2, ResourceScopes
<1>6. CASE OpenImage
  <2>1. PICK reuse \in BOOLEAN : Returns(PS_open_image(psdoc, reuse))
    BY <1>6 DEF OpenImage
  <2>2. psdoc'.agstate = psdoc.agstate
    BY <1>6, ResourceCalls DEF SameCanvas
  <2> QED
    BY <1>4, <2>1, <2>2, ResourceScopes
<1>7. CASE IncludeFile
  <2>1. Returns(PS_include_file(psdoc))
    BY <1>7 DEF IncludeFile
  <2>2. psdoc'.agstate = psdoc.agstate
    BY <1>7, ResourceCalls DEF SameCanvas
  <2> QED
    BY <1>4, <2>1, <2>2, ResourceScopes
<1>8. CASE ShadingPattern
  <2>1. PICK found \in BOOLEAN : Returns(PS_shading_pattern(psdoc, found))
    BY <1>8 DEF ShadingPattern
  <2>2. psdoc'.agstate = psdoc.agstate
    BY <1>8, ResourceCalls DEF SameCanvas
  <2> QED
    BY <1>4, <2>1, <2>2, ResourceScopes
<1>9. CASE EndFont
  <2>1. Returns(PS_end_font(psdoc))
    BY <1>9 DEF EndFont
  <2>2. psdoc'.agstate = psdoc.agstate
    BY <1>2, <1>9, EndCalls DEF SameCanvas
  <2> QED
    BY <1>3, <2>1, <2>2, DefinitionsRefused
<1>10. CASE ConstructPath \/ EndPath
  <2>1. PICK d \in {PS_moveto(psdoc), PS_arc(psdoc), PaintPath(psdoc)} : Returns(d)
    BY <1>10 DEF ConstructPath, EndPath
  <2>2. psdoc'.agstate = psdoc.agstate
    BY <1>10, PathCalls DEF SameCanvas
  <2>3. HasCanvas(psdoc) => HasCanvas(d)
    BY <2>1, PathScopes
  <2> QED
    BY <1>3, <2>1, <2>2, <2>3
<1>11. CASE PlaceImage \/ ShowText
  <2>1. PICK d, lines : (d = PS_show2(psdoc, lines) \/ d = PS_place_image(psdoc)) /\ Returns(d)
    BY <1>11 DEF PlaceImage, ShowText
  <2>2. psdoc'.agstate = psdoc.agstate
    BY <1>2, <1>11, TextCalls DEF SameCanvas
  <2>3. ps_current_scope(psdoc) \in DrawingScope => psdoc.agstate < MaxGState - 1
    <3>1. pending < MaxGState - 1
      BY <1>11 DEF PlaceImage, ShowText, NeedsLevel, Keeps, Orderly, AllRules
    <3> QED
      BY <1>2, <3>1
  <2>4. SameScopes(psdoc, d)
    BY <2>1, <2>3, TextsLeaveNothing DEF SameStream, SameScopes
  <2> QED
    BY <1>4, <2>1, <2>2, <2>4
<1> QED
  BY <1>5, <1>6, <1>7, <1>8, <1>9, <1>10, <1>11

\* A definition that begins is a new canvas, or the call is refused.
LEMMA DefinitionCall ==
  ASSUME Orderly, Around, Around', Ready(psdoc), NEW s \in Defined, NEW t,
         t = BeginDefinition(psdoc, s, ConstructOf(s)), Ready(psdoc'), Alike(t, psdoc')
  PROVE  IF Entered(s) THEN psdoc.agstate = 0 /\ psdoc'.agstate = 0 ELSE SameLevels
<1>1. psdoc' \in SteadyDocs
  BY DEF Ready
<1>2. \/ SameCanvas /\ ps_current_scope(psdoc') = ps_current_scope(PrologStarted(psdoc))
      \/ /\ psdoc'.agstate = 0 /\ ps_current_scope(psdoc') = s
         /\ ps_current_scope(psdoc) # s
  BY <1>1, DefinitionBegins
<1>3. Entered(s) <=> ps_current_scope(psdoc') = s /\ ps_current_scope(psdoc) # s
  BY DEF Entered, ps_check_scope
<1>4. HasCanvas(psdoc) => psdoc'.scopes = psdoc.scopes
  BY CanvasRefuses DEF BeginDefinition, Alike
<1>5. HasCanvas(psdoc) =>
        HasCanvas(psdoc') /\ ps_current_scope(psdoc') = ps_current_scope(psdoc)
  BY <1>4, SameScopesIs DEF SameScopes
<1>6. CASE Entered(s)
  <2>1. psdoc.agstate = 0
    BY <1>3, <1>5, <1>6, CanvasOfLevel
  <2>2. psdoc'.agstate = 0
    <3>1. CASE SameCanvas
      BY <2>1, <3>1 DEF SameCanvas
    <3>2. CASE psdoc'.agstate = 0
      BY <3>2
    <3> QED
      BY <1>2, <3>1, <3>2
  <2> QED
    BY <1>6, <2>1, <2>2
<1>7. CASE ~Entered(s)
  BY <1>2, <1>3, <1>5, <1>7 DEF SameLevels, SameCanvas, CanvasStays
<1> QED
  BY <1>6, <1>7

LEMMA BeginDefinitionCall ==
  ASSUME Orderly, Around, Around', Ready(psdoc),
         NEW s, \/ s = "TEMPLATE" /\ BeginTemplate
                \/ s = "PATTERN" /\ BeginPattern
                \/ s = "FONT" /\ BeginFont
  PROVE  /\ IF Entered(s) THEN psdoc.agstate = 0 /\ psdoc'.agstate = 0 ELSE SameLevels
         /\ psdoc.life = "live"
<1> DEFINE t == BeginDefinition(psdoc, s, ConstructOf(s))
<1>1. OutInv /\ OutInv' /\ s \in Defined
  BY DEF Around, Defined
<1>2. Accounted(psdoc, pending)
  BY <1>1, LevelsAccounted DEF OutInv
<1>3. Ready(psdoc')
  BY <1>2, BeginCalls DEF Continues
<1>4. psdoc' \in PSDoc
  BY <1>3, ReadyStacks
<1>5. psdoc.life = "live" /\ psdoc' \in {t, [t EXCEPT !.images = TRUE]}
  <2>1. CASE s = "TEMPLATE" /\ BeginTemplate
    <3>1. PS_begin_template(psdoc) \in {t, [t EXCEPT !.images = TRUE]}
      BY <2>1 DEF PS_begin_template, ConstructOf
    <3>2. Returns(PS_begin_template(psdoc))
      BY <2>1 DEF BeginTemplate
    <3> QED
      BY <1>1, <3>1, <3>2, ReturnedIs
  <2>2. CASE s = "PATTERN" /\ BeginPattern
    <3>1. PS_begin_pattern(psdoc) = t
      BY <2>2 DEF PS_begin_pattern, ConstructOf
    <3>2. Returns(PS_begin_pattern(psdoc))
      BY <2>2 DEF BeginPattern
    <3> QED
      BY <1>1, <3>1, <3>2, ReturnedIs
  <2>3. CASE s = "FONT" /\ BeginFont
    <3>1. PS_begin_font(psdoc) = t
      BY <2>3 DEF PS_begin_font, ConstructOf
    <3>2. Returns(PS_begin_font(psdoc))
      BY <2>3 DEF BeginFont
    <3> QED
      BY <1>1, <3>1, <3>2, ReturnedIs
  <2> QED
    BY <2>1, <2>2, <2>3
<1>6. t \in PSDoc /\ HasSink(t)
  <2> DEFINE p == PrologStarted(psdoc)
  <2>1. CASE ps_current_scope(p) \in {"DOCUMENT", "PROLOG"}
    <3>1. Fixed(p, t)
      BY <1>1, <2>1, DefinitionOpens
    <3>2. HasSink(p)
      BY Started, ReadyStacks
    <3> QED
      BY <3>1, <3>2 DEF Fixed, HasSink
  <2>2. CASE ps_current_scope(p) \notin {"DOCUMENT", "PROLOG"}
    <3>1. t = p
      BY <2>2 DEF BeginDefinition, ps_check_scope
    <3> QED
      BY <3>1, Started, ReadyStacks
  <2> QED
    BY <2>1, <2>2
<1>7. Alike(t, psdoc')
  <2> HIDE DEF t
  <2>1. Alike(t, t)
    BY <1>6 DEF Alike, Fixed
  <2>2. Alike(t, [t EXCEPT !.images = TRUE])
    BY <1>6, PartsAlike
  <2> QED
    BY <1>5, <2>1, <2>2
<1> HIDE DEF t
<1>8. t = BeginDefinition(psdoc, s, ConstructOf(s))
  BY DEF t
<1> QED
  BY <1>1, <1>3, <1>5, <1>7, <1>8, DefinitionCall

LEMMA PageCanvas ==
  ASSUME Orderly, Around, Around', Ready(psdoc), BeginPage
  PROVE  Entered("PAGE") /\ psdoc.agstate = 0 /\ psdoc'.agstate = 0 /\ psdoc.life = "live"
<1>1. psdoc' = PS_begin_page(psdoc) /\ psdoc.life = "live"
  BY ReturnedIs DEF Around, BeginPage
<1>2. ps_current_scope(psdoc) \in {"DOCUMENT", "PROLOG"}
  BY DEF BeginPage, Keeps, Orderly, AllRules, ps_check_scope
<1>3. psdoc'.agstate = 0 /\ ps_current_scope(psdoc') = "PAGE"
  BY <1>1, <1>2, PageBegins
<1>4. psdoc.agstate = 0
  BY <1>2, LevelOfScope DEF DrawingScope
<1> QED
  BY <1>1, <1>2, <1>3, <1>4 DEF Entered, ps_check_scope

LEMMA GlyphCanvas ==
  ASSUME Orderly, Around, Around', Ready(psdoc), BeginGlyph
  PROVE  /\ IF Entered("GLYPH") THEN psdoc.agstate = 0 /\ psdoc'.agstate = 0 ELSE SameLevels
         /\ psdoc.life = "live"
<1>1. psdoc' = PS_begin_glyph(psdoc) /\ psdoc.life = "live"
  BY ReturnedIs DEF Around, BeginGlyph
<1>2. psdoc'.agstate = psdoc.agstate
  BY <1>1, GlyphBegins DEF SameCanvas
<1>3. SameLevels
  BY <1>1, <1>2, DefinitionsRefused DEF SameLevels, CanvasStays
<1>4. ASSUME Entered("GLYPH")
      PROVE  psdoc.agstate = 0
  <2>1. ps_current_scope(psdoc) = "FONT"
    BY <1>1, <1>4 DEF Entered, PS_begin_glyph, ps_check_scope
  <2> QED
    BY <2>1, LevelOfScope DEF DrawingScope
<1> QED
  BY <1>1, <1>2, <1>3, <1>4

\* The canvas of a template, a pattern or a glyph ends with nothing saved.
LEMMA DefinitionEnded ==
  ASSUME Orderly, Around, Around', Ready(psdoc), EndTemplate \/ EndPattern \/ EndGlyph
  PROVE  /\ psdoc' = psdoc \/ (psdoc.agstate = 0 /\ psdoc'.agstate = 0)
         /\ psdoc.life = "live"
<1>1. OutInv /\ OutInv'
  BY DEF Around
<1>2. ps_current_scope(psdoc) \in DrawingScope => psdoc.agstate = pending
  BY <1>1, LevelsFollow, TopIsOn
<1>3. psdoc'.agstate = psdoc.agstate
  BY <1>2, EndCalls DEF SameCanvas
<1>4. CASE EndTemplate
  <2>1. psdoc' = PS_end_template(psdoc) /\ psdoc.life = "live" /\ pending = 0
    BY <1>1, <1>4, ReturnedIs DEF EndTemplate, Keeps, Orderly, AllRules
  <2>2. psdoc' = psdoc \/ ps_current_scope(psdoc) = "TEMPLATE"
    BY <2>1 DEF PS_end_template, EndDefinition, ps_check_scope
  <2> QED
    BY <1>2, <1>3, <2>1, <2>2 DEF DrawingScope
<1>5. CASE EndPattern
  <2>1. psdoc' = PS_end_pattern(psdoc) /\ psdoc.life = "live" /\ pending = 0
    BY <1>1, <1>5, ReturnedIs DEF EndPattern, Keeps, Orderly, AllRules
  <2>2. psdoc' = psdoc \/ ps_current_scope(psdoc) = "PATTERN"
    BY <2>1 DEF PS_end_pattern, EndDefinition, ps_check_scope
  <2> QED
    BY <1>2, <1>3, <2>1, <2>2 DEF DrawingScope
<1>6. CASE EndGlyph
  <2>1. psdoc' = PS_end_glyph(psdoc) /\ psdoc.life = "live"
    BY <1>1, <1>6, ReturnedIs DEF EndGlyph
  <2>2. psdoc' = psdoc \/ ps_current_scope(psdoc) = "GLYPH"
    BY <2>1 DEF PS_end_glyph, EndDefinition, ps_check_scope
  <2>3. ps_current_scope(psdoc) = "GLYPH" => psdoc.agstate = 0
    BY LevelOfScope DEF DrawingScope
  <2> QED
    BY <1>3, <2>1, <2>2, <2>3
<1> QED
  BY <1>4, <1>5, <1>6

\* A page is open exactly on the scope PAGE and what lies on it.
LEMMA PageIsOpen ==
  ASSUME NEW d, Ready(d)
  PROVE  /\ ps_current_scope(d) = "PAGE" => d.page_open
         /\ ps_current_scope(d) = "DOCUMENT" => ~d.page_open /\ ~HasCanvas(d)
<1>1. Good(d) /\ (d.page_open <=> Has(d, "PAGE"))
  BY ReadyStacks DEF Ready, SteadyDocs, PageAgrees
<1>2. ps_current_scope(d) = "PAGE" => Has(d, "PAGE")
  BY <1>1 DEF Good, Has, ps_current_scope
<1>3. ASSUME ps_current_scope(d) = "DOCUMENT"
      PROVE  ~Has(d, "PAGE") /\ ~HasCanvas(d)
  <2>1. Len(d.scopes) = 2
    BY <1>3, AtDocument
  <2>2. d.scopes[1] = "OBJECT" /\ d.scopes[2] = "DOCUMENT"
    BY <1>1, <1>3, <2>1 DEF Good, ps_current_scope
  <2>3. \A i \in 1..Len(d.scopes) : d.scopes[i] \in {"OBJECT", "DOCUMENT"}
    BY <2>1, <2>2
  <2> QED
    BY <2>3 DEF Has, HasCanvas, DrawingScope
<1> QED
  BY <1>1, <1>2, <1>3

\* The page that ends takes its canvas with it; the document that is closed
\* has no page.
LEMMA PageCloses ==
  ASSUME Orderly, Around, Around', Ready(psdoc), NEW d \in {PS_end_page(psdoc), PS_close(psdoc)},
         psdoc' = d
  PROVE  IF psdoc.page_open /\ ~psdoc'.page_open
         THEN psdoc.agstate = 0 /\ psdoc'.agstate = 0
         ELSE SameLevels
<1> DEFINE e == PS_end_page(psdoc)
<1>1. /\ Ready(e)
      /\ \/ e = psdoc
         \/ /\ Fixed(psdoc, e) /\ psdoc.agstate = 0 /\ ps_current_scope(e) = "DOCUMENT"
            /\ e.scopes = SubSeq(psdoc.scopes, 1, Len(psdoc.scopes) - 1)
  BY PageEnds
<1>2. e # psdoc => ps_current_scope(psdoc) = "PAGE"
  BY DEF PS_end_page, ps_check_scope
<1>3. e # psdoc => psdoc.page_open /\ ~e.page_open /\ psdoc.agstate = 0 /\ e.agstate = 0
  BY <1>1, <1>2, PageIsOpen DEF Fixed
<1> HIDE DEF e
<1>4. CASE psdoc' \in {psdoc, e}
  <2>1. CASE psdoc' = psdoc
    BY <2>1, SamePSDoc
  <2>2. CASE psdoc' = e /\ e # psdoc
    BY <1>3, <2>2
  <2> QED
    BY <1>4, <2>1, <2>2
<1>5. CASE psdoc' = PS_close(psdoc) /\ psdoc' \notin {psdoc, e}
  <2>1. Rests(psdoc')
    BY <1>5, DocumentCloses DEF e
  <2>2. psdoc'.agstate = 0 /\ ~psdoc'.page_open
    <3>1. psdoc'.scopes = <<"OBJECT">> /\ (psdoc'.page_open <=> Has(psdoc', "PAGE"))
      BY <2>1 DEF Around, PageAgrees, Rests, Idle
    <3>2. ~Has(psdoc', "PAGE")
      BY <3>1 DEF Has
    <3> QED
      BY <2>1, <3>1, <3>2 DEF Rests
  <2>3. ps_current_scope(IF psdoc.page_open THEN e ELSE psdoc) = "DOCUMENT"
    BY <1>5 DEF PS_close, ps_check_scope, e
  <2>4. CASE psdoc.page_open
    <3>1. e # psdoc
      BY <2>3, <2>4, PageIsOpen
    <3> QED
      BY <1>3, <2>2, <2>4, <3>1
  <2>5. CASE ~psdoc.page_open
    <3>1. ~HasCanvas(psdoc) /\ psdoc.agstate = 0
      BY <2>3, <2>5, PageIsOpen, CanvasOfLevel
    <3> QED
      BY <2>2, <2>5, <3>1 DEF SameLevels, CanvasStays
  <2> QED
    BY <2>4, <2>5
<1> QED
  BY <1>4, <1>5 DEF e

LEMMA SaveFrame ==
  ASSUME NEW d \in PSDoc
  PROVE  LET e == PS_save(d)
         IN  \/ e = d
             \/ /\ e.agstate = d.agstate + 1 /\ SameScopes(d, e)
                /\ ps_current_scope(d) \in DrawingScope
<1> DEFINE o == Opening(d, "gsave")
<1>1. o \in PSDoc /\ o.scopes = d.scopes /\ o.agstate = d.agstate
  BY Nest DEF Construct, Writes, Kept
<1>2. d.agstate \in Nat
  BY MaxGStateAssumption DEF PSDoc
<1> HIDE DEF o
<1>3. /\ [o EXCEPT !.agstate = @ + 1].agstate = d.agstate + 1
      /\ [o EXCEPT !.agstate = @ + 1].scopes = d.scopes
  BY <1>1 DEF PSDoc
<1>4. CASE ~ps_check_scope(d, DrawingScope) \/ d.agstate >= MaxGState - 1
  BY <1>4 DEF PS_save
<1>5. CASE ~(~ps_check_scope(d, DrawingScope) \/ d.agstate >= MaxGState - 1)
  <2>1. PS_save(d) = [o EXCEPT !.agstate = @ + 1]
    BY <1>5 DEF PS_save, o
  <2> QED
    BY <1>3, <1>5, <2>1 DEF SameScopes, ps_check_scope
<1> QED
  BY <1>4, <1>5

LEMMA RestoreFrame ==
  ASSUME NEW d \in PSDoc
  PROVE  LET e == PS_restore(d)
         IN  \/ e = d
             \/ /\ e.agstate = d.agstate - 1 /\ d.agstate > 0 /\ SameScopes(d, e)
                /\ ps_current_scope(d) \in DrawingScope
<1> DEFINE o == Closing(d, "gsave")
<1>1. o \in PSDoc /\ o.scopes = d.scopes /\ o.agstate = d.agstate
  BY Nest DEF Construct, Writes, Kept
<1>2. d.agstate \in Nat
  BY MaxGStateAssumption DEF PSDoc
<1> HIDE DEF o
<1>3. /\ [o EXCEPT !.agstate = @ - 1].agstate = d.agstate - 1
      /\ [o EXCEPT !.agstate = @ - 1].scopes = d.scopes
  BY <1>1 DEF PSDoc
<1>4. CASE ~ps_check_scope(d, DrawingScope) \/ d.agstate <= 0
  BY <1>4 DEF PS_restore
<1>5. CASE ~(~ps_check_scope(d, DrawingScope) \/ d.agstate <= 0)
  <2>1. PS_restore(d) = [o EXCEPT !.agstate = @ - 1]
    BY <1>5 DEF PS_restore, o
  <2>2. d.agstate > 0
    BY <1>2, <1>5
  <2> QED
    BY <1>3, <1>5, <2>1, <2>2 DEF SameScopes, ps_check_scope
<1> QED
  BY <1>4, <1>5

\* The hypotheses of what follows: a call while a document is open.
Calling == Orderly /\ Careful /\ GraphicsInv /\ Around' /\ Ready(psdoc)

LEMMA CallingIs ==
  ASSUME Calling
  PROVE  /\ GInv /\ Around /\ OutInv /\ OutInv' /\ Fresh = gfx /\ Coherent(gfx) /\ Typed(gfx)
         /\ psdoc \in PSDoc /\ gfx \in GraphicsRecords
  BY FreshIs, ReadyStacks DEF Calling, GraphicsInv, Around, GInv, Coherent, Typed

\* Calls that only draw, define or look something up.
LEMMA BooksCall ==
  ASSUME Calling, SameLevels, psdoc.life = "live", Keeping(gfx, gfx')
  PROVE  GInv'
  BY KeepingGraphics, CallingIs DEF SameLevels

LEMMA SameCall ==
  ASSUME Calling, SameLevels, psdoc.life = "live", gfx' = Fresh
  PROVE  GInv'
  BY BooksCall, CallingIs, NothingKept

LEMMA OtherCall ==
  ASSUME Calling, GOther, ~OpenDocument
  PROVE  GInv'
<1>1. SameLevels /\ psdoc.life = "live"
  BY OtherCalls, CallingIs DEF Calling, GOther
<1>2. gfx' = Fresh
  BY DEF GOther, SameGraphics
<1> QED
  BY <1>1, <1>2, SameCall

LEMMA ShadingCall ==
  ASSUME Calling, GShadingPattern
  PROVE  GInv'
<1>1. SameLevels /\ psdoc.life = "live"
  BY OtherCalls, ShadingCalled, CallingIs DEF Calling
<1>2. \/ gfx' = Fresh
      \/ \E p \in Unmade : \E where \in {"page", "document"} :
           gfx' = [gfx EXCEPT !.painttype[p] = 1, !.defined = @ \cup {<<p, where>>}]
  BY CallingIs DEF GShadingPattern, SameGraphics
<1>3. CASE gfx' = Fresh
  BY <1>1, <1>3, SameCall
<1>4. CASE \E p \in Unmade : \E where \in {"page", "document"} :
             gfx' = [gfx EXCEPT !.painttype[p] = 1, !.defined = @ \cup {<<p, where>>}]
  <2>1. PICK p \in Patterns, where \in {"page", "document"} :
          /\ gfx.painttype[p] = 0
          /\ gfx' = [gfx EXCEPT !.painttype[p] = 1, !.defined = @ \cup {<<p, where>>}]
    BY <1>4 DEF Unmade
  <2>2. Keeping(gfx, gfx')
    BY <2>1, PatternDefined, CallingIs
  <2> QED
    BY <1>1, <2>2, BooksCall
<1> QED
  BY <1>2, <1>3, <1>4

LEMMA FontCall ==
  ASSUME Calling, GBeginFont
  PROVE  GInv'
<1>1. /\ IF Entered("FONT") THEN psdoc.agstate = 0 /\ psdoc'.agstate = 0 ELSE SameLevels
      /\ psdoc.life = "live"
  BY BeginDefinitionCall, CallingIs DEF Calling, GBeginFont
<1>2. PICK f \in Fonts : gfx' = IF Entered("FONT") THEN [Fresh EXCEPT !.font = f] ELSE Fresh
  BY DEF GBeginFont
<1>3. CASE Entered("FONT")
  <2>1. Keeping(gfx, gfx')
    BY <1>2, <1>3, FontSet, CallingIs
  <2>2. ~HasCanvas(psdoc)
    <3>1. psdoc' = PS_begin_font(psdoc)
      BY CallingIs, ReturnedIs DEF GBeginFont, BeginFont
    <3>2. HasCanvas(psdoc) => psdoc' = psdoc
      BY <3>1, DefinitionsRefused DEF Calling
    <3> QED
      BY <1>3, <3>2 DEF Entered
  <2>3. SameLevels
    BY <1>1, <1>3, <2>2 DEF SameLevels, CanvasStays
  <2> QED
    BY <1>1, <2>1, <2>3, BooksCall
<1>4. CASE ~Entered("FONT")
  BY <1>1, <1>2, <1>4, SameCall
<1> QED
  BY <1>3, <1>4

\* The calls that PSDocument has no action for.
LEMMA NoCall ==
  ASSUME Calling, Returns(psdoc)
  PROVE  SameLevels /\ psdoc.life = "live" /\ psdoc' = psdoc
  BY ReturnedIs, SamePSDoc, CallingIs

LEMMA ResourceCall ==
  ASSUME Calling, SetFont \/ MakeSpotColour \/ MakeShading
  PROVE  GInv'
<1>1. SameLevels /\ psdoc.life = "live"
  BY NoCall DEF SetFont, MakeSpotColour, MakeShading
<1>2. CASE SetFont
  <2>1. PICK f \in Fonts : gfx' = PS_setfont(gfx, psdoc, f)
    BY <1>2, CallingIs DEF SetFont
  <2>2. gfx' = gfx \/ gfx' = [gfx EXCEPT !.font = f]
    BY <2>1 DEF PS_setfont
  <2>3. Keeping(gfx, gfx')
    BY <2>2, FontSet, NothingKept, CallingIs
  <2> QED
    BY <1>1, <2>3, BooksCall
<1>3. CASE MakeSpotColour
  <2>1. PICK name \in SpotNames : gfx' = PS_makespotcolor(gfx, psdoc, name)
    BY <1>3, CallingIs DEF MakeSpotColour
  <2>2. gfx' = gfx \/ gfx' = [gfx EXCEPT !.spots = @ \cup {name}]
    BY <2>1 DEF PS_makespotcolor
  <2>3. Keeping(gfx, gfx')
    BY <2>2, SpotMade, NothingKept, CallingIs
  <2> QED
    BY <1>1, <2>3, BooksCall
<1>4. CASE MakeShading
  <2>1. gfx' = PS_shading(gfx, psdoc)
    BY <1>4, CallingIs DEF MakeShading
  <2>2. gfx' = gfx \/ gfx' = [gfx EXCEPT !.shading = TRUE]
    BY <2>1 DEF PS_shading
  <2>3. Keeping(gfx, gfx')
    BY <2>2, ShadingMade, NothingKept, CallingIs
  <2> QED
    BY <1>1, <2>3, BooksCall
<1> QED
  BY <1>2, <1>3, <1>4

\* Colours are set: off a canvas nothing is wanted, before and after.
LEMMA ColourCall ==
  ASSUME Calling, SetColour \/ SetGray
  PROVE  GInv'
<1>1. SameLevels /\ psdoc.life = "live" /\ psdoc' = psdoc
  BY NoCall DEF SetColour, SetGray
<1>2. ps_current_scope(psdoc) \notin DrawingScope \/ HasCanvas(psdoc)
  BY TopIsOn DEF Calling
<1>3. CASE SetColour
  <2>1. PICK type \in {{"fill"}, {"stroke"}, Kind}, colour \in Requests :
          MaySet(type, colour) /\ gfx' = PS_setcolor(gfx, psdoc, type, colour)
    BY <1>3, CallingIs DEF SetColour
  <2>2. /\ colour # NoSpace
        /\ colour.space = "pattern" => IsDefined(gfx, colour.c)
        /\ Bare(gfx, colour) => \A k \in type : Top(gfx.agstates).colour[k].space = "device"
    BY <2>1 DEF MaySet, GKeeps, Careful, Calling, Bare
  <2>3. CASE ps_current_scope(psdoc) \in DrawingScope
    <3>1. Recolours(gfx, PS_setcolor(gfx, psdoc, type, colour), psdoc)
      BY <2>2, <2>3, ColourSet, CallingIs
    <3>2. HasCanvas(psdoc')
      BY <1>1, <1>2, <2>3
    <3> QED
      BY <1>1, <2>1, <3>1, <3>2, KeptGraphics, CallingIs DEF Recolours, SameLevels, SameBooks, GInv
  <2>4. CASE ps_current_scope(psdoc) \notin DrawingScope
    <3>1. CASE ps_check_scope(psdoc, ColourScope)
      <4>1. ~HasCanvas(psdoc)
        <5>1. ps_current_scope(psdoc) \notin Painter
          BY <2>4, <3>1 DEF ps_check_scope, ColourScope, Painter, DrawingScope
        <5> QED
          BY <5>1, CanvasTop DEF Calling
      <4>2. Wishless(gfx)
        BY <4>1, CallingIs DEF GInv
      <4>3. Recolours(gfx, PS_setcolor(gfx, psdoc, type, colour), psdoc)
        BY <2>2, <4>2, ColourSet, CallingIs
      <4>4. gfx'.wanted = gfx.wanted
        BY <2>1, <2>4, <4>3 DEF Recolours
      <4>5. ~HasCanvas(psdoc') => Wishless(gfx')
        BY <4>2, <4>4 DEF Wishless
      <4> QED
        BY <1>1, <2>1, <4>3, <4>5, KeptGraphics, CallingIs
           DEF Recolours, SameLevels, SameBooks, GInv
    <3>2. CASE ~ps_check_scope(psdoc, ColourScope)
      <4>1. gfx' = Fresh
        BY <2>1, <3>2, CallingIs DEF PS_setcolor
      <4> QED
        BY <1>1, <4>1, SameCall
    <3> QED
      BY <3>1, <3>2
  <2> QED
    BY <2>3, <2>4
<1>4. CASE SetGray
  <2>1. PICK c \in Colours : gfx' = PS_setgray(WantGray(gfx, psdoc, Device(c)), psdoc, Device(c))
    BY <1>4, CallingIs DEF SetGray
  <2>2. Device(c) \in Requests
    BY DEF Requests
  <2>3. Device(c).space = "device"
    BY DEF Device, Colour
  <2>4. Recolours(gfx, gfx', psdoc)
    BY <2>1, <2>2, <2>3, GraySet, CallingIs DEF Calling
  <2>5. ~HasCanvas(psdoc') => Wishless(gfx')
    BY <1>1, <1>2, <2>4, CallingIs DEF Recolours, GInv, Wishless
  <2> QED
    BY <1>1, <2>4, <2>5, KeptGraphics, CallingIs DEF Recolours, SameLevels, SameBooks, GInv
<1> QED
  BY <1>3, <1>4

\* Calls that begin a canvas, end one, or are refused.
LEMMA CanvasCall ==
  ASSUME Calling, psdoc.life = "live",
         \/ gfx' = Fresh /\ SameLevels
         \/ Cleared(gfx, gfx') /\ psdoc.agstate = 0 /\ psdoc'.agstate = 0
  PROVE  GInv'
  BY SameCall, ClearedGraphics, CallingIs

LEMMA BeginCall ==
  ASSUME Calling,
         \/ GBeginPage \/ GBeginPattern
         \/ (BeginTemplate /\ GDefine("TEMPLATE")) \/ (BeginGlyph /\ GDefine("GLYPH"))
  PROVE  GInv'
<1>1. CASE GBeginPage
  <2>1. Entered("PAGE") /\ psdoc.agstate = 0 /\ psdoc'.agstate = 0 /\ psdoc.life = "live"
    BY <1>1, PageCanvas, CallingIs DEF Calling, GBeginPage
  <2>2. gfx' = OnCanvas(gfx, Device(Black))
    BY <1>1, <2>1, CallingIs DEF GBeginPage
  <2>3. Device(Black) \in AnyColour
    BY BlackAssumption, ColourIs DEF Device, Spaces, Values
  <2> QED
    BY <2>1, <2>2, <2>3, CanvasCleared, CanvasCall, CallingIs
<1>2. CASE GBeginPattern
  <2>1. /\ IF Entered("PATTERN") THEN psdoc.agstate = 0 /\ psdoc'.agstate = 0 ELSE SameLevels
        /\ psdoc.life = "live"
    BY <1>2, BeginDefinitionCall, CallingIs DEF Calling, GBeginPattern
  <2>2. CASE Entered("PATTERN")
    <3>1. PICK p \in Unmade, painttype \in {1, 2} :
            gfx' = [OnCanvas(Fresh, Inherited) EXCEPT !.painttype[p] = painttype, !.pattern = p]
      BY <1>2, <2>2 DEF GBeginPattern
    <3>2. p \in Patterns
      BY DEF Unmade
    <3>3. Cleared(gfx, gfx')
      BY <3>1, <3>2, PatternBegun, CallingIs
    <3> QED
      BY <2>1, <2>2, <3>3, CanvasCall
  <2>3. CASE ~Entered("PATTERN")
    BY <1>2, <2>1, <2>3, CanvasCall DEF GBeginPattern, SameGraphics
  <2> QED
    BY <2>2, <2>3
<1>3. CASE BeginTemplate /\ GDefine("TEMPLATE")
  <2>1. /\ IF Entered("TEMPLATE") THEN psdoc.agstate = 0 /\ psdoc'.agstate = 0 ELSE SameLevels
        /\ psdoc.life = "live"
    BY <1>3, BeginDefinitionCall, CallingIs DEF Calling
  <2>2. gfx' = IF Entered("TEMPLATE") THEN OnCanvas(gfx, Inherited) ELSE Fresh
    BY <1>3, CallingIs DEF GDefine
  <2> QED
    BY <2>1, <2>2, InheritedIs, CanvasCleared, CanvasCall, CallingIs
<1>4. CASE BeginGlyph /\ GDefine("GLYPH")
  <2>1. /\ IF Entered("GLYPH") THEN psdoc.agstate = 0 /\ psdoc'.agstate = 0 ELSE SameLevels
        /\ psdoc.life = "live"
    BY <1>4, GlyphCanvas, CallingIs DEF Calling
  <2>2. gfx' = IF Entered("GLYPH") THEN OnCanvas(gfx, Inherited) ELSE Fresh
    BY <1>4, CallingIs DEF GDefine
  <2> QED
    BY <2>1, <2>2, InheritedIs, CanvasCleared, CanvasCall, CallingIs
<1> QED
  BY <1>1, <1>2, <1>3, <1>4

LEMMA EndCall ==
  ASSUME Calling, GEndPattern \/ GEndDefinition
  PROVE  GInv'
<1>1. /\ psdoc' = psdoc \/ (psdoc.agstate = 0 /\ psdoc'.agstate = 0)
      /\ psdoc.life = "live"
  BY DefinitionEnded, CallingIs DEF Calling, GEndPattern, GEndDefinition
<1>2. CASE psdoc' = psdoc
  <2>1. gfx' = Fresh
    BY <1>2 DEF GEndPattern, GEndDefinition
  <2> QED
    BY <1>1, <1>2, <2>1, SamePSDoc, CanvasCall
<1>3. CASE psdoc' # psdoc
  <2>1. CASE GEndPattern
    <3>1. gfx' = [OnCanvas(gfx, Inherited)
                    EXCEPT !.defined = @ \cup {<<gfx.pattern, "document">>},
                           !.pattern = NoPattern]
      BY <1>3, <2>1, CallingIs DEF GEndPattern
    <3>2. gfx.pattern \in Patterns \cup {NoPattern}
      BY CallingIs DEF GraphicsRecords
    <3>3. Cleared(gfx, gfx')
      BY <3>1, <3>2, PatternEnded, CallingIs
    <3> QED
      BY <1>1, <1>3, <3>3, CanvasCall
  <2>2. CASE GEndDefinition
    <3>1. gfx' = OnCanvas(gfx, Inherited)
      BY <1>3, <2>2, CallingIs DEF GEndDefinition
    <3> QED
      BY <1>1, <1>3, <3>1, InheritedIs, CanvasCleared, CanvasCall, CallingIs
  <2> QED
    BY <2>1, <2>2
<1> QED
  BY <1>2, <1>3

LEMMA PageEndedCall ==
  ASSUME Calling, GEndPage \/ GCloseDocument
  PROVE  GInv'
<1>1. PICK d \in {PS_end_page(psdoc), PS_close(psdoc)} : Returns(d)
  BY DEF GEndPage, EndPage, GCloseDocument, CloseDocument
<1>2. psdoc' = d /\ psdoc.life = "live"
  BY <1>1, ReturnedIs, CallingIs
<1>3. IF psdoc.page_open /\ ~psdoc'.page_open
      THEN psdoc.agstate = 0 /\ psdoc'.agstate = 0
      ELSE SameLevels
  BY <1>2, PageCloses, CallingIs DEF Calling
<1>4. gfx' = PageEnded(gfx)
  BY CallingIs DEF GEndPage, GCloseDocument
<1>5. CASE psdoc.page_open /\ ~psdoc'.page_open
  <2>1. Cleared(gfx, gfx')
    BY <1>4, <1>5, PageForgotten, CallingIs DEF PageEnded
  <2> QED
    BY <1>2, <1>3, <1>5, <2>1, CanvasCall
<1>6. CASE ~(psdoc.page_open /\ ~psdoc'.page_open)
  <2>1. gfx' = Fresh
    BY <1>4, <1>6, CallingIs DEF PageEnded
  <2> QED
    BY <1>2, <1>3, <1>6, <2>1, CanvasCall
<1> QED
  BY <1>5, <1>6

\* Levels are saved and restored on a canvas only, which stays.
LEMMA LevelCall ==
  ASSUME Calling, GSave \/ GRestore
  PROVE  GInv'
<1>1. PICK n \in Nat : n = Height(gfx.agstates) /\ n >= 1
  BY StackTop, CallingIs DEF Typed
<1>2. psdoc.agstate \in Nat
  BY CallingIs, MaxGStateAssumption DEF PSDoc
<1>3. CASE GSave
  <2>1. psdoc' = PS_save(psdoc) /\ psdoc.life = "live" /\ gfx' = SaveLevel(gfx, psdoc)
    BY <1>3, ReturnedIs, CallingIs DEF GSave, Save
  <2>2. \/ psdoc' = psdoc
        \/ /\ psdoc'.agstate = psdoc.agstate + 1 /\ SameScopes(psdoc, psdoc')
           /\ ps_current_scope(psdoc) \in DrawingScope
    BY <2>1, SaveFrame, CallingIs
  <2>3. CASE psdoc' = psdoc
    <3>1. gfx' = Fresh
      BY <2>1, <2>3, CallingIs DEF SaveLevel
    <3> QED
      BY <2>1, <2>3, <3>1, SamePSDoc, SameCall
  <2>4. CASE /\ psdoc'.agstate = psdoc.agstate + 1 /\ SameScopes(psdoc, psdoc')
             /\ ps_current_scope(psdoc) \in DrawingScope
    <3>1. PS_save(psdoc).agstate # psdoc.agstate
      BY <1>2, <2>1, <2>4
    <3>2. /\ Coherent(gfx') /\ SameBooks(gfx, gfx')
          /\ Height(gfx'.agstates) = Height(gfx.agstates) + 1
      BY <2>1, <3>1, SaveLevelIs, LevelSaved, CallingIs
    <3>3. HasCanvas(psdoc')
      BY <2>4, TopIsOn, SameScopesIs DEF Calling
    <3>4. Height(gfx.agstates) = psdoc.agstate + 1
      BY <2>1, CallingIs DEF GInv
    <3>5. Height(gfx'.agstates) = psdoc'.agstate + 1
      BY <1>2, <2>4, <3>2, <3>4
    <3> QED
      BY <3>2, <3>3, <3>5, CallingIs DEF GInv, SameBooks
  <2> QED
    BY <2>2, <2>3, <2>4
<1>4. CASE GRestore
  <2>1. psdoc' = PS_restore(psdoc) /\ psdoc.life = "live" /\ gfx' = RestoreLevel(gfx, psdoc)
    BY <1>4, ReturnedIs, CallingIs DEF GRestore, Restore
  <2>2. \/ psdoc' = psdoc
        \/ /\ psdoc'.agstate = psdoc.agstate - 1 /\ psdoc.agstate > 0
           /\ SameScopes(psdoc, psdoc') /\ ps_current_scope(psdoc) \in DrawingScope
    BY <2>1, RestoreFrame, CallingIs
  <2>3. CASE psdoc' = psdoc
    <3>1. gfx' = Fresh
      BY <2>1, <2>3, CallingIs DEF RestoreLevel
    <3> QED
      BY <2>1, <2>3, <3>1, SamePSDoc, SameCall
  <2>4. CASE /\ psdoc'.agstate = psdoc.agstate - 1 /\ psdoc.agstate > 0
             /\ SameScopes(psdoc, psdoc') /\ ps_current_scope(psdoc) \in DrawingScope
    <3>1. PS_restore(psdoc).agstate # psdoc.agstate
      BY <1>2, <2>1, <2>4
    <3>2. Height(gfx.agstates) = psdoc.agstate + 1
      BY <2>1, CallingIs DEF GInv
    <3>3. Height(gfx.agstates) > 1
      BY <1>2, <2>4, <3>2
    <3>4. /\ Coherent(gfx') /\ SameBooks(gfx, gfx')
          /\ Height(gfx'.agstates) = Height(gfx.agstates) - 1
      BY <2>1, <3>1, <3>3, RestoreLevelIs, LevelRestored, CallingIs
    <3>5. HasCanvas(psdoc')
      BY <2>4, TopIsOn, SameScopesIs DEF Calling
    <3>6. Height(gfx'.agstates) = psdoc'.agstate + 1
      BY <1>2, <2>4, <3>2, <3>4
    <3> QED
      BY <3>4, <3>5, <3>6, CallingIs DEF GInv, SameBooks
  <2> QED
    BY <2>2, <2>3, <2>4
<1> QED
  BY <1>3, <1>4

\* Painting, by a path or by a text.
LEMMA PaintCall ==
  ASSUME Calling, GEndPath \/ GShowText
  PROVE  GInv'
<1>1. CASE GEndPath
  <2>1. SameLevels /\ psdoc.life = "live"
    BY <1>1, OtherCalls, CallingIs DEF Calling, GEndPath
  <2>2. \/ gfx' = gfx \/ \E k \in Kind : gfx' = PaintWith(gfx, psdoc, k)
        \/ gfx' = PS_fill_stroke(gfx, psdoc)
    BY <1>1, CallingIs DEF GEndPath, SameGraphics
  <2>3. Repaints(gfx, gfx')
    BY <2>2, RepaintsNothing, PathPainted, FilledAndStroked, CallingIs
  <2> QED
    BY <2>1, <2>3, RepaintedGraphics, CallingIs DEF SameLevels
<1>2. CASE GShowText
  <2>1. SameLevels /\ psdoc.life = "live"
    <3>1. CASE ShowText
      BY <3>1, OtherCalls, CallingIs DEF Calling
    <3>2. CASE Returns(psdoc)
      BY <3>2, NoCall
    <3> QED
      BY <1>2, <3>1, <3>2, TextCalled
  <2>2. PICK k \in Kind, lines \in Decorations : gfx' = ShowText2(gfx, psdoc, k, lines)
    BY <1>2, CallingIs DEF GShowText
  <2>3. ps_current_scope(psdoc) \in DrawingScope => psdoc.agstate < MaxGState - 1
    <3>1. pending < MaxGState - 1
      BY <1>2 DEF GShowText, NeedsLevel, Keeps, Calling, Orderly, AllRules
    <3>2. ps_current_scope(psdoc) \in DrawingScope => psdoc.agstate = pending
      BY LevelsFollow, TopIsOn, CallingIs DEF Calling
    <3> QED
      BY <3>1, <3>2
  <2>4. Repaints(gfx, gfx')
    BY <2>2, <2>3, TextShown, CallingIs DEF Calling
  <2> QED
    BY <2>1, <2>4, RepaintedGraphics, CallingIs DEF SameLevels
<1> QED
  BY <1>1, <1>2

\* Nothing is left of the PSDoc.
LEMMA FreedCall ==
  ASSUME OutInv, OutInv', GDeleteDocument
  PROVE  GInv'
<1>1. psdoc'.life = "freed"
  <2>1. psdoc' = PS_delete(psdoc)
    BY ReturnedIs DEF GDeleteDocument, DeleteDocument
  <2>2. PICK c \in {psdoc, PS_close(psdoc)} :
          PS_delete(psdoc) = IF c.life = "crashed" THEN c ELSE Freed(c)
    BY Deletes
  <2>3. psdoc' = Freed(c)
    <3>1. ~(psdoc'.life = "crashed")
      <4>1. Ready(psdoc') => psdoc'.life # "crashed"
        BY DEF Ready, SteadyDocs, Writable
      <4>2. Rests(psdoc') => psdoc'.life # "crashed"
        BY DEF Rests, Idle
      <4> QED
        BY <4>1, <4>2 DEF OutInv
    <3> QED
      BY <2>1, <2>2, <3>1
  <2>4. psdoc' \in PSDoc
    BY DEF OutInv, IInv, Good
  <2> QED
    BY <2>3, <2>4 DEF Freed, PSDoc
<1>2. gfx' = NewGraphics
  BY <1>1 DEF GDeleteDocument
<1> QED
  BY <1>1, <1>2, NewIsCoherent DEF GInv

\* While no document is open every call but the opening one is refused, or
\* frees the PSDoc.
LEMMA RestingGraphics ==
  ASSUME Orderly, GraphicsInv, Around', Rests(psdoc), GNext, opens' = opens, ~GDeleteDocument
  PROVE  GInv'
<1>1. GInv /\ OutInv /\ OutInv' /\ IInv /\ Fresh = gfx /\ Typed(gfx)
  BY FreshIs DEF GraphicsInv, Around, GInv, Coherent, OutInv
<1>2. ~OpenDocument
  <2>1. opens \in Nat
    BY <1>1 DEF IInv, Counted
  <2> QED
    BY <2>1 DEF OpenDocument
<1>3. psdoc' \in {psdoc, Freed(psdoc)}
  <2>1. CASE Next
    BY <1>1, <1>2, <2>1, RestingCall DEF IInv
  <2>2. CASE UNCHANGED vars
    BY <2>2 DEF vars
  <2> QED
    BY <2>1, <2>2, DocumentCalled
<1>4. Rests(psdoc') /\ (psdoc'.page_open <=> psdoc.page_open)
  <2>1. psdoc \in PSDoc /\ Good(psdoc)
    BY <1>1 DEF IInv, Good
  <2>2. Freed(psdoc).page_open <=> psdoc.page_open
    BY <2>1 DEF Freed, PSDoc
  <2> QED
    BY <1>3, <2>1, <2>2, FreedIs
<1>5. psdoc.agstate = 0 /\ psdoc'.agstate = 0 /\ ~HasCanvas(psdoc) /\ ~HasCanvas(psdoc')
  BY <1>4, RestsIs
<1>6. \A S : S \subseteq Scope \ {"OBJECT"} =>
        ~ps_check_scope(psdoc, S) /\ ~ps_check_scope(psdoc', S)
  BY <1>4, RestsIs
<1>7. /\ ~ps_check_scope(psdoc, DrawingScope) /\ ~ps_check_scope(psdoc, ColourScope)
      /\ ~ps_check_scope(psdoc, {"PAGE"}) /\ ~ps_check_scope(psdoc, {"PATH"})
      /\ ~ps_check_scope(psdoc, {"DOCUMENT", "PAGE"})
      /\ \A s \in {"PAGE", "TEMPLATE", "PATTERN", "FONT", "GLYPH"} :
           ~ps_check_scope(psdoc, {s}) /\ ~ps_check_scope(psdoc', {s})
  BY <1>6 DEF DrawingScope, ColourScope, Scope
<1>8. gfx' = Fresh
  <2>1. CASE GBeginPage \/ GBeginPattern \/ GBeginFont
             \/ (BeginTemplate /\ GDefine("TEMPLATE")) \/ (BeginGlyph /\ GDefine("GLYPH"))
    BY <1>7, <2>1 DEF GBeginPage, GBeginPattern, GBeginFont, GDefine, Entered, SameGraphics
  <2>2. CASE GEndPage \/ GCloseDocument
    BY <1>4, <2>2 DEF GEndPage, GCloseDocument, PageEnded
  <2>3. CASE GEndPattern \/ GEndDefinition
    <3>1. PS_end_pattern(psdoc) = psdoc /\ PS_end_template(psdoc) = psdoc
          /\ PS_end_glyph(psdoc) = psdoc
      BY <1>7 DEF PS_end_pattern, PS_end_template, PS_end_glyph, EndDefinition
    <3>2. Returns(psdoc)
      BY <2>3, <3>1 DEF GEndPattern, GEndDefinition, EndPattern, EndTemplate, EndGlyph
    <3>3. psdoc' = psdoc
      BY <1>1, <3>2, ReturnedIs
    <3> QED
      BY <2>3, <3>3 DEF GEndPattern, GEndDefinition
  <2>4. CASE GShadingPattern \/ GOther
    BY <1>7, <2>4 DEF GShadingPattern, GOther, SameGraphics
  <2>5. CASE GSave \/ GRestore
    <3>1. PS_save(psdoc) = psdoc /\ PS_restore(psdoc) = psdoc
      BY <1>7 DEF PS_save, PS_restore
    <3> QED
      BY <2>5, <3>1 DEF GSave, GRestore, SaveLevel, RestoreLevel
  <2>6. CASE GShowText
    BY <1>7, <2>6 DEF GShowText, ShowText2
  <2>7. CASE GEndPath
    BY <1>7, <2>7 DEF GEndPath, SameGraphics, PaintWith, PS_fill_stroke
  <2>8. CASE SetColour \/ SetGray
    BY <1>7, <2>8 DEF SetColour, PS_setcolor, SetGray, PS_setgray, WantGray
  <2>9. CASE SetFont \/ MakeSpotColour \/ MakeShading
    BY <1>7, <2>9 DEF SetFont, PS_setfont, MakeSpotColour, PS_makespotcolor, MakeShading, PS_shading
  <2> QED
    BY <2>1, <2>2, <2>3, <2>4, <2>5, <2>6, <2>7, <2>8, <2>9 DEF GNext
<1>9. gfx' = gfx
  BY <1>1, <1>8
<1>10. psdoc.life = "live"
  <2>1. ASSUME NEW d, Returns(d)
        PROVE  psdoc.life = "live"
    BY <2>1 DEF Returns
  <2> QED
    BY <1>2, <2>1 DEF GNext, GBeginPage, BeginPage, GEndPage, EndPage, GCloseDocument, CloseDocument,
       BeginTemplate, BeginGlyph, GBeginPattern, BeginPattern, GEndPattern, EndPattern,
       GShadingPattern, GBeginFont, BeginFont, GEndDefinition, EndTemplate, EndGlyph,
       GOther, EndFont, FindFont, OpenImage, IncludeFile, ConstructPath, PlaceImage,
       GSave, Save, GRestore, Restore, GShowText, GEndPath, EndPath,
       SetColour, SetGray, SetFont, MakeSpotColour, MakeShading
<1> QED
  BY <1>1, <1>5, <1>9, <1>10 DEF GInv, Wishless

\* A document is opened with the colours of the PSDoc as they are.
LEMMA OpenKeepsLevel ==
  ASSUME NEW d \in PSDoc
  PROVE  /\ PS_open_fp(d, "caller").agstate = d.agstate
         /\ PS_open_file(d).agstate = d.agstate
         /\ \A w : PS_open_mem(d, w).agstate = d.agstate
  BY DEF PSDoc, PS_open_fp, PS_open_file, PS_open_mem, OpenStream, ps_enter_scope

LEMMA OpeningGraphics ==
  ASSUME GraphicsInv, Around', Rests(psdoc), OpenDocument, gfx' = Fresh
  PROVE  GInv'
<1>1. GInv /\ OutInv /\ OutInv' /\ Fresh = gfx
  BY FreshIs DEF GraphicsInv, Around
<1>2. psdoc \in PSDoc
  BY <1>1 DEF OutInv, IInv, Good
<1>3. PICK d : Returns(d) /\ d.agstate = psdoc.agstate
  BY <1>2, OpenKeepsLevel DEF OpenDocument
<1>4. psdoc' = d /\ psdoc.life = "live"
  BY <1>1, <1>3, ReturnedIs
<1>5. ~HasCanvas(psdoc)
  BY RestsIs
<1>6. Wishless(gfx)
  BY <1>1, <1>5 DEF GInv
<1> QED
  BY <1>1, <1>3, <1>4, <1>6 DEF GInv

LEMMA GraphicsCall ==
  ASSUME Orderly, Careful, MaxOpens <= 1, GraphicsInv, Around', [GNext]_gvars
  PROVE  GInv'
<1>1. CASE UNCHANGED gvars
  <2>1. gfx' = gfx /\ psdoc' = psdoc
    BY <1>1 DEF gvars
  <2> QED
    BY <2>1 DEF GraphicsInv, GInv
<1>2. CASE GNext /\ GDeleteDocument
  BY <1>2, FreedCall DEF GraphicsInv, Around
<1>3. CASE GNext /\ ~GDeleteDocument /\ Ready(psdoc)
  <2>1. Calling
    BY <1>3 DEF Calling
  <2>2. ~OpenDocument
    <3>1. opens \in 0..MaxOpens /\ (opens = 0 => Rests(psdoc))
      BY DEF GraphicsInv, Around, OutInv, IInv, Counted
    <3>2. ~Rests(psdoc)
      BY <1>3 DEF Ready, SteadyDocs, Writable, Rests, Idle
    <3> QED
      BY <3>1, <3>2, BoundsAssumption DEF OpenDocument
  <2> QED
    BY <1>3, <2>1, <2>2, BeginCall, EndCall, PageEndedCall, ShadingCall, FontCall, OtherCall,
       LevelCall, PaintCall, ColourCall, ResourceCall DEF GNext
<1>4. CASE GNext /\ ~GDeleteDocument /\ Rests(psdoc)
  <2>1. opens' = opens \/ (GOther /\ OpenDocument)
    BY <1>4 DEF GNext, GBeginPage, BeginPage, GEndPage, EndPage, GCloseDocument, CloseDocument,
       BeginTemplate, BeginGlyph, GBeginPattern, BeginPattern, GEndPattern, EndPattern,
       GShadingPattern, GBeginFont, BeginFont, GEndDefinition, EndTemplate, EndGlyph,
       GOther, EndFont, FindFont, OpenImage, IncludeFile, ConstructPath, PlaceImage,
       GSave, Save, GRestore, Restore, GShowText, GEndPath, EndPath,
       SetColour, SetGray, SetFont, MakeSpotColour, MakeShading
  <2>2. CASE opens' = opens
    BY <1>4, <2>2, RestingGraphics
  <2>3. CASE GOther /\ OpenDocument
    BY <1>4, <2>3, OpeningGraphics DEF GOther, SameGraphics
  <2> QED
    BY <2>1, <2>2, <2>3
<1> QED
  BY <1>1, <1>2, <1>3, <1>4 DEF GraphicsInv, Around, OutInv

----------------------------------------------------------------------------
(* The theorems.                                                           *)

LEMMA GraphicsStart ==
  ASSUME GInit
  PROVE  GInv
<1>1. psdoc.agstate = 0 /\ gfx = NewGraphics
  BY DEF GInit, Init, PS_new2
<1> QED
  BY <1>1, NewIsCoherent DEF GInv

\* The invariant: on every level of every canvas the colours remembered are the
\* ones asked for, and those not to be written are the interpreter's.
THEOREM ColoursAgree ==
  ASSUME Orderly, Careful, MaxOpens <= 1
  PROVE  GSpec => []GInv
<1>1. GInit => GInv
  BY GraphicsStart
<1>2. GInv /\ OutInv /\ PageAgrees(psdoc) /\ OutInv' /\ PageAgrees(psdoc)' /\ [GNext]_gvars => GInv'
  BY GraphicsCall DEF GraphicsInv, Around
<1>3. Spec => []OutInv
  BY OutputAgrees
<1>4. Spec => [](opens <= 1 => PageAgrees(psdoc))
  <2>1. MaxScopes >= 3
    BY MaxScopesAssumption DEF Orderly
  <2> QED
    BY <2>1, PagesAgree
<1>5. OutInv => opens <= 1
  BY BoundsAssumption DEF OutInv, IInv, Counted
<1> QED
  BY <1>1, <1>2, <1>3, <1>4, <1>5, DocumentWithGraphics, PTL DEF GSpec

\* On every canvas and level, the colour that pslib does not write is the one
\* the interpreter has.
THEOREM FlagsAreRight ==
  ASSUME Orderly, Careful, MaxOpens <= 1
  PROVE  GSpec => []FlagsAgree
<1>1. GInv => FlagsAgree
  BY TopIsRight DEF GInv, Right, UpToDate, FlagsAgree
<1> QED
  BY <1>1, ColoursAgree, PTL

\* Whatever is painted has the colour the caller has asked for.
THEOREM PaintIsAsAsked ==
  ASSUME Orderly, Careful, MaxOpens <= 1
  PROVE  GSpec => []PaintAsAsked
<1>1. GInv => PaintAsAsked
  BY DEF GInv, PaintAsAsked
<1> QED
  BY <1>1, ColoursAgree, PTL

=============================================================================
