----------------------------- MODULE PSGraphics -----------------------------
(***************************************************************************)
(* Colours, spot colours, patterns and the current font: what pslib        *)
(* remembers of the graphics state of the PostScript interpreter, and what *)
(* the interpreter really has.                                             *)
(*                                                                         *)
(* pslib writes a colour only when it believes the interpreter has another *)
(* one (strokecolorinvalid, fillcolorinvalid), and shows text whenever it  *)
(* believes a font is set (psdoc->font).  The interpreter goes by what it  *)
(* reads: gsave and grestore, the save and restore around every page, and  *)
(* the names of patterns that have been defined and are not undone.        *)
(*                                                                         *)
(* The module composes with PSDocument: every action below is an action of *)
(* it together with what the same call does to colours and fonts.          *)
(***************************************************************************)
EXTENDS PSDocument

CONSTANTS
  Colours,        \* the gray, rgb and cmyk colours the caller sets
  Black,          \* the one a page begins with
  SpotNames,      \* the names of the spot colours the caller makes
  Patterns,       \* bound: the ids of patterns, of shading patterns too
  Fonts,          \* the fonts the caller has found
  Decorations,    \* the combinations of underline, overline and strikeout
  GraphicsRules   \* what the caller takes care of here, see GKeeps

ASSUME BlackAssumption == Black \in Colours
ASSUME DecorationsAssumption == Decorations \subseteq SUBSET Decoration
ASSUME GraphicsRulesAssumption ==
  GraphicsRules \subseteq {"setgray_recoloured", "colourspaces", "defined_here", "over_device"}

VARIABLE gfx

gvars == <<psdoc, opens, pending, gfx>>

Kind == {"fill", "stroke"}

\* A colour of a colour space: c is a colour, the name of a spot colour or
\* the id of a pattern.  A pattern of PaintType 2 has no colour of its own and
\* is painted over the one set before it: its space and the colour itself.
Colour(space, c) == [space |-> space, c |-> c, over |-> <<>>]
Over(colour) == <<colour.space, colour.c>>
Device(c) == Colour("device", c)

\* No colour: none asked for, none of its own, none known to PS_setcolor, and
\* what is left when the interpreter has been given a space and no colour in
\* it, or a name it does not know.
Unset == Colour("unset", "")
Inherited == Colour("inherited", "")
NoSpace == Colour("none", "")
NotSet == Colour("not set", "")

NoFont == "no font"
NoPattern == "no pattern"

Canvas == {"PAGE", "TEMPLATE", "PATTERN", "GLYPH"}

Top(s) == s[Len(s)]
SetTop(s, x) == [s EXCEPT ![Len(s)] = x]
Push(s) == Append(s, Top(s))
Pop(s) == IF Len(s) > 1 THEN SubSeq(s, 1, Len(s) - 1) ELSE s

----------------------------------------------------------------------------
(* The record gfx:                                                         *)
(*   agstates   psdoc->agstates[0..agstate]: the colours and whether each  *)
(*              has still to be written                                    *)
(*   font       psdoc->font                                                *)
(*   painttype  the patterns made, and their PaintType; 0 for those not    *)
(*   pattern    psdoc->pattern while it is defined                         *)
(*   spots      psdoc->spotcolors                                          *)
(*   shading    whether psdoc->shadings is not empty                       *)
(*   defined    the patterns the interpreter knows where the output has    *)
(*              got to, and where each was defined: "page" or "document"   *)
(*   interp     the interpreter's colour, a level for each gsave of the    *)
(*              canvas being written                                       *)
(*   wanted     the colours the caller has asked for on this canvas, saved *)
(*              and restored with it                                       *)
(*   mark       what the last call painted with another colour than the    *)
(*              one asked for: the colour used and the colour wanted       *)

NewGraphics ==
  [agstates |-> <<[colour |-> [k \in Kind |-> Device(Black)],
                   invalid |-> [k \in Kind |-> FALSE]]>>,
   font |-> NoFont,
   painttype |-> [p \in Patterns |-> 0],
   pattern |-> NoPattern,
   spots |-> {},
   shading |-> FALSE,
   defined |-> {},
   interp |-> <<Inherited>>,
   wanted |-> <<[k \in Kind |-> Unset]>>,
   mark |-> {}]

\* A canvas begins with what its interpreter begins with, and with no wishes.
OnCanvas(g, colour) ==
  [g EXCEPT !.interp = <<colour>>, !.wanted = <<[k \in Kind |-> Unset]>>]

IsDefined(g, p) == \E where \in {"page", "document"} : <<p, where>> \in g.defined

\* What the interpreter's colour becomes when the switch in ps_setcolor writes
\* this one.  setpattern and setcolor execute the name of the pattern.  Over a
\* spot colour the colour space is set, the pattern is not; over nothing the
\* error comes after the beginning of an array has been written.
Written(g, colour) ==
  CASE colour.space \in {"device", "spot"} -> colour
    [] colour.space = "pattern" /\ ~IsDefined(g, colour.c) -> NotSet
    [] colour.space = "pattern" /\ g.painttype[colour.c] = 1 -> colour
    [] colour.space = "pattern" /\ g.painttype[colour.c] = 2 ->
         IF colour.over # <<>> /\ colour.over[1] = "device" THEN colour ELSE NotSet
    [] OTHER -> Top(g.interp)

Write(g, colour) == [g EXCEPT !.interp = SetTop(@, Written(g, colour))]

\* ps_setcolor writes nothing in a pattern of PaintType 2, but asks for it by
\* the current scope: in a path it is not there.
Uncoloured(g, d) == ps_check_scope(d, {"PATTERN"}) /\ g.painttype[g.pattern] = 2

Other(k) == IF k = "fill" THEN "stroke" ELSE "fill"

\* Mutant: the other colour is not marked as overwritten.
SetColorForgetsOther(g, d, k) ==
  LET a == Top(g.agstates)
      written == [g EXCEPT !.agstates =
                    SetTop(@, [a EXCEPT !.invalid = [j \in Kind |-> FALSE]])]
  IN  IF Uncoloured(g, d) \/ ~a.invalid[k]
      THEN g
      ELSE Write(written, a.colour[k])

ps_setcolor(g, d, k) ==
  LET a == Top(g.agstates)
      written == [g EXCEPT !.agstates =
                    SetTop(@, [a EXCEPT !.invalid = [j \in Kind |-> j = Other(k)]])]
  IN  IF Uncoloured(g, d) \/ ~a.invalid[k]
      THEN g
      ELSE Write(written, a.colour[k])

Same(used, wanted) ==
  /\ used.space = wanted.space /\ used.c = wanted.c
  /\ wanted.over # <<>> => used.over = wanted.over

\* Something is painted with what the interpreter has at this moment.
Painted(g, k) ==
  LET m == [used |-> Top(g.interp), wanted |-> Top(g.wanted)[k]]
  IN  IF m.wanted = Unset \/ Same(m.used, m.wanted)
      THEN g
      ELSE [g EXCEPT !.mark = @ \cup {m}]

\* PS_save and PS_restore as far as they are accepted.
SaveLevel(g, d) ==
  IF PS_save(d).agstate = d.agstate
  THEN g
  ELSE [g EXCEPT !.agstates = Push(@), !.interp = Push(@), !.wanted = Push(@)]

RestoreLevel(g, d) ==
  IF PS_restore(d).agstate = d.agstate
  THEN g
  ELSE [g EXCEPT !.agstates = Pop(@), !.interp = Pop(@), !.wanted = Pop(@)]

----------------------------------------------------------------------------
(* Setting colours and fonts.                                              *)

\* Mutant: the space of the colour before is asked for when it is overwritten.
BecomesBare(g, colour, before) == colour

\* The colour set, when there was another before.
Becomes(g, colour, before) ==
  IF colour.space = "pattern" /\ g.painttype[colour.c] = 2
     /\ before.space \in {"device", "spot"}
  THEN [colour EXCEPT !.over = Over(before)]
  ELSE colour

\* What the caller asks for: a pattern without a colour of its own is painted
\* over the last colour asked for, if one was.
Asked(g, colour, before) ==
  IF colour.space = "pattern" /\ g.painttype[colour.c] = 2 /\ before.space = "pattern"
  THEN [colour EXCEPT !.over = before.over]
  ELSE Becomes(g, colour, before)

AskFor(g, d, type, colour) ==
  IF colour # NoSpace /\ ps_check_scope(d, DrawingScope)
  THEN [g EXCEPT !.wanted = SetTop(@,
         [k \in Kind |-> IF k \in type THEN Asked(g, colour, Top(g.wanted)[k])
                         ELSE Top(g.wanted)[k]])]
  ELSE g

\* What PS_setcolor knows: spot colours and patterns by their ids.
Exists(g, colour) ==
  /\ colour.space = "spot" => colour.c \in g.spots
  /\ colour.space = "pattern" => g.painttype[colour.c] # 0

ColourScope == {"PROLOG", "DOCUMENT"} \cup DrawingScope

\* type: the kinds the call names.  A colour space it does not know is an
\* error after which the call goes on with none.
\* Mutant: a colour set again before it is used counts as written.
SetColorOnce(g, d, type, colour) ==
  LET a == Top(g.agstates)
      set == [colour |-> [k \in Kind |-> IF k \in type THEN Becomes(g, colour, a.colour[k])
                                         ELSE a.colour[k]],
              invalid |-> [k \in Kind |-> (k \in type) # a.invalid[k]]]
  IN  IF ps_check_scope(d, ColourScope) /\ Exists(g, colour)
      THEN AskFor([g EXCEPT !.agstates = SetTop(@, set)], d, type, colour)
      ELSE g

PS_setcolor(g, d, type, colour) ==
  LET a == Top(g.agstates)
      set == [colour |-> [k \in Kind |-> IF k \in type THEN Becomes(g, colour, a.colour[k])
                                         ELSE a.colour[k]],
              invalid |-> [k \in Kind |-> k \in type \/ a.invalid[k]]]
  IN  IF ps_check_scope(d, ColourScope) /\ Exists(g, colour)
      THEN AskFor([g EXCEPT !.agstates = SetTop(@, set)], d, type, colour)
      ELSE g

\* Writes setgray, and leaves what pslib remembers alone.
PS_setgray(g, d, colour) == IF ps_check_scope(d, {"PAGE"}) THEN Write(g, colour) ELSE g

PS_setfont(g, d, f) == IF ps_check_scope(d, DrawingScope) THEN [g EXCEPT !.font = f] ELSE g

\* A spot colour takes its colour from the fill colour, which must have one.
PS_makespotcolor(g, d, name) ==
  IF ps_check_scope(d, ColourScope) /\ Top(g.agstates).colour["fill"].space = "device"
  THEN [g EXCEPT !.spots = @ \cup {name}]
  ELSE g

\* A shading goes from the fill colour, which must not be a pattern, to one of
\* the same colour space.
PS_shading(g, d) ==
  IF /\ ps_check_scope(d, {"DOCUMENT", "PAGE"})
     /\ Top(g.agstates).colour["fill"].space # "pattern"
  THEN [g EXCEPT !.shading = TRUE]
  ELSE g

----------------------------------------------------------------------------
(* Painting.                                                               *)

\* PS_stroke and PS_closepath_stroke, PS_fill.
PaintWith(g, d, k) ==
  IF ps_check_scope(d, {"PATH"}) THEN Painted(ps_setcolor(g, d, k), k) ELSE g

\* Fills between gsave and grestore, then strokes.
PS_fill_stroke(g, d) ==
  LET saved == [g EXCEPT !.interp = Push(@)]
      filled == Painted(ps_setcolor(saved, d, "fill"), "fill")
  IN  IF ps_check_scope(d, {"PATH"})
      THEN PaintWith([filled EXCEPT !.interp = Pop(@)], d, "stroke")
      ELSE g

\* One line of decoration: PS_save, a path of its own, PS_stroke, PS_restore.
DecorateText(g, d) ==
  LET s == PS_save(d)
  IN  RestoreLevel(PaintWith(SaveLevel(g, d), PS_moveto(s), "stroke"), s)

\* textrendering decides which colour is made current: fill for 0, 2, 4 and 6,
\* stroke for the others.
ps_render_text(g, d, k) ==
  LET shown == ps_setcolor(g, d, k)
  IN  IF Uncoloured(g, d) THEN shown ELSE Painted(shown, k)

\* The text, and the decorations that are on.
ShowText2(g, d, k, lines) ==
  LET t == ps_render_text(g, d, k)
      u == IF "underline" \in lines THEN DecorateText(t, d) ELSE t
      du == IF "underline" \in lines THEN DrawLine(d) ELSE d
      o == IF "overline" \in lines THEN DecorateText(u, du) ELSE u
      do == IF "overline" \in lines THEN DrawLine(du) ELSE du
      s == IF "strikeout" \in lines THEN DecorateText(o, do) ELSE o
  IN  IF ps_check_scope(d, DrawingScope) /\ g.font # NoFont THEN s ELSE g

----------------------------------------------------------------------------
(* The calls.                                                              *)

GKeeps(rule, condition) == rule \in GraphicsRules => condition

\* The caller's rules:
\*   colourspaces        it names only colour spaces there are
\*   setgray_recoloured  it expects no colour after PS_setgray until it has
\*                       called PS_setcolor
\*   defined_here        it sets a pattern only after PS_end_pattern, and one
\*                       made on a page only on that page
\*   over_device         it sets a pattern of PaintType 2 only right after a
\*                       gray, rgb or cmyk colour
MaySet(type, colour) ==
  /\ GKeeps("colourspaces", colour # NoSpace)
  /\ colour.space = "pattern" => GKeeps("defined_here", IsDefined(gfx, colour.c))
  /\ colour.space = "pattern" /\ gfx.painttype[colour.c] = 2
       => GKeeps("over_device",
                 \A k \in type : Top(gfx.agstates).colour[k].space = "device")

WantGray(g, d, colour) ==
  LET c == IF "setgray_recoloured" \in GraphicsRules THEN Unset ELSE colour
  IN  IF ps_check_scope(d, {"PAGE"})
      THEN [g EXCEPT !.wanted = SetTop(@, [k \in Kind |-> c])]
      ELSE g

Fresh == [gfx EXCEPT !.mark = {}]

SameGraphics == gfx' = Fresh

Entered(scope) == ps_check_scope(psdoc', {scope}) /\ ~ps_check_scope(psdoc, {scope})

GBeginPage ==
  /\ BeginPage
  /\ gfx' = IF Entered("PAGE") THEN OnCanvas(Fresh, Device(Black)) ELSE Fresh

\* The font is forgotten with the page; what was defined on it is undone.
PageEnded(g) ==
  IF psdoc.page_open /\ ~psdoc'.page_open
  THEN OnCanvas([g EXCEPT !.font = NoFont,
                          !.defined = {def \in @ : def[2] = "document"}], Inherited)
  ELSE g

GEndPage == EndPage /\ gfx' = PageEnded(Fresh)

GCloseDocument == CloseDocument /\ gfx' = PageEnded(Fresh)

GDefine(scope) == gfx' = IF Entered(scope) THEN OnCanvas(Fresh, Inherited) ELSE Fresh

Unmade == {p \in Patterns : gfx.painttype[p] = 0}

GBeginPattern ==
  /\ BeginPattern
  /\ IF Entered("PATTERN")
     THEN \E p \in Unmade, painttype \in {1, 2} :
            gfx' = [OnCanvas(Fresh, Inherited) EXCEPT !.painttype[p] = painttype, !.pattern = p]
     ELSE SameGraphics

\* What was painted on a canvas does not matter outside it.
GEndPattern ==
  /\ EndPattern
  /\ gfx' = IF psdoc' = psdoc
            THEN Fresh
            ELSE [OnCanvas(Fresh, Inherited)
                    EXCEPT !.defined = @ \cup {<<gfx.pattern, "document">>},
                           !.pattern = NoPattern]

\* A pattern of PaintType 1 with no definition to end.
GShadingPattern ==
  /\ Keeps("header_first", psdoc.beginprologwritten)
  /\ \E found \in {FALSE, gfx.shading} :
       /\ Returns(PS_shading_pattern(psdoc, found))
       /\ IF ps_check_scope(psdoc, {"DOCUMENT", "PAGE"}) /\ found
          THEN \E p \in Unmade :
                 LET where == IF psdoc.page_open THEN "page" ELSE "document"
                 IN  gfx' = [Fresh EXCEPT !.painttype[p] = 1,
                                          !.defined = @ \cup {<<p, where>>}]
          ELSE SameGraphics
  /\ UNCHANGED <<opens, pending>>

\* PS_begin_font makes the font it begins psdoc->font.
GBeginFont ==
  /\ BeginFont
  /\ \E f \in Fonts : gfx' = IF Entered("FONT") THEN [Fresh EXCEPT !.font = f] ELSE Fresh

GEndDefinition ==
  /\ EndTemplate \/ EndGlyph
  /\ gfx' = IF psdoc' = psdoc THEN Fresh ELSE OnCanvas(Fresh, Inherited)

\* Nothing is left of a PSDoc that has been freed.
GDeleteDocument ==
  /\ DeleteDocument
  /\ gfx' = IF psdoc'.life = "freed" THEN NewGraphics ELSE Fresh

GOther ==
  /\ \/ OpenDocument \/ EndFont
     \/ FindFont \/ OpenImage \/ IncludeFile \/ ConstructPath \/ PlaceImage
  /\ SameGraphics

GSave == Save /\ gfx' = SaveLevel(Fresh, psdoc)

GRestore == Restore /\ gfx' = RestoreLevel(Fresh, psdoc)

\* psdoc->font is NULL until a font has been set: the text is refused.
GShowText ==
  /\ NeedsLevel
  /\ \E k \in Kind, lines \in Decorations :
       /\ Returns(IF gfx.font = NoFont THEN psdoc ELSE PS_show2(psdoc, lines))
       /\ gfx' = ShowText2(Fresh, psdoc, k, lines)
  /\ UNCHANGED <<opens, pending>>

Requests ==
  {Device(c) : c \in Colours} \cup {Colour("spot", name) : name \in SpotNames}
    \cup {Colour("pattern", p) : p \in Patterns} \cup {NoSpace}

SetColour ==
  /\ \E type \in {{"fill"}, {"stroke"}, Kind}, colour \in Requests :
       /\ MaySet(type, colour)
       /\ gfx' = PS_setcolor(Fresh, psdoc, type, colour)
  /\ Returns(psdoc)
  /\ UNCHANGED <<opens, pending>>

SetGray ==
  /\ \E c \in Colours :
       gfx' = PS_setgray(WantGray(Fresh, psdoc, Device(c)), psdoc, Device(c))
  /\ Returns(psdoc)
  /\ UNCHANGED <<opens, pending>>

MakeSpotColour ==
  /\ \E name \in SpotNames : gfx' = PS_makespotcolor(Fresh, psdoc, name)
  /\ Returns(psdoc)
  /\ UNCHANGED <<opens, pending>>

MakeShading ==
  /\ gfx' = PS_shading(Fresh, psdoc)
  /\ Returns(psdoc)
  /\ UNCHANGED <<opens, pending>>

SetFont ==
  /\ \E f \in Fonts : gfx' = PS_setfont(Fresh, psdoc, f)
  /\ Returns(psdoc)
  /\ UNCHANGED <<opens, pending>>

\* PS_clip ends a path and paints nothing.
GEndPath ==
  /\ EndPath
  /\ \/ SameGraphics
     \/ \E k \in Kind : gfx' = PaintWith(Fresh, psdoc, k)
     \/ gfx' = PS_fill_stroke(Fresh, psdoc)

GInit == Init /\ gfx = NewGraphics

GNext ==
  \/ GBeginPage \/ GEndPage \/ GCloseDocument \/ GDeleteDocument
  \/ (BeginTemplate /\ GDefine("TEMPLATE"))
  \/ (BeginGlyph /\ GDefine("GLYPH"))
  \/ GBeginPattern \/ GEndPattern \/ GShadingPattern \/ GBeginFont \/ GEndDefinition
  \/ GOther
  \/ GSave \/ GRestore \/ GShowText \/ GEndPath
  \/ SetColour \/ SetGray \/ SetFont \/ MakeSpotColour \/ MakeShading

GSpec == GInit /\ [][GNext]_gvars

----------------------------------------------------------------------------
(* Properties.                                                             *)

\* The cached colours: what is painted on a canvas has the colour the caller
\* has last asked for on it, at this level of PS_save, however the writing of
\* fill and stroke colours was put off, saved and restored in between; a
\* pattern without a colour is painted over the one asked for before it.
PaintAsAsked == gfx.mark = {}

\* On every canvas and level: the colour that need not be written is the one
\* the interpreter has, for each kind of colour the caller has set there.
FlagsAgree ==
  \A k \in Kind :
    Top(gfx.wanted)[k] # Unset /\ ~Top(gfx.agstates).invalid[k]
      => Top(gfx.interp) = Top(gfx.agstates).colour[k]
=============================================================================
