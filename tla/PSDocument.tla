----------------------------- MODULE PSDocument -----------------------------
(***************************************************************************)
(* The life of one PSDoc: the scope stack every API call is checked        *)
(* against, the header that is written piecemeal by whichever call comes   *)
(* first, pages, templates, patterns and Type 3 fonts, the levels of       *)
(* PS_save/PS_restore, and the output the document is written to.          *)
(*                                                                         *)
(* The library is sequential: an action is one call of the API with every  *)
(* function it calls.  A PSDoc is a record, and an operator named after a  *)
(* function of the library maps the record the function is called with to  *)
(* the record it leaves behind; a refused call (ps_error and return)       *)
(* leaves the record it was given.                                         *)
(*                                                                         *)
(* The fields phase and nest are not in the struct: they are the structure *)
(* of the PostScript that has been written, as its reader sees it.         *)
(***************************************************************************)
EXTENDS Integers, Sequences

CONSTANTS
  MaxScopes,    \* MAX_SCOPES: the length of psdoc->scopes
  MaxGState,    \* PS_MAX_GSTATE_LEVELS: the length of psdoc->agstates
  MaxPages,     \* bound: pages begun in one document
  MaxOpens,     \* bound: calls of PS_open_fp/file/mem on one PSDoc
  Outputs,      \* how the caller opens documents, see OpenDocument
  ClientRules   \* what the calling program takes care of, see Keeps

ASSUME MaxScopesAssumption == MaxScopes \in Nat /\ MaxScopes >= 2
ASSUME MaxGStateAssumption == MaxGState \in Nat \ {0}
ASSUME BoundsAssumption == MaxPages \in Nat /\ MaxOpens \in Nat
ASSUME OutputsAssumption == Outputs \subseteq {"caller", "lib", "buffer", "user"}
ASSUME RulesAssumption ==
  ClientRules \subseteq {"open_first", "header_first", "page_between", "balance", "levels"}

VARIABLES
  psdoc,    \* the PSDoc
  opens,    \* how often it has been opened (bounded by MaxOpens)
  pending   \* the caller's own account of one page, template or pattern: its
            \* calls of PS_save there less its calls of PS_restore

vars == <<psdoc, opens, pending>>

Scope == {"OBJECT", "DOCUMENT", "PROLOG", "PAGE", "TEMPLATE", "PATTERN",
          "FONT", "GLYPH", "PATH"}

----------------------------------------------------------------------------
(* Scopes.                                                                 *)

ps_current_scope(d) == d.scopes[Len(d.scopes)]

ps_check_scope(d, allowed) == ps_current_scope(d) \in allowed

\* A full stack is an error the callers do not look at: they go on.
ps_enter_scope(d, s) ==
  IF Len(d.scopes) = MaxScopes
  THEN d
  ELSE [d EXCEPT !.scopes = Append(@, s)]

ps_leave_scope(d, s) ==
  IF ps_current_scope(d) # s
  THEN d
  ELSE [d EXCEPT !.scopes = SubSeq(@, 1, Len(@) - 1)]

DrawingScope == {"PAGE", "PATTERN", "TEMPLATE"}

----------------------------------------------------------------------------
(* Output.                                                                 *)

\* Writing goes through writeproc, and to fp when that is ps_writeproc_file;
\* the call through either null pointer ends the program.
HasSink(d) == d.writeproc # "null" /\ (d.writeproc = "file" => d.fp # "null")

ps_printf(d, newnest) ==
  IF HasSink(d) THEN [d EXCEPT !.nest = newnest] ELSE [d EXCEPT !.life = "crashed"]

\* A construct was closed that is not the innermost one: from there on the
\* output has no structure.
Garbled == <<"stray">>

Innermost(d) == IF d.nest = <<>> THEN "stream" ELSE d.nest[Len(d.nest)]

\* Text that opens the construct c, and text that closes it.
Opening(d, c) ==
  ps_printf(d, IF d.nest = Garbled THEN Garbled ELSE Append(d.nest, c))

Closing(d, c) ==
  ps_printf(d, IF Innermost(d) = c THEN SubSeq(d.nest, 1, Len(d.nest) - 1) ELSE Garbled)

----------------------------------------------------------------------------
(* The header, written in parts.                                           *)

ps_write_ps_comments(d) ==
  [ps_printf(d, d.nest) EXCEPT !.commentswritten = TRUE]

ps_write_ps_beginprolog(d) ==
  [Opening(ps_enter_scope(d, "PROLOG"), "prolog")
     EXCEPT !.beginprologwritten = TRUE, !.phase = "prolog"]

\* Mutant: the scope PROLOG is not left.
EndPrologStays(d) == [Closing(d, "prolog") EXCEPT !.endprologwritten = TRUE]

\* Mutant: %%EndProlog is not written.
EndPrologUnwritten(d) == [ps_leave_scope(d, "PROLOG") EXCEPT !.endprologwritten = TRUE]

ps_write_ps_endprolog(d) ==
  [ps_leave_scope(Closing(d, "prolog"), "PROLOG") EXCEPT !.endprologwritten = TRUE]

ps_write_ps_setup(d) ==
  [ps_printf(d, d.nest) EXCEPT !.setupwritten = TRUE]

ps_write_ps_header(d) ==
  LET d1 == IF d.commentswritten THEN d ELSE ps_write_ps_comments(d)
      d2 == IF d1.beginprologwritten THEN d1 ELSE ps_write_ps_beginprolog(d1)
      d3 == IF d2.endprologwritten THEN d2 ELSE ps_write_ps_endprolog(d2)
      d4 == IF d3.setupwritten THEN d3 ELSE ps_write_ps_setup(d3)
  IN  IF d.headerwritten THEN d ELSE [d4 EXCEPT !.headerwritten = TRUE]

\* The prelude of every call that defines something: output before the first
\* page belongs into the prolog, which is opened if it is not yet.
PrologStarted(d) ==
  IF d.beginprologwritten
  THEN d
  ELSE ps_write_ps_beginprolog(ps_write_ps_comments(d))

----------------------------------------------------------------------------
(* Opening a document.                                                     *)

PS_new2 ==
  [scopes |-> <<"OBJECT">>, page |-> 0, page_open |-> FALSE, doc_open |-> FALSE,
   commentswritten |-> FALSE, beginprologwritten |-> FALSE,
   endprologwritten |-> FALSE, setupwritten |-> FALSE, headerwritten |-> FALSE,
   writeproc |-> "null", fp |-> "null", closefp |-> FALSE,
   agstate |-> 0, images |-> FALSE, life |-> "live",
   phase |-> "empty", nest |-> <<>>]

\* A new stream begins with every open.
OpenStream(d) ==
  ps_enter_scope([d EXCEPT !.page = 0, !.doc_open = TRUE,
                           !.phase = "empty", !.nest = <<>>], "DOCUMENT")

PS_open_fp(d, file) ==
  OpenStream([d EXCEPT !.fp = file, !.closefp = FALSE, !.writeproc = "file"])

PS_open_file(d) == [PS_open_fp(d, "lib") EXCEPT !.closefp = TRUE]

\* writeproc is the caller's, or the one that fills the string buffer.
PS_open_mem(d, writeproc) ==
  OpenStream([d EXCEPT !.writeproc = writeproc, !.fp = "null"])

----------------------------------------------------------------------------
(* Pages.                                                                  *)

\* The header comes before the scope is checked.
PS_begin_page(d) ==
  LET h == ps_write_ps_header(d)
      p == Opening([h EXCEPT !.page = @ + 1, !.phase = "script"], "page")
  IN  IF ~ps_check_scope(h, {"DOCUMENT"})
      THEN h
      ELSE ps_enter_scope([p EXCEPT !.page_open = TRUE], "PAGE")

\* Mutant: page_open stays set.
EndPageStaysOpen(d) ==
  IF ~ps_check_scope(d, {"PAGE"}) \/ d.agstate > 0
  THEN d
  ELSE ps_leave_scope(Closing(d, "page"), "PAGE")

PS_end_page(d) ==
  IF ~ps_check_scope(d, {"PAGE"}) \/ d.agstate > 0
  THEN d
  ELSE ps_leave_scope([Closing(d, "page") EXCEPT !.page_open = FALSE], "PAGE")

----------------------------------------------------------------------------
(* Closing and deleting the document.                                      *)

\* The end of the stream: nothing may be open any more.
Trailer(d) ==
  [ps_printf(d, IF d.nest = <<>> THEN <<>> ELSE Garbled)
     EXCEPT !.phase = "trailer"]

\* Mutant: the file is not closed.
CloseKeepsFile(d) ==
  LET e == IF d.page_open THEN PS_end_page(d) ELSE d
      t == IF e.doc_open THEN ps_leave_scope(Trailer(e), "DOCUMENT") ELSE e
  IN  IF ~ps_check_scope(e, {"DOCUMENT"}) THEN e ELSE [t EXCEPT !.doc_open = FALSE]

\* Mutant: doc_open stays set.
CloseStaysOpen(d) ==
  LET e == IF d.page_open THEN PS_end_page(d) ELSE d
      t == IF e.doc_open THEN ps_leave_scope(Trailer(e), "DOCUMENT") ELSE e
      c == IF t.closefp /\ t.fp # "null" THEN [t EXCEPT !.fp = "null"] ELSE t
  IN  IF ~ps_check_scope(e, {"DOCUMENT"}) THEN e ELSE c

PS_close(d) ==
  LET e == IF d.page_open THEN PS_end_page(d) ELSE d
      t == IF e.doc_open THEN ps_leave_scope(Trailer(e), "DOCUMENT") ELSE e
      c == IF t.closefp /\ t.fp # "null" THEN [t EXCEPT !.fp = "null"] ELSE t
  IN  IF ~ps_check_scope(e, {"DOCUMENT"}) THEN e ELSE [c EXCEPT !.doc_open = FALSE]

PS_delete(d) ==
  LET c == IF d.doc_open THEN PS_close(d) ELSE d
  IN  IF c.life = "crashed" THEN c ELSE [c EXCEPT !.life = "freed"]

----------------------------------------------------------------------------
(* Definitions: templates, patterns, Type 3 fonts and their glyphs.  The   *)
(* prolog is started before the scope is checked.                          *)

\* Mutant: a definition may begin inside another one of its kind.
BeginDefinitionAgain(d, s, construct) ==
  LET p == PrologStarted(d)
  IN  IF ~ps_check_scope(p, {"DOCUMENT", "PROLOG", s})
      THEN p
      ELSE ps_enter_scope(Opening(p, construct), s)

BeginDefinition(d, s, construct) ==
  LET p == PrologStarted(d)
  IN  IF ~ps_check_scope(p, {"DOCUMENT", "PROLOG"})
      THEN p
      ELSE ps_enter_scope(Opening(p, construct), s)

EndDefinition(d, s, construct) ==
  IF ~ps_check_scope(d, {s}) THEN d ELSE ps_leave_scope(Closing(d, construct), s)

\* A template is registered as an image when it is begun.
PS_begin_template(d) ==
  LET t == BeginDefinition(d, "TEMPLATE", "proc")
  IN  IF ps_check_scope(PrologStarted(d), {"DOCUMENT", "PROLOG"})
      THEN [t EXCEPT !.images = TRUE]
      ELSE t

PS_end_template(d) == EndDefinition(d, "TEMPLATE", "proc")

PS_begin_pattern(d) == BeginDefinition(d, "PATTERN", "proc")

PS_end_pattern(d) == EndDefinition(d, "PATTERN", "proc")

PS_begin_font(d) == BeginDefinition(d, "FONT", "fontdict")

PS_end_font(d) == EndDefinition(d, "FONT", "fontdict")

\* A name the font has already is refused, which changes nothing.
PS_begin_glyph(d) ==
  IF ~ps_check_scope(d, {"FONT"})
  THEN d
  ELSE ps_enter_scope(Opening(d, "charproc"), "GLYPH")

PS_end_glyph(d) == EndDefinition(d, "GLYPH", "charproc")

----------------------------------------------------------------------------
(* Resources whose loading writes into the prolog.                         *)

\* writes: an encoding to be output is given, or an outline to be embedded.
PS_findfont(d, writes) ==
  IF ps_check_scope(d, {"PROLOG", "DOCUMENT"} \cup DrawingScope) /\ writes
  THEN PrologStarted(d)
  ELSE d

\* With the parameter imagereuse, the default, the image goes into the prolog.
PS_open_image(d, reuse) ==
  LET p == IF reuse THEN PrologStarted(d) ELSE d
      allowed == {"DOCUMENT", "PAGE"} \cup (IF reuse THEN {"PROLOG"} ELSE {})
  IN  IF ps_check_scope(p, allowed) THEN [p EXCEPT !.images = TRUE] ELSE p

\* found: the shading exists.  The definition is written as it is, on a page or
\* between pages; unlike the others it opens no prolog, so that it may come
\* before everything else.
PS_shading_pattern(d, found) ==
  IF ps_check_scope(d, {"DOCUMENT", "PAGE"}) /\ found
  THEN ps_printf(d, IF d.phase = "empty" THEN Garbled ELSE d.nest)
  ELSE d

\* The text of the file goes through to the output: no structure is added.
PS_include_file(d) == PrologStarted(d)

----------------------------------------------------------------------------
(* Paths.                                                                  *)

\* Mutant: a path that is already begun is begun once more.
StartPathAgain(d, allowed) ==
  IF ps_check_scope(d, allowed) THEN ps_enter_scope(d, "PATH") ELSE d

StartPath(d, allowed) ==
  IF ps_check_scope(d, allowed) /\ ~ps_check_scope(d, {"PATH"})
  THEN ps_enter_scope(d, "PATH")
  ELSE d

PathStarter == {"PATH", "GLYPH"} \cup DrawingScope

PS_moveto(d) == StartPath(d, PathStarter)

\* PS_rect and PS_circle start a path wherever PS_moveto does, PS_arc and
\* PS_arcn not in a glyph.
PS_arc(d) == StartPath(d, PathStarter \ {"GLYPH"})

\* PS_clip, PS_closepath_stroke, PS_fill_stroke, PS_stroke and PS_fill.
PaintPath(d) == IF ps_check_scope(d, {"PATH"}) THEN ps_leave_scope(d, "PATH") ELSE d

----------------------------------------------------------------------------
(* Graphics state levels.                                                  *)

\* Mutant: the last level is one too many.
SaveOneMore(d) ==
  IF ~ps_check_scope(d, DrawingScope) \/ d.agstate >= MaxGState
  THEN d
  ELSE [Opening(d, "gsave") EXCEPT !.agstate = @ + 1]

PS_save(d) ==
  IF ~ps_check_scope(d, DrawingScope) \/ d.agstate >= MaxGState - 1
  THEN d
  ELSE [Opening(d, "gsave") EXCEPT !.agstate = @ + 1]

\* Mutant: the first level cannot be restored.
RestoreOneLess(d) ==
  IF ~ps_check_scope(d, DrawingScope) \/ d.agstate <= 1
  THEN d
  ELSE [Closing(d, "gsave") EXCEPT !.agstate = @ - 1]

PS_restore(d) ==
  IF ~ps_check_scope(d, DrawingScope) \/ d.agstate <= 0
  THEN d
  ELSE [Closing(d, "gsave") EXCEPT !.agstate = @ - 1]

\* PS_show2 draws each line that decorates a text with a path of its own.
\* Mutant: the level of the line is not restored.
DrawLineSaved(d) == PaintPath(PS_moveto(PS_save(d)))

DrawLine(d) == PS_restore(PaintPath(PS_moveto(PS_save(d))))

Decoration == {"underline", "overline", "strikeout"}

\* lines: the decorations that are on, drawn in this order.
PS_show2(d, lines) ==
  LET u == IF "underline" \in lines THEN DrawLine(d) ELSE d
      o == IF "overline" \in lines THEN DrawLine(u) ELSE u
      s == IF "strikeout" \in lines THEN DrawLine(o) ELSE o
  IN  IF ps_check_scope(d, DrawingScope) THEN s ELSE d

\* A template or an eps image is placed between PS_save and PS_restore.
PS_place_image(d) ==
  IF ps_check_scope(d, {"PAGE", "TEMPLATE"}) /\ d.images
  THEN PS_restore(PS_save(d))
  ELSE d
----------------------------------------------------------------------------
(* The program that calls the library.  ClientRules are what it keeps to   *)
(* by itself, whatever the library checks:                                 *)
(*   open_first    output is produced between opening and closing only     *)
(*   header_first  no shading pattern is made before the prolog is begun   *)
(*   page_between  no page is begun inside another page or a definition    *)
(*   balance       every PS_save in a page or a definition is followed by  *)
(*                 its PS_restore before the page or definition ends       *)
(*   levels        it counts the levels and leaves one for the calls that  *)
(*                 save and restore themselves                             *)

Keeps(rule, condition) == rule \in ClientRules => condition

\* A crash leaves nothing to look at but the fact.
Returns(d) ==
  /\ psdoc.life = "live"
  /\ psdoc' = IF d.life = "crashed" THEN [psdoc EXCEPT !.life = "crashed"] ELSE d

Produces == Keeps("open_first", psdoc.doc_open)

NeedsLevel == Keeps("levels", pending < MaxGState - 1)

MaxPending == MaxGState + 1   \* bound: how far pending may be from zero

OpenDocument ==
  /\ opens < MaxOpens
  /\ opens' = opens + 1
  /\ \/ "caller" \in Outputs /\ Returns(PS_open_fp(psdoc, "caller"))
     \/ "lib" \in Outputs /\ Returns(PS_open_file(psdoc))
     \/ \E w \in Outputs \cap {"buffer", "user"} : Returns(PS_open_mem(psdoc, w))
  /\ UNCHANGED pending

CloseDocument == Returns(PS_close(psdoc)) /\ UNCHANGED <<opens, pending>>

DeleteDocument == Returns(PS_delete(psdoc)) /\ UNCHANGED <<opens, pending>>

\* A canvas that is entered starts with nothing saved on it.
Enters(canvas) ==
  pending' = IF ps_check_scope(psdoc', {canvas}) /\ ~ps_check_scope(psdoc, {canvas})
             THEN 0 ELSE pending

BeginPage ==
  /\ Produces
  /\ Keeps("page_between", ps_check_scope(psdoc, {"DOCUMENT", "PROLOG"}))
  /\ psdoc.page < MaxPages
  /\ Returns(PS_begin_page(psdoc))
  /\ Enters("PAGE")
  /\ UNCHANGED opens

EndPage == Returns(PS_end_page(psdoc)) /\ UNCHANGED <<opens, pending>>

BeginTemplate ==
  /\ Produces
  /\ Returns(PS_begin_template(psdoc))
  /\ Enters("TEMPLATE")
  /\ UNCHANGED opens

BeginPattern ==
  /\ Produces
  /\ Returns(PS_begin_pattern(psdoc))
  /\ Enters("PATTERN")
  /\ UNCHANGED opens

EndTemplate ==
  /\ Keeps("balance", pending = 0)
  /\ Returns(PS_end_template(psdoc))
  /\ UNCHANGED <<opens, pending>>

EndPattern ==
  /\ Keeps("balance", pending = 0)
  /\ Returns(PS_end_pattern(psdoc))
  /\ UNCHANGED <<opens, pending>>

BeginFont == Produces /\ Returns(PS_begin_font(psdoc)) /\ UNCHANGED <<opens, pending>>

EndFont == Returns(PS_end_font(psdoc)) /\ UNCHANGED <<opens, pending>>

BeginGlyph == Returns(PS_begin_glyph(psdoc)) /\ UNCHANGED <<opens, pending>>

EndGlyph == Returns(PS_end_glyph(psdoc)) /\ UNCHANGED <<opens, pending>>

FindFont ==
  /\ \E writes \in BOOLEAN : Returns(PS_findfont(psdoc, writes))
  /\ UNCHANGED <<opens, pending>>

OpenImage ==
  /\ Produces
  /\ \E reuse \in BOOLEAN : Returns(PS_open_image(psdoc, reuse))
  /\ UNCHANGED <<opens, pending>>

IncludeFile ==
  /\ Produces
  /\ Returns(PS_include_file(psdoc))
  /\ UNCHANGED <<opens, pending>>

ShadingPattern ==
  /\ Keeps("header_first", psdoc.beginprologwritten)
  /\ \E found \in BOOLEAN : Returns(PS_shading_pattern(psdoc, found))
  /\ UNCHANGED <<opens, pending>>

ConstructPath ==
  /\ Returns(PS_moveto(psdoc)) \/ Returns(PS_arc(psdoc))
  /\ UNCHANGED <<opens, pending>>

EndPath == Returns(PaintPath(psdoc)) /\ UNCHANGED <<opens, pending>>

Save ==
  /\ NeedsLevel
  /\ pending < MaxPending
  /\ Returns(PS_save(psdoc))
  /\ pending' = IF ps_check_scope(psdoc, DrawingScope) THEN pending + 1 ELSE pending
  /\ UNCHANGED opens

Restore ==
  /\ Keeps("balance", pending > 0)
  /\ Returns(PS_restore(psdoc))
  /\ pending > -MaxPending
  /\ pending' = IF ps_check_scope(psdoc, DrawingScope) THEN pending - 1 ELSE pending
  /\ UNCHANGED opens

ShowText ==
  /\ NeedsLevel
  /\ \E lines \in SUBSET Decoration : Returns(PS_show2(psdoc, lines))
  /\ UNCHANGED <<opens, pending>>

PlaceImage ==
  /\ NeedsLevel
  /\ Returns(PS_place_image(psdoc))
  /\ UNCHANGED <<opens, pending>>

Init == psdoc = PS_new2 /\ opens = 0 /\ pending = 0

Next ==
  \/ OpenDocument \/ CloseDocument \/ DeleteDocument
  \/ BeginPage \/ EndPage
  \/ BeginTemplate \/ EndTemplate \/ BeginPattern \/ EndPattern
  \/ BeginFont \/ EndFont \/ BeginGlyph \/ EndGlyph
  \/ FindFont \/ OpenImage \/ IncludeFile \/ ShadingPattern
  \/ ConstructPath \/ EndPath
  \/ Save \/ Restore \/ ShowText \/ PlaceImage

Spec == Init /\ [][Next]_vars

----------------------------------------------------------------------------
(* Properties that hold whatever the calling program does.                 *)

Construct == {"prolog", "page", "proc", "fontdict", "charproc", "gsave", "stray"}

PSDoc ==
  [scopes : Seq(Scope), page : Nat, page_open : BOOLEAN, doc_open : BOOLEAN,
   commentswritten : BOOLEAN, beginprologwritten : BOOLEAN,
   endprologwritten : BOOLEAN, setupwritten : BOOLEAN, headerwritten : BOOLEAN,
   writeproc : {"null", "file", "buffer", "user"},
   fp : {"null", "caller", "lib"}, closefp : BOOLEAN,
   agstate : 0..(MaxGState - 1), images : BOOLEAN,
   life : {"live", "crashed", "freed"},
   phase : {"empty", "prolog", "script", "trailer"}, nest : Seq(Construct)]

\* The PSDoc has its type: the scope stack is never empty and never longer
\* than psdoc->scopes, and agstate always indexes psdoc->agstates.
TypeOK ==
  /\ psdoc \in PSDoc
  /\ Len(psdoc.scopes) \in 1..MaxScopes
  /\ opens \in 0..MaxOpens
  /\ pending \in -MaxPending..MaxPending

\* The scopes that may lie directly below s.
Below(s) ==
  CASE s = "OBJECT" -> {}
    [] s = "DOCUMENT" -> Scope
    [] s = "PROLOG" -> {"OBJECT", "DOCUMENT"}
    [] s = "PAGE" -> {"DOCUMENT"}
    [] s \in {"TEMPLATE", "PATTERN", "FONT"} -> {"DOCUMENT", "PROLOG"}
    [] s = "GLYPH" -> {"FONT"}
    [] s = "PATH" -> {"GLYPH"} \cup DrawingScope

\* Whatever calls are made in whatever order, refused calls that went on after
\* a full stack included: a page lies in a document, a template, pattern or
\* font in a document or its prolog, a glyph in a font, a path on a canvas.
ScopeNesting ==
  \A i \in 2..Len(psdoc.scopes) : psdoc.scopes[i - 1] \in Below(psdoc.scopes[i])

\* The error of a full stack that no caller of ps_enter_scope looks at cannot
\* happen in a PSDoc opened once: every open adds at most four levels, the
\* prolog is entered once.
StackDepth == Len(psdoc.scopes) <= 2 + 4 * opens

\* PS_close ends a page by looking at page_open where every other call looks
\* at the scopes: in a PSDoc opened once the two agree.
PageOpenAgrees ==
  opens <= 1 => (psdoc.page_open <=> \E i \in 1..Len(psdoc.scopes) : psdoc.scopes[i] = "PAGE")

\* PS_delete calls PS_close first: from the document scope, or from a page
\* with nothing left saved, the file pslib opened is closed, with a trailer.
DeleteClosesWhenItCan ==
  [][ ( /\ psdoc'.life = "freed"
        /\ psdoc.doc_open
        /\ psdoc.page_open => psdoc.agstate = 0
        /\ ps_current_scope(psdoc) \in {"DOCUMENT", "PAGE"}
        /\ opens <= 1 )
      => (psdoc'.phase = "trailer" /\ ~(psdoc'.closefp /\ psdoc'.fp # "null")) ]_vars

----------------------------------------------------------------------------
(* Properties of a program that keeps some of the rules.                   *)

\* page_between: the scope PROLOG is on the stack exactly while the output is
\* inside its prolog.  (Once %%EndProlog has been written nothing leaves the
\* scope any more: no page can be begun and the document cannot be closed.)
PrologScopeAgrees ==
  (\E i \in 1..Len(psdoc.scopes) : psdoc.scopes[i] = "PROLOG")
    <=> (psdoc.beginprologwritten /\ ~psdoc.endprologwritten)

\* The call that ends what is innermost.
WindDown(d) ==
  LET s == ps_current_scope(d)
  IN  CASE s = "PATH" -> PaintPath(d)
        [] s = "GLYPH" -> PS_end_glyph(d)
        [] s = "FONT" -> PS_end_font(d)
        [] s = "TEMPLATE" -> PS_end_template(d)
        [] s = "PATTERN" -> PS_end_pattern(d)
        [] s = "PAGE" -> IF d.agstate > 0 THEN PS_restore(d) ELSE PS_end_page(d)
        [] s = "PROLOG" -> PS_begin_page(d)
        [] s = "DOCUMENT" -> PS_close(d)
        [] s = "OBJECT" -> d

\* page_between: no sequence of calls leads a document opened once where it
\* cannot be closed any more.  Ending what is innermost, again and again (the
\* first page takes the document out of its prolog), reaches a written trailer.
AlwaysClosable ==
  LET steps == MaxScopes + MaxGState + 2
      after[n \in 0..steps] == IF n = 0 THEN psdoc ELSE WindDown(after[n - 1])
  IN  psdoc.life = "live" /\ psdoc.doc_open
        => ~after[steps].doc_open /\ after[steps].phase = "trailer"

\* open_first: no call writes through a writeproc or fp that is null, the one
\* that PS_close has just closed included.
NoCrash == psdoc.life # "crashed"

\* balance and levels: psdoc->agstate, which outlives every page, template and
\* pattern, is what the caller has saved on the canvas it is on, and zero when
\* it is on none.
LevelsAgree ==
  psdoc.agstate = IF \E i \in 1..Len(psdoc.scopes) : psdoc.scopes[i] \in DrawingScope
                  THEN pending ELSE 0

\* All rules: the output is a document in the order of the Document
\* Structuring Conventions with everything closed that is opened.
DSC == INSTANCE DSCStream
         WITH phase <- psdoc.phase, nest <- psdoc.nest, pages <- psdoc.page

ImplementsDSC == DSC!Spec

----------------------------------------------------------------------------
(* What the manual says and the code does not do.                          *)

\* "pslib will put everything before the first page into the prolog": nothing
\* is written as long as the prolog has not been begun.
PrologHoldsAll == psdoc.phase = "empty" => psdoc.nest = <<>>
=============================================================================
