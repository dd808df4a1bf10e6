----------------------------- MODULE PSResources -----------------------------
(***************************************************************************)
(* Fonts and images: the tables a PSDoc keeps them in, the ids the calling *)
(* program knows them by, the memory they live in, and the names they have *)
(* in the PostScript that is written.                                      *)
(*                                                                         *)
(* An id is a slot of a table, and a slot is used again once its font or   *)
(* image has been given back.  Two things outlive what was in the slot:    *)
(* the pointer psdoc->font, and the name "template%d" of a template that   *)
(* other templates place.  And what is defined on a page is undone by the  *)
(* restore at its end, while its id stays.                                 *)
(*                                                                         *)
(* The module composes with PSDocument: every action below is an action of *)
(* it together with what the same call does to fonts and images.           *)
(***************************************************************************)
EXTENDS PSDocument, FiniteSets

CONSTANTS
  Slots,          \* the 5 of PS_new2 and PS_REGISTER_RESOURCE: slots a table
                  \* begins with, and grows by
  Address,        \* where malloc may put a font; a freed address may be reused
  MaxObjects,     \* bound: fonts and images made
  ResourceRules   \* what the caller takes care of here, see RKeeps

ASSUME SlotsAssumption == Slots \in Nat \ {0}
ASSUME AddressAssumption == Address \subseteq Nat \ {0}
ASSUME MaxObjectsAssumption == MaxObjects \in Nat
ASSUME ResourceRulesAssumption ==
  ResourceRules \subseteq {"font_kept", "templates_kept", "ended_first", "local", "reusable"}

VARIABLE res

rvars == <<psdoc, opens, pending, res>>

Null == 0

\* The level of the PostScript interpreter a definition is made on: 0 outside
\* of pages, the page otherwise.
Level(d) == IF d.page_open THEN d.page ELSE 0

----------------------------------------------------------------------------
(* The tables: a sequence of slots, each empty or filled.                  *)

FirstFree(table) ==
  LET free == {i \in DOMAIN table : table[i] = Null}
  IN  IF free = {} THEN Len(table) + 1 ELSE CHOOSE i \in free : \A j \in free : i <= j

Size(table) == IF FirstFree(table) > Len(table) THEN Len(table) + Slots ELSE Len(table)

\* Mutant: a full table grows, but its last slot is used.
RegisterInLast(table, x) ==
  LET slot == IF FirstFree(table) > Len(table) THEN Len(table) ELSE FirstFree(table)
  IN  [i \in 1..Size(table) |->
         IF i = slot THEN x ELSE IF i \in DOMAIN table THEN table[i] ELSE Null]

Register(table, x) ==
  [i \in 1..Size(table) |->
     IF i = FirstFree(table) THEN x ELSE IF i \in DOMAIN table THEN table[i] ELSE Null]

Get(table, id) == IF id \in DOMAIN table THEN table[id] ELSE Null

Unregister(table, id) ==
  [i \in DOMAIN table |-> IF i = id THEN Null ELSE table[i]]

\* The first slot that holds the pointer, whatever the pointer is.
Find(table, ptr) ==
  LET found == {i \in DOMAIN table : table[i] = ptr}
  IN  IF found = {} THEN 0 ELSE CHOOSE i \in found : \A j \in found : i <= j

----------------------------------------------------------------------------
(* The record res:                                                         *)
(*   made       everything made so far, numbered: its kind; of an image    *)
(*              the level it was made on and whether it is named there     *)
(*   heap       which font lives at an address, Null for none              *)
(*   fonts      psdoc->fonts: addresses                                    *)
(*   images     psdoc->images: images and templates                        *)
(*   font       psdoc->font                                                *)
(*   held       the caller's record of its ids: what each of them denotes  *)
(*   forms      the template that "template%d" names in the output         *)
(*   known      the images that are defined in the output now, by level    *)
(*   template   the template being defined, and the font                   *)
(*   placements which template places which, under which id                *)

NoTemplate == [id |-> Null, object |-> Null]

NewResources ==
  [made |-> <<>>,
   heap |-> [a \in Address |-> Null],
   fonts |-> [i \in 1..Slots |-> Null],
   images |-> [i \in 1..Slots |-> Null],
   font |-> Null,
   held |-> [font |-> {}, image |-> {}],
   forms |-> {},
   known |-> {},
   template |-> NoTemplate,
   type3 |-> Null,
   placements |-> {}]

\* The number of the next thing made.
Next1(r) == Len(r.made) + 1

Denotes(r, table, id) == {h.object : h \in {h \in r.held[table] : h.id = id}}

Forget(r, table, id) == [r EXCEPT !.held[table] = {h \in @ : h.id # id}]

Learn(r, table, id) ==
  [r EXCEPT !.held[table] = {h \in @ : h.id # id} \cup {[id |-> id, object |-> Next1(r)]}]

----------------------------------------------------------------------------
(* Fonts.                                                                  *)

\* A new font at an address that is free.
AddFont(r, a) ==
  [Learn(r, "font", FirstFree(r.fonts))
     EXCEPT !.made = Append(@, [kind |-> "font", level |-> 0, named |-> FALSE]),
            !.heap[a] = Next1(r),
            !.fonts = Register(@, a)]

\* outcome: whether the metrics and the encoding could be loaded, and whether
\* the encoding was output.
FindFontIn(r, d, a, outcome) ==
  IF /\ ps_check_scope(d, {"PROLOG", "DOCUMENT"} \cup DrawingScope)
     /\ outcome \in {"default", "encoded"}
  THEN AddFont(r, a)
  ELSE r

\* Mutant: the slot of the font keeps its pointer.
DeleteFontOnly(r, id) ==
  LET a == Get(r.fonts, id)
  IN  IF a = Null THEN r ELSE [Forget(r, "font", id) EXCEPT !.heap[a] = Null]

\* Frees the font and empties its slot.  psdoc->font is not looked at.
PS_deletefont(r, id) ==
  LET a == Get(r.fonts, id)
  IN  IF a = Null
      THEN r
      ELSE [Forget(r, "font", id) EXCEPT !.heap[a] = Null, !.fonts = Unregister(@, id)]

PS_setfont(r, d, id) ==
  IF ps_check_scope(d, DrawingScope) /\ Get(r.fonts, id) # Null
  THEN [r EXCEPT !.font = r.fonts[id]]
  ELSE r

PS_getfont(r) == Find(r.fonts, r.font)

\* Mutant: the font that is begun does not become the current one.
BeginFontAside(r, a) == [AddFont(r, a) EXCEPT !.type3 = Next1(r)]

\* The font that is begun becomes the current one.
BeginFontIn(r, a) ==
  [AddFont(r, a) EXCEPT !.font = a, !.type3 = Next1(r)]

----------------------------------------------------------------------------
(* Images and templates.                                                   *)

\* A reusable image gets a name, and its data is output under it.
OpenImageIn(r, d, reuse) ==
  [Learn(r, "image", FirstFree(r.images))
     EXCEPT !.made = Append(@, [kind |-> "image", level |-> Level(d), named |-> reuse]),
            !.images = Register(@, Next1(r)),
            !.known = IF reuse THEN @ \cup {[object |-> Next1(r), level |-> Level(d)]} ELSE @]

PS_close_image(r, id) ==
  IF Get(r.images, id) = Null
  THEN r
  ELSE [Forget(r, "image", id) EXCEPT !.images = Unregister(@, id)]

BeginTemplateIn(r) ==
  [Learn(r, "image", FirstFree(r.images))
     EXCEPT !.made = Append(@, [kind |-> "template", level |-> 0, named |-> FALSE]),
            !.images = Register(@, Next1(r)),
            !.template = [id |-> FirstFree(r.images), object |-> Next1(r)]]

\* Mutant: a name that is defined already is not defined again.
EndTemplateOnce(r) ==
  [r EXCEPT !.forms = IF \E f \in @ : f.id = r.template.id THEN @ ELSE @ \cup {r.template},
            !.template = NoTemplate]

\* The form resource is defined, under the name the id gives it.
EndTemplateIn(r) ==
  [r EXCEPT !.forms = {f \in @ : f.id # r.template.id} \cup {r.template},
            !.template = NoTemplate]

\* On a page the image is executed at once.  In a template it is executed by
\* name whenever the template is.
PlaceImageIn(r, id) ==
  IF r.template # NoTemplate /\ Get(r.images, id) # Null
  THEN [r EXCEPT !.placements = @ \cup
          {[by |-> r.template.object, id |-> id, meant |-> o] : o \in Denotes(r, "image", id)}]
  ELSE r

----------------------------------------------------------------------------
(* The end of a page, and of the PSDoc.                                    *)

\* The font is forgotten; what was defined on the page is undone by restore.
PageEndedIn(r) == [r EXCEPT !.font = Null, !.known = {k \in @ : k.level = 0}]

\* Every font and image in a table is freed, and the tables are.
DeleteAll(r) ==
  [r EXCEPT !.heap = [a \in Address |->
                        IF \E i \in DOMAIN r.fonts : r.fonts[i] = a THEN Null ELSE @[a]],
            !.fonts = <<>>, !.images = <<>>, !.font = Null,
            !.held = [font |-> {}, image |-> {}]]

----------------------------------------------------------------------------
(* The calls.  ResourceRules are what the caller keeps to by itself:       *)
(*   font_kept       the current font is not deleted                       *)
(*   templates_kept  a template is not closed as long as one that places   *)
(*                   it may still be placed; an image may be               *)
(*   ended_first     a template is placed only after it has been ended     *)
(*   local           what a template places was not made on a page         *)
(*   reusable        only images with a name are placed in a template:     *)
(*                   PS_place_image asks the parameter imagereuse of the   *)
(*                   moment, not the image                                 *)

RKeeps(rule, condition) == rule \in ResourceRules => condition

SameResources == res' = res

\* A font or template may be begun here.
Definable == ps_check_scope(PrologStarted(psdoc), {"DOCUMENT", "PROLOG"})

Room == Len(res.made) < MaxObjects

FreeAddress == {a \in Address : res.heap[a] = Null}

\* An id the caller may name: any slot, and one before and behind the table.
AnyId(table) == 0..(Len(table) + 1)

RFindFont ==
  /\ Room
  /\ \E outcome \in {"missing", "default", "encoded"}, a \in FreeAddress :
       /\ Returns(PS_findfont(psdoc, outcome = "encoded"))
       /\ res' = FindFontIn(res, psdoc, a, outcome)
  /\ UNCHANGED <<opens, pending>>

DeleteFont ==
  /\ \E id \in AnyId(res.fonts) :
       /\ RKeeps("font_kept", Get(res.fonts, id) \in {Null} \cup (Address \ {res.font}))
       /\ res' = PS_deletefont(res, id)
  /\ Returns(psdoc)
  /\ UNCHANGED <<opens, pending>>

SetFont ==
  /\ \E id \in AnyId(res.fonts) : res' = PS_setfont(res, psdoc, id)
  /\ Returns(psdoc)
  /\ UNCHANGED <<opens, pending>>

RShowText ==
  /\ NeedsLevel
  /\ \E lines \in SUBSET Decoration :
       Returns(IF res.font = Null THEN psdoc ELSE PS_show2(psdoc, lines))
  /\ UNCHANGED <<opens, pending>>
  /\ SameResources

RBeginFont ==
  /\ Room
  /\ BeginFont
  /\ \E a \in FreeAddress :
       res' = IF Definable THEN BeginFontIn(res, a) ELSE res

REndFont ==
  /\ EndFont
  /\ res' = IF ps_check_scope(psdoc, {"FONT"}) THEN [res EXCEPT !.type3 = Null] ELSE res

ROpenImage ==
  /\ Room
  /\ Produces
  /\ \E reuse \in BOOLEAN :
       /\ Returns(PS_open_image(psdoc, reuse))
       /\ res' = IF ps_check_scope(psdoc', {"DOCUMENT", "PAGE"} \cup (IF reuse THEN {"PROLOG"} ELSE {}))
                 THEN OpenImageIn(res, psdoc, reuse) ELSE res
  /\ UNCHANGED <<opens, pending>>

\* The templates that place a template and that the caller can still place.
PlacedBy(object) ==
  IF object # Null /\ res.made[object].kind = "template"
  THEN {p.by : p \in {q \in res.placements : q.meant = object}}
         \cap {h.object : h \in res.held.image}
  ELSE {}

CloseImage ==
  /\ \E id \in AnyId(res.images) :
       /\ RKeeps("templates_kept", PlacedBy(Get(res.images, id)) \subseteq {Get(res.images, id)})
       /\ res' = PS_close_image(res, id)
  /\ Returns(psdoc)
  /\ UNCHANGED <<opens, pending>>

PlaceImageById ==
  /\ NeedsLevel
  /\ \E id \in AnyId(res.images) :
       LET object == Get(res.images, id) IN
       /\ RKeeps("ended_first", object = Null \/ object # res.template.object)
       /\ RKeeps("local", object # Null /\ ps_check_scope(psdoc, {"TEMPLATE"})
                            => res.made[object].level = 0)
       /\ RKeeps("reusable", object # Null /\ ps_check_scope(psdoc, {"TEMPLATE"})
                               /\ res.made[object].kind = "image"
                            => res.made[object].named)
       /\ Returns(IF object = Null THEN psdoc ELSE PS_place_image(psdoc))
       /\ res' = IF ps_check_scope(psdoc, {"PAGE", "TEMPLATE"})
                 THEN PlaceImageIn(res, id) ELSE res
  /\ UNCHANGED <<opens, pending>>

RBeginTemplate ==
  /\ Room
  /\ BeginTemplate
  /\ res' = IF Definable THEN BeginTemplateIn(res) ELSE res

REndTemplate ==
  /\ EndTemplate
  /\ res' = IF ps_check_scope(psdoc, {"TEMPLATE"}) THEN EndTemplateIn(res) ELSE res

REndPage ==
  /\ EndPage \/ CloseDocument
  /\ res' = IF psdoc.page_open /\ ~psdoc'.page_open THEN PageEndedIn(res) ELSE res

RDeleteDocument ==
  /\ DeleteDocument
  /\ res' = IF psdoc'.life = "freed" THEN DeleteAll(res) ELSE res

ROther ==
  /\ \/ OpenDocument \/ BeginPage \/ BeginPattern \/ EndPattern \/ ShadingPattern
     \/ BeginGlyph \/ EndGlyph \/ IncludeFile
     \/ ConstructPath \/ EndPath \/ Save \/ Restore
  /\ SameResources

RInit == Init /\ res = NewResources

RNext ==
  \/ RFindFont \/ DeleteFont \/ SetFont \/ RShowText
  \/ RBeginFont \/ REndFont
  \/ ROpenImage \/ CloseImage \/ PlaceImageById
  \/ RBeginTemplate \/ REndTemplate
  \/ REndPage \/ RDeleteDocument
  \/ ROther

RSpec == RInit /\ [][RNext]_rvars

----------------------------------------------------------------------------
(* Properties.                                                             *)

\* A font is in one slot as long as it lives, a slot never has a font that is
\* freed: nothing is lost, and nothing is freed twice by PS_delete.
OwnedOnce ==
  /\ \A i \in DOMAIN res.fonts : res.fonts[i] # Null => res.heap[res.fonts[i]] # Null
  /\ \A a \in Address : res.heap[a] # Null
       => Cardinality({i \in DOMAIN res.fonts : res.fonts[i] = a}) = 1

\* Through every reuse of a slot and every growth of a table: the ids the
\* caller holds are the slots that are filled, and each denotes what was made
\* when the caller got it.  psdoc->font, once set, is a font that lives, and
\* PS_getfont finds the id under which the caller got that very font
\* (font_kept), at whatever address a later font may have been put.
HandlesDenote ==
  /\ res.held.font = {[id |-> i, object |-> res.heap[res.fonts[i]]] :
                         i \in {j \in DOMAIN res.fonts : res.fonts[j] # Null}}
  /\ res.held.image = {[id |-> i, object |-> res.images[i]] :
                         i \in {j \in DOMAIN res.images : res.images[j] # Null}}
  /\ res.font # Null
       => [id |-> PS_getfont(res), object |-> res.heap[res.font]] \in res.held.font

\* PS_begin_glyph and PS_end_font take psdoc->font for the font that is being
\* defined: nothing called in between makes it another one.
FontBeingDefined ==
  psdoc.life = "live" /\ (\E i \in 1..Len(psdoc.scopes) : psdoc.scopes[i] = "FONT")
    => res.type3 # Null /\ res.font # Null /\ res.heap[res.font] = res.type3

\* What the interpreter shows when it executes the object: the data of the
\* image, given in place or still defined under its name, or a template with
\* all it places. In a procedure data can only be given by name.
Shows ==
  LET named(id, object) == [id |-> id, object |-> object] \in res.forms
      f[o \in 0..Len(res.made)] ==
        CASE o = 0 -> FALSE
          [] o > 0 /\ res.made[o].kind = "image" ->
               res.made[o].named => \E k \in res.known : k.object = o
          [] OTHER ->
               \A p \in {q \in res.placements : q.by = o} :
                 /\ IF res.made[p.meant].kind = "template"
                    THEN named(p.id, p.meant) ELSE res.made[p.meant].named
                 /\ p.meant < o /\ f[p.meant]
  IN  f

\* templates_kept, ended_first, local, reusable: whatever the caller can place on a page
\* and has made outside of pages or on this one is shown as it was meant,
\* although templates refer to each other by slots that are used again.
PlacedAsMeant ==
  ps_check_scope(psdoc, {"PAGE"}) =>
    \A h \in res.held.image :
      res.made[h.object].level \in {0, psdoc.page} =>
        /\ Shows[h.object]
        /\ res.made[h.object].kind = "template" => h \in res.forms
=============================================================================
