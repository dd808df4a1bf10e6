-------------------------- MODULE PSResources_proofs --------------------------
(***************************************************************************)
(* Proofs about PSResources, for tables of any size that grow by any       *)
(* number of slots, any number of addresses and any number of fonts and    *)
(* images: a font is in exactly one slot as long as it lives, the ids the  *)
(* caller holds denote what they have denoted from the beginning, the      *)
(* current font is the one that is being defined, and what a template      *)
(* places is what was placed there.                                        *)
(***************************************************************************)
EXTENDS PSResources, PSDocument_proofs, FiniteSetTheorems

----------------------------------------------------------------------------
(* Every call is a call of PSDocument, or leaves it alone.                 *)

\* The calls of the document that neither begin a font nor end a template, and
\* stutters.
OtherCall ==
  \/ OpenDocument \/ CloseDocument \/ DeleteDocument
  \/ BeginPage \/ EndPage
  \/ BeginTemplate \/ BeginPattern \/ EndPattern
  \/ EndFont \/ BeginGlyph \/ EndGlyph
  \/ FindFont \/ OpenImage \/ IncludeFile \/ ShadingPattern
  \/ ConstructPath \/ EndPath
  \/ Save \/ Restore \/ ShowText \/ PlaceImage
  \/ UNCHANGED vars

\* The calls that do not begin a font.
NoFontBegun == OtherCall \/ EndTemplate

\* Only RBeginFont begins a font, and only REndTemplate ends a template.
LEMMA DocumentCall ==
  ASSUME [RNext]_rvars
  PROVE  (RBeginFont /\ BeginFont) \/ (REndTemplate /\ EndTemplate) \/ OtherCall
<1>1. Returns(psdoc) /\ UNCHANGED <<opens, pending>> => UNCHANGED vars
  BY DEF Returns, vars
<1>2. CASE RFindFont
  BY <1>2 DEF RFindFont, FindFont, OtherCall
<1>3. CASE DeleteFont \/ SetFont
  BY <1>1, <1>3 DEF DeleteFont, SetFont, OtherCall
<1>4. CASE RShowText
  <2>1. PICK lines \in SUBSET Decoration :
          Returns(IF res.font = Null THEN psdoc ELSE PS_show2(psdoc, lines))
    BY <1>4 DEF RShowText
  <2>2. NeedsLevel /\ UNCHANGED <<opens, pending>>
    BY <1>4 DEF RShowText
  <2> QED
    BY <1>1, <2>1, <2>2 DEF ShowText, OtherCall
<1>5. CASE RBeginFont \/ REndFont \/ RBeginTemplate \/ REndTemplate
  BY <1>5 DEF RBeginFont, REndFont, RBeginTemplate, REndTemplate, OtherCall
<1>6. CASE ROpenImage
  BY <1>6 DEF ROpenImage, OpenImage, OtherCall
<1>7. CASE CloseImage
  BY <1>1, <1>7 DEF CloseImage, OtherCall
<1>8. CASE PlaceImageById
  <2>1. PICK id \in AnyId(res.images) :
          Returns(IF Get(res.images, id) = Null THEN psdoc ELSE PS_place_image(psdoc))
    BY <1>8 DEF PlaceImageById
  <2>2. NeedsLevel /\ UNCHANGED <<opens, pending>>
    BY <1>8 DEF PlaceImageById
  <2> QED
    BY <1>1, <2>1, <2>2 DEF PlaceImage, OtherCall
<1>9. CASE REndPage \/ RDeleteDocument
  BY <1>9 DEF REndPage, RDeleteDocument, OtherCall
<1>10. CASE ROther
  BY <1>10 DEF ROther, OtherCall
<1>11. CASE UNCHANGED rvars
  BY <1>11 DEF rvars, vars, OtherCall
<1> QED
  BY <1>2, <1>3, <1>4, <1>5, <1>6, <1>7, <1>8, <1>9, <1>10, <1>11 DEF RNext

\* A step of the composition is a step of the document, or a stutter of it.
LEMMA DocumentStep ==
  ASSUME [RNext]_rvars
  PROVE  [Next]_vars
BY DocumentCall DEF Next, OtherCall

\* What is proved of the document holds of it with its fonts and images.
THEOREM DocumentWithResources == RSpec => Spec
<1>1. RInit => Init
  BY DEF RInit
<1> QED
  BY <1>1, DocumentStep, PTL DEF RSpec, Spec

----------------------------------------------------------------------------
(* The tables.                                                             *)

\* FirstFree is the first slot that is empty, or the one behind the table.
LEMMA FirstFreeIs ==
  ASSUME NEW S, NEW table \in Seq(S)
  PROVE  /\ FirstFree(table) \in 1..(Len(table) + 1)
         /\ FirstFree(table) \in DOMAIN table => table[FirstFree(table)] = Null
<1> DEFINE free == {i \in DOMAIN table : table[i] = Null}
<1>1. DOMAIN table = 1..Len(table) /\ Len(table) \in Nat
  OBVIOUS
<1>2. CASE free = {}
  BY <1>1, <1>2 DEF FirstFree
<1>3. CASE free # {}
  <2>1. \E i \in free : \A j \in free : i <= j
    <3>1. free \in SUBSET Nat /\ free # {}
      BY <1>1, <1>3
    <3> HIDE DEF free
    <3> QED
      BY <3>1, LeastNumber
  <2>2. FirstFree(table) = CHOOSE i \in free : \A j \in free : i <= j
    BY <1>3 DEF FirstFree
  <2>3. FirstFree(table) \in free
    BY <2>1, <2>2
  <2> QED
    BY <1>1, <2>3
<1> QED
  BY <1>2, <1>3

\* Registering fills an empty slot, or one that is new, and keeps the others.
LEMMA Registers ==
  ASSUME NEW S, Null \in S, NEW table \in Seq(S), NEW x \in S
  PROVE  LET t == Register(table, x)
             slot == FirstFree(table)
         IN  /\ t \in Seq(S) /\ DOMAIN t \subseteq Nat \ {0}
             /\ slot \in DOMAIN t /\ t[slot] = x
             /\ DOMAIN table \subseteq DOMAIN t
             /\ \A i \in DOMAIN t : i # slot =>
                  t[i] = IF i \in DOMAIN table THEN table[i] ELSE Null
             /\ slot \in DOMAIN table => table[slot] = Null
<1> DEFINE slot == FirstFree(table)
           t == [i \in 1..Size(table) |->
                   IF i = slot THEN x ELSE IF i \in DOMAIN table THEN table[i] ELSE Null]
<1>1. DOMAIN table = 1..Len(table) /\ Len(table) \in Nat
  OBVIOUS
<1>2. /\ slot \in 1..(Len(table) + 1)
      /\ slot \in DOMAIN table => table[slot] = Null
  BY FirstFreeIs
<1>3. Size(table) \in Nat /\ Size(table) >= Len(table) /\ slot <= Size(table)
  BY <1>1, <1>2, SlotsAssumption DEF Size
<1>4. /\ \A i \in 1..Size(table) : t[i] \in S
      /\ t \in Seq(S) /\ DOMAIN t = 1..Size(table)
  <2>1. \A i \in DOMAIN table : table[i] \in S
    BY <1>1
  <2>2. \A i \in 1..Size(table) : t[i] \in S
    BY <2>1
  <2> QED
    BY <2>2, <1>3
<1>5. Register(table, x) = t
  BY DEF Register
<1> HIDE DEF slot
<1>6. /\ slot \in DOMAIN t /\ t[slot] = x
      /\ \A i \in DOMAIN t : i # slot => t[i] = IF i \in DOMAIN table THEN table[i] ELSE Null
  BY <1>1, <1>2, <1>3, <1>4
<1>7. DOMAIN t \subseteq Nat \ {0} /\ DOMAIN table \subseteq DOMAIN t
  BY <1>1, <1>3, <1>4
<1> QED
  BY <1>2, <1>4, <1>5, <1>6, <1>7 DEF slot

\* Unregistering empties one slot.
LEMMA Unregisters ==
  ASSUME NEW S, Null \in S, NEW table \in Seq(S), NEW id
  PROVE  LET t == Unregister(table, id)
         IN  /\ t \in Seq(S) /\ DOMAIN t = DOMAIN table
             /\ \A i \in DOMAIN t : t[i] = IF i = id THEN Null ELSE table[i]
<1>1. DOMAIN table = 1..Len(table) /\ Len(table) \in Nat
  OBVIOUS
<1> QED
  BY <1>1 DEF Unregister

\* A pointer that is in one slot is found there.
LEMMA FindsTheSlot ==
  ASSUME NEW table, NEW k \in DOMAIN table,
         \A i \in DOMAIN table : table[i] = table[k] => i = k, k \in Nat
  PROVE  Find(table, table[k]) = k
<1>1. {i \in DOMAIN table : table[i] = table[k]} = {k}
  OBVIOUS
<1>2. (CHOOSE i \in {k} : \A j \in {k} : i <= j) = k
  OBVIOUS
<1> QED
  BY <1>1, <1>2 DEF Find

----------------------------------------------------------------------------
(* The ids the caller holds.                                               *)

\* The ids of the slots that are filled, each with the object that f gives for
\* what is in the slot.
Filled(table, f) ==
  {[id |-> i, object |-> f[table[i]]] : i \in {j \in DOMAIN table : table[j] # Null}}

\* The ids without this one.
Without(held, id) == {h \in held : h.id # id}

\* f and g give the same objects for what is in the slots, id apart.
Agree(table, id, f, g) ==
  \A i \in DOMAIN table : table[i] # Null /\ i # id => g[table[i]] = f[table[i]]

\* The table and the ids after something was registered: what is learned is
\* the id of the slot, and nothing was known by that id before.
LEMMA Learned ==
  ASSUME NEW S, Null \in S, NEW table \in Seq(S), NEW x \in S, x # Null,
         NEW f, NEW g, Agree(table, FirstFree(table), f, g)
  PROVE  Filled(Register(table, x), g) =
           Without(Filled(table, f), FirstFree(table))
             \cup {[id |-> FirstFree(table), object |-> g[x]]}
<1> DEFINE slot == FirstFree(table)
           t == Register(table, x)
           new == [id |-> slot, object |-> g[x]]
<1>1. /\ slot \in DOMAIN t /\ t[slot] = x /\ DOMAIN table \subseteq DOMAIN t
      /\ \A i \in DOMAIN t : i # slot => t[i] = IF i \in DOMAIN table THEN table[i] ELSE Null
      /\ slot \in DOMAIN table => table[slot] = Null
  BY Registers
<1> HIDE DEF slot, t
<1>2. ASSUME NEW h \in Filled(t, g)
      PROVE  h \in Without(Filled(table, f), slot) \cup {new}
  <2>1. PICK i \in DOMAIN t : t[i] # Null /\ h = [id |-> i, object |-> g[t[i]]]
    BY <1>2 DEF Filled
  <2>2. CASE i = slot
    BY <1>1, <2>1, <2>2
  <2>3. CASE i # slot
    <3>1. i \in DOMAIN table /\ t[i] = table[i] /\ table[i] # Null
      BY <1>1, <2>1, <2>3
    <3>2. h = [id |-> i, object |-> f[table[i]]]
      BY <2>1, <2>3, <3>1 DEF Agree, slot
    <3> QED
      BY <2>3, <3>1, <3>2 DEF Filled, Without
  <2> QED
    BY <2>2, <2>3
<1>3. ASSUME NEW h \in Filled(table, f), h.id # slot
      PROVE  h \in Filled(t, g)
  <2>1. PICK i \in DOMAIN table : table[i] # Null /\ h = [id |-> i, object |-> f[table[i]]]
    BY <1>3 DEF Filled
  <2>2. i \in DOMAIN t /\ t[i] = table[i] /\ g[table[i]] = f[table[i]]
    BY <1>1, <1>3, <2>1 DEF Agree, slot
  <2> QED
    BY <2>1, <2>2 DEF Filled
<1>4. new \in Filled(t, g)
  BY <1>1 DEF Filled
<1> QED
  BY <1>2, <1>3, <1>4 DEF slot, t, Without

\* The table and the ids after a slot was emptied.
LEMMA Forgotten ==
  ASSUME NEW S, Null \in S, NEW table \in Seq(S), NEW id, NEW f, NEW g,
         Agree(table, id, f, g)
  PROVE  Filled(Unregister(table, id), g) = Without(Filled(table, f), id)
<1> DEFINE t == Unregister(table, id)
<1>1. /\ DOMAIN t = DOMAIN table
      /\ \A i \in DOMAIN t : t[i] = IF i = id THEN Null ELSE table[i]
  BY Unregisters
<1> HIDE DEF t
<1>2. ASSUME NEW h \in Filled(t, g)
      PROVE  h \in Without(Filled(table, f), id)
  <2>1. PICK i \in DOMAIN t : t[i] # Null /\ h = [id |-> i, object |-> g[t[i]]]
    BY <1>2 DEF Filled
  <2>2. i # id /\ t[i] = table[i] /\ g[table[i]] = f[table[i]] /\ i \in DOMAIN table
    BY <1>1, <2>1 DEF Agree
  <2> QED
    BY <2>1, <2>2 DEF Filled, Without
<1>3. ASSUME NEW h \in Filled(table, f), h.id # id
      PROVE  h \in Filled(t, g)
  <2>1. PICK i \in DOMAIN table : table[i] # Null /\ h = [id |-> i, object |-> f[table[i]]]
    BY <1>3 DEF Filled
  <2>2. i # id /\ i \in DOMAIN t /\ t[i] = table[i] /\ g[table[i]] = f[table[i]]
    BY <1>1, <1>3, <2>1 DEF Agree
  <2> QED
    BY <2>1, <2>2 DEF Filled
<1> QED
  BY <1>2, <1>3 DEF t, Without

----------------------------------------------------------------------------
(* The invariant.                                                          *)

Handle == [id : Nat, object : Nat]

ResourceRecords ==
  [made : Seq([kind : {"font", "image", "template"}, level : Nat, named : BOOLEAN]),
   heap : [Address -> Nat],
   fonts : Seq(Address \cup {Null}),
   images : Seq(Nat),
   font : Address \cup {Null},
   held : [font : SUBSET Handle, image : SUBSET Handle],
   forms : SUBSET Handle,
   known : SUBSET [object : Nat, level : Nat],
   template : Handle,
   type3 : Nat,
   placements : SUBSET [by : Nat, id : Nat, meant : Nat]]

\* What is in the slots of fonts, and what lives in the heap.
Owned(fonts, heap) ==
  /\ \A i, j \in DOMAIN fonts : fonts[i] = fonts[j] /\ fonts[i] # Null => i = j
  /\ \A i \in DOMAIN fonts : fonts[i] # Null => heap[fonts[i]] # Null
  /\ \A a \in Address : heap[a] # Null => \E i \in DOMAIN fonts : fonts[i] = a

\* An image is known by its number.
Itself == [n \in Nat |-> n]

HeldRight(r) ==
  /\ r.held.font = Filled(r.fonts, r.heap)
  /\ r.held.image = Filled(r.images, Itself)

CurrentLives(r) == r.font # Null => r.heap[r.font] # Null

\* Slots and heap agree, the ids are the slots: this no call disturbs,
\* whatever the caller does.
ResInv(r) == r \in ResourceRecords /\ Owned(r.fonts, r.heap) /\ HeldRight(r)

----------------------------------------------------------------------------
(* Fonts come and go.                                                      *)

\* A font is put at a free address and into a slot.
LEMMA OwnedAdded ==
  ASSUME NEW fonts \in Seq(Address \cup {Null}), NEW heap \in [Address -> Nat],
         Owned(fonts, heap), NEW a \in Address, heap[a] = Null, NEW n \in Nat \ {0}
  PROVE  Owned(Register(fonts, a), [heap EXCEPT ![a] = n])
<1> DEFINE slot == FirstFree(fonts)
           t == Register(fonts, a)
           h == [heap EXCEPT ![a] = n]
<1>1. a # Null /\ a \in Address \cup {Null} /\ Null \in Address \cup {Null}
  BY AddressAssumption DEF Null
<1>2. /\ slot \in DOMAIN t /\ t[slot] = a /\ DOMAIN fonts \subseteq DOMAIN t
      /\ \A i \in DOMAIN t : i # slot => t[i] = IF i \in DOMAIN fonts THEN fonts[i] ELSE Null
      /\ slot \in DOMAIN fonts => fonts[slot] = Null
  <2> DEFINE S == Address \cup {Null}
  <2>1. Null \in S /\ fonts \in Seq(S) /\ a \in S
    BY <1>1
  <2> HIDE DEF S
  <2> QED
    BY <2>1, Registers
<1>3. \A i \in DOMAIN fonts : fonts[i] \in Address \cup {Null}
  OBVIOUS
<1> HIDE DEF slot, t
<1>4. \A i \in DOMAIN fonts : fonts[i] # a
  BY <1>1 DEF Owned
<1>5. /\ h[a] = n /\ n # Null
      /\ \A b \in Address : b # a => h[b] = heap[b]
  BY DEF Null
<1> HIDE DEF h
<1>6. \A i, j \in DOMAIN t : t[i] = t[j] /\ t[i] # Null => i = j
  BY <1>1, <1>2, <1>4 DEF Owned
<1>7. \A i \in DOMAIN t : t[i] # Null => h[t[i]] # Null
  BY <1>1, <1>2, <1>3, <1>5 DEF Owned
<1>8. \A b \in Address : h[b] # Null => \E i \in DOMAIN t : t[i] = b
  <2> SUFFICES ASSUME NEW b \in Address, h[b] # Null
               PROVE  \E i \in DOMAIN t : t[i] = b
    OBVIOUS
  <2>1. CASE b = a
    BY <1>2, <2>1
  <2>2. CASE b # a
    <3>1. PICK i \in DOMAIN fonts : fonts[i] = b
      BY <1>5, <2>2 DEF Owned
    <3>2. b # Null
      BY AddressAssumption DEF Null
    <3> QED
      BY <1>2, <3>1, <3>2
  <2> QED
    BY <2>1, <2>2
<1> QED
  BY <1>6, <1>7, <1>8 DEF Owned, t, h

\* The font in a slot is freed, and the slot emptied.
LEMMA OwnedRemoved ==
  ASSUME NEW fonts \in Seq(Address \cup {Null}), NEW heap \in [Address -> Nat],
         Owned(fonts, heap), NEW k \in DOMAIN fonts, fonts[k] # Null
  PROVE  Owned(Unregister(fonts, k), [heap EXCEPT ![fonts[k]] = Null])
<1> DEFINE t == Unregister(fonts, k)
           h == [heap EXCEPT ![fonts[k]] = Null]
<1>1. /\ DOMAIN t = DOMAIN fonts
      /\ \A i \in DOMAIN t : t[i] = IF i = k THEN Null ELSE fonts[i]
  <2>1. Null \in Address \cup {Null}
    OBVIOUS
  <2> QED
    BY <2>1, Unregisters
<1>2. \A i \in DOMAIN fonts : fonts[i] \in Address \cup {Null}
  OBVIOUS
<1>3. /\ h[fonts[k]] = Null
      /\ \A b \in Address : b # fonts[k] => h[b] = heap[b]
  BY <1>2
<1> HIDE DEF t, h
<1>4. \A i, j \in DOMAIN t : t[i] = t[j] /\ t[i] # Null => i = j
  BY <1>1 DEF Owned
<1>5. \A i \in DOMAIN t : t[i] # Null => h[t[i]] # Null
  BY <1>1, <1>2, <1>3 DEF Owned
<1>6. \A b \in Address : h[b] # Null => \E i \in DOMAIN t : t[i] = b
  BY <1>1, <1>3 DEF Owned
<1> QED
  BY <1>4, <1>5, <1>6 DEF Owned, t, h

\* What AddFont changes.
LEMMA AddFontIs ==
  ASSUME NEW r \in ResourceRecords, NEW a \in Address
  PROVE  LET e == AddFont(r, a)
         IN  /\ e \in ResourceRecords
             /\ e.heap = [r.heap EXCEPT ![a] = Next1(r)]
             /\ e.fonts = Register(r.fonts, a)
             /\ e.held.font = Without(r.held.font, FirstFree(r.fonts))
                                \cup {[id |-> FirstFree(r.fonts), object |-> Next1(r)]}
             /\ e.images = r.images /\ e.held.image = r.held.image
             /\ e.font = r.font /\ e.type3 = r.type3
<1> DEFINE slot == FirstFree(r.fonts)
           n == Next1(r)
           f == Without(r.held.font, slot) \cup {[id |-> slot, object |-> n]}
           m == Append(r.made, [kind |-> "font", level |-> 0, named |-> FALSE])
           p == [r.heap EXCEPT ![a] = n]
           t == Register(r.fonts, a)
           e == AddFont(r, a)
<1>1. slot \in Nat /\ n \in Nat
  BY FirstFreeIs DEF ResourceRecords, Next1
<1>2. f \in SUBSET Handle
  BY <1>1 DEF Handle, ResourceRecords, Without
<1>3. m \in Seq([kind : {"font", "image", "template"}, level : Nat, named : BOOLEAN])
  BY DEF ResourceRecords
<1>4. p \in [Address -> Nat]
  BY <1>1 DEF ResourceRecords
<1>5. t \in Seq(Address \cup {Null})
  BY Registers DEF ResourceRecords
<1>6. e = [r EXCEPT !.held["font"] = f, !.made = m, !.heap = p, !.fonts = t]
  BY DEF AddFont, Learn, Without, ResourceRecords
<1> HIDE DEF f, m, p, t, e
<1>7. e \in ResourceRecords
  BY <1>2, <1>3, <1>4, <1>5, <1>6 DEF ResourceRecords
<1>8. /\ e.heap = p /\ e.fonts = t /\ e.held.font = f
      /\ e.images = r.images /\ e.held.image = r.held.image
      /\ e.font = r.font /\ e.type3 = r.type3
  BY <1>6 DEF ResourceRecords
<1> QED
  BY <1>7, <1>8 DEF f, p, t, e

LEMMA AddFontKeeps ==
  ASSUME NEW r, ResInv(r), NEW a \in Address, r.heap[a] = Null
  PROVE  LET e == AddFont(r, a)
         IN  ResInv(e) /\ e.heap[a] = Next1(r) /\ (CurrentLives(r) => CurrentLives(e))
<1> DEFINE e == AddFont(r, a)
           n == Next1(r)
<1>1. /\ e \in ResourceRecords
      /\ e.heap = [r.heap EXCEPT ![a] = n]
      /\ e.fonts = Register(r.fonts, a)
      /\ e.held.font = Without(r.held.font, FirstFree(r.fonts))
                         \cup {[id |-> FirstFree(r.fonts), object |-> n]}
      /\ e.images = r.images /\ e.held.image = r.held.image
      /\ e.font = r.font
  BY AddFontIs DEF ResInv
<1>2. n \in Nat \ {0} /\ r.heap \in [Address -> Nat] /\ r.fonts \in Seq(Address \cup {Null})
  BY DEF Next1, ResInv, ResourceRecords
<1> HIDE DEF e, n
<1>3. Owned(e.fonts, e.heap)
  <2>1. Owned(r.fonts, r.heap) /\ r.heap[a] = Null
    BY DEF ResInv
  <2>2. Owned(Register(r.fonts, a), [r.heap EXCEPT ![a] = n])
    BY <1>2, <2>1, OwnedAdded
  <2> QED
    BY <1>1, <2>2
<1>4. \A i \in DOMAIN r.fonts : r.fonts[i] # Null => e.heap[r.fonts[i]] = r.heap[r.fonts[i]]
  <2> SUFFICES ASSUME NEW i \in DOMAIN r.fonts, r.fonts[i] # Null
               PROVE  e.heap[r.fonts[i]] = r.heap[r.fonts[i]]
    OBVIOUS
  <2>1. r.heap[r.fonts[i]] # Null
    BY DEF ResInv, Owned
  <2> QED
    BY <1>1, <1>2, <2>1
<1>5. e.heap[a] = n
  BY <1>1, <1>2
<1>6. Filled(e.fonts, e.heap) = e.held.font
  <2> DEFINE S == Address \cup {Null}
  <2>1. Null \in S /\ r.fonts \in Seq(S) /\ a \in S /\ a # Null
    BY <1>2, AddressAssumption DEF Null
  <2>2. Agree(r.fonts, FirstFree(r.fonts), r.heap, e.heap)
    BY <1>4 DEF Agree
  <2> HIDE DEF S
  <2>3. Filled(Register(r.fonts, a), e.heap)
          = Without(Filled(r.fonts, r.heap), FirstFree(r.fonts))
              \cup {[id |-> FirstFree(r.fonts), object |-> e.heap[a]]}
    BY <2>1, <2>2, Learned
  <2> QED
    BY <1>1, <1>5, <2>3 DEF ResInv, HeldRight
<1>7. HeldRight(e)
  BY <1>1, <1>6 DEF HeldRight, ResInv
<1>8. CurrentLives(r) => CurrentLives(e)
  <2> SUFFICES ASSUME CurrentLives(r), e.font # Null
               PROVE  e.heap[e.font] # Null
    BY DEF CurrentLives
  <2>1. r.font \in Address /\ r.heap[r.font] # Null /\ e.font = r.font
    BY <1>1 DEF CurrentLives, ResInv, ResourceRecords
  <2> QED
    BY <1>1, <1>2, <2>1
<1> QED
  BY <1>1, <1>3, <1>5, <1>7, <1>8 DEF ResInv, e, n

LEMMA BeginFontKeeps ==
  ASSUME NEW r, ResInv(r), NEW a \in Address, r.heap[a] = Null
  PROVE  LET e == BeginFontIn(r, a)
         IN  /\ ResInv(e) /\ CurrentLives(e)
             /\ e.font = a /\ e.font # Null /\ e.heap[e.font] = e.type3 /\ e.type3 # Null
<1> DEFINE f == AddFont(r, a)
           n == Next1(r)
           e == [f EXCEPT !.font = a, !.type3 = n]
<1>1. ResInv(f) /\ f.heap[a] = n
  BY AddFontKeeps
<1>2. n \in Nat \ {0} /\ a # Null
  BY AddressAssumption DEF Next1, ResInv, ResourceRecords, Null
<1> HIDE DEF f, n
<1>3. /\ e \in ResourceRecords
      /\ e.font = a /\ e.type3 = n /\ e.heap = f.heap /\ e.fonts = f.fonts
      /\ e.images = f.images /\ e.held = f.held
  BY <1>1, <1>2 DEF ResInv, ResourceRecords
<1> HIDE DEF e
<1>4. ResInv(e)
  BY <1>1, <1>3 DEF ResInv, HeldRight
<1>5. e.heap[e.font] = e.type3 /\ e.type3 # Null /\ e.font # Null
  BY <1>1, <1>2, <1>3 DEF Null
<1>6. BeginFontIn(r, a) = e
  BY DEF BeginFontIn, e, f, n
<1> QED
  BY <1>3, <1>4, <1>5, <1>6 DEF CurrentLives

\* PS_deletefont.  Other fonts live on, the current one among them if it is
\* not the one that is deleted.
LEMMA DeleteFontKeeps ==
  ASSUME NEW r, ResInv(r), NEW id
  PROVE  LET e == PS_deletefont(r, id)
         IN  /\ ResInv(e)
             /\ e.font = r.font /\ e.type3 = r.type3
             /\ \A a \in Address : a # Get(r.fonts, id) => e.heap[a] = r.heap[a]
<1> DEFINE a == Get(r.fonts, id)
           f == Without(r.held.font, id)
           t == Unregister(r.fonts, id)
           p == [r.heap EXCEPT ![a] = Null]
           e == [r EXCEPT !.held["font"] = f, !.heap = p, !.fonts = t]
<1>1. CASE a = Null
  BY <1>1 DEF PS_deletefont
<1>2. CASE a # Null
  <2>1. /\ id \in DOMAIN r.fonts /\ a = r.fonts[id]
        /\ a \in Address
        /\ r.fonts \in Seq(Address \cup {Null}) /\ r.heap \in [Address -> Nat]
    BY <1>2 DEF Get, ResInv, ResourceRecords
  <2>2. t \in Seq(Address \cup {Null})
    BY <2>1, Unregisters
  <2>3. f \in SUBSET Handle /\ p \in [Address -> Nat]
    BY <2>1 DEF ResInv, ResourceRecords, Null, Without
  <2>4. PS_deletefont(r, id) = e
    BY <1>2 DEF PS_deletefont, Forget, Without, ResInv, ResourceRecords
  <2>5. Owned(t, p)
    BY <1>2, <2>1, OwnedRemoved DEF ResInv
  <2>6. Filled(t, p) = f
    <3> DEFINE S == Address \cup {Null}
               fonts == r.fonts
               heap == r.heap
    <3>1. Null \in S /\ fonts \in Seq(S)
      BY <2>1
    <3>2. Agree(fonts, id, heap, p)
      BY <1>2, <2>1 DEF ResInv, Owned, Agree
    <3> HIDE DEF S, p, f, a, e, fonts, heap
    <3>3. Filled(Unregister(fonts, id), p) = Without(Filled(fonts, heap), id)
      BY <3>1, <3>2, Forgotten
    <3> QED
      BY <3>3 DEF ResInv, HeldRight, f, fonts, heap
  <2>7. \A b \in Address : b # a => p[b] = r.heap[b]
    BY <2>1
  <2> HIDE DEF f, t, p, a
  <2>8. /\ e \in ResourceRecords
        /\ e.heap = p /\ e.fonts = t /\ e.held.font = f
        /\ e.images = r.images /\ e.held.image = r.held.image
        /\ e.font = r.font /\ e.type3 = r.type3
    BY <2>2, <2>3 DEF ResInv, ResourceRecords
  <2> HIDE DEF e
  <2>9. ResInv(e)
    BY <2>5, <2>6, <2>8 DEF ResInv, HeldRight
  <2> QED
    BY <2>4, <2>7, <2>8, <2>9 DEF a
<1> QED
  BY <1>1, <1>2

\* PS_setfont: the font is one that is in a slot.
LEMMA SetFontKeeps ==
  ASSUME NEW r, ResInv(r), NEW d, NEW id
  PROVE  LET e == PS_setfont(r, d, id)
         IN  /\ ResInv(e) /\ (CurrentLives(r) => CurrentLives(e))
             /\ e.heap = r.heap /\ e.type3 = r.type3
             /\ e = r \/ ps_check_scope(d, DrawingScope)
<1> DEFINE e == [r EXCEPT !.font = r.fonts[id]]
<1>1. CASE ~(ps_check_scope(d, DrawingScope) /\ Get(r.fonts, id) # Null)
  BY <1>1 DEF PS_setfont
<1>2. CASE ps_check_scope(d, DrawingScope) /\ Get(r.fonts, id) # Null
  <2>1. id \in DOMAIN r.fonts /\ r.fonts[id] # Null
    BY <1>2 DEF Get
  <2>2. r.fonts[id] \in Address \cup {Null} /\ r.heap[r.fonts[id]] # Null
    BY <2>1 DEF ResInv, Owned, ResourceRecords
  <2>3. /\ e \in ResourceRecords
        /\ e.font = r.fonts[id] /\ e.heap = r.heap /\ e.fonts = r.fonts
        /\ e.images = r.images /\ e.held = r.held /\ e.type3 = r.type3
    BY <2>2 DEF ResInv, ResourceRecords
  <2> HIDE DEF e
  <2>4. ResInv(e) /\ CurrentLives(e)
    BY <2>2, <2>3 DEF ResInv, HeldRight, CurrentLives
  <2>5. PS_setfont(r, d, id) = e
    BY <1>2 DEF PS_setfont, e
  <2> QED
    BY <1>2, <2>3, <2>4, <2>5
<1> QED
  BY <1>1, <1>2

----------------------------------------------------------------------------
(* Images and templates come and go; what is not about fonts.              *)

\* The fonts are as they were.
SameFonts(r, e) ==
  e.fonts = r.fonts /\ e.heap = r.heap /\ e.font = r.font /\ e.type3 = r.type3

\* An image or a template is registered under its number.
LEMMA ImageAdded ==
  ASSUME NEW r, ResInv(r), NEW e \in ResourceRecords, SameFonts(r, e),
         e.held.font = r.held.font,
         e.images = Register(r.images, Next1(r)),
         e.held.image = Without(r.held.image, FirstFree(r.images))
                          \cup {[id |-> FirstFree(r.images), object |-> Next1(r)]}
  PROVE  ResInv(e)
<1> DEFINE n == Next1(r)
           images == r.images
<1>1. n \in Nat \ {0} /\ images \in Seq(Nat) /\ Null \in Nat /\ n # Null
  BY DEF Next1, ResInv, ResourceRecords, Null
<1>2. Itself[n] = n
  BY <1>1 DEF Itself
<1> HIDE DEF n, images
<1>3. Filled(Register(images, n), Itself)
        = Without(Filled(images, Itself), FirstFree(images))
            \cup {[id |-> FirstFree(images), object |-> Itself[n]]}
  <2> DEFINE S == Nat
             f == Itself
             g == Itself
  <2>1. Null \in S /\ images \in Seq(S) /\ n \in S /\ n # Null
    BY <1>1
  <2>2. Agree(images, FirstFree(images), f, g)
    BY DEF Agree
  <2> HIDE DEF S, f, g
  <2>3. Filled(Register(images, n), g)
          = Without(Filled(images, f), FirstFree(images))
              \cup {[id |-> FirstFree(images), object |-> g[n]]}
    BY <2>1, <2>2, Learned
  <2> QED
    BY <2>3 DEF f, g
<1>4. Filled(e.images, Itself) = e.held.image
  BY <1>2, <1>3 DEF ResInv, HeldRight, n, images
<1> QED
  BY <1>4 DEF ResInv, HeldRight, SameFonts

LEMMA OpenImageKeeps ==
  ASSUME NEW r, ResInv(r), NEW d \in PSDoc, NEW reuse \in BOOLEAN
  PROVE  LET e == OpenImageIn(r, d, reuse) IN ResInv(e) /\ SameFonts(r, e)
<1> DEFINE slot == FirstFree(r.images)
           n == Next1(r)
           f == Without(r.held.image, slot) \cup {[id |-> slot, object |-> n]}
           m == Append(r.made, [kind |-> "image", level |-> Level(d), named |-> reuse])
           t == Register(r.images, n)
           k == IF reuse THEN r.known \cup {[object |-> n, level |-> Level(d)]} ELSE r.known
           e == [r EXCEPT !.held["image"] = f, !.made = m, !.images = t, !.known = k]
<1>0. r.images \in Seq(Nat) /\ Len(r.made) \in Nat
  BY DEF ResInv, ResourceRecords
<1>1. slot \in Nat /\ n \in Nat /\ Level(d) \in Nat
  <2>1. slot \in Nat
    BY <1>0, FirstFreeIs
  <2>2. Level(d) \in Nat
    BY DEF Level, PSDoc
  <2> QED
    BY <1>0, <2>1, <2>2 DEF Next1
<1>2. f \in SUBSET Handle
  BY <1>1 DEF Handle, ResInv, ResourceRecords, Without
<1>3. m \in Seq([kind : {"font", "image", "template"}, level : Nat, named : BOOLEAN])
  BY <1>1 DEF ResInv, ResourceRecords
<1>4. t \in Seq(Nat)
  <2>1. Null \in Nat
    BY DEF Null
  <2> HIDE DEF n
  <2> QED
    BY <1>0, <1>1, <2>1, Registers
<1>5. k \in SUBSET [object : Nat, level : Nat]
  BY <1>1 DEF ResInv, ResourceRecords
<1>6. OpenImageIn(r, d, reuse) = e
  BY DEF OpenImageIn, Learn, Without, ResInv, ResourceRecords
<1> HIDE DEF f, m, t, k
<1>7. /\ e \in ResourceRecords
      /\ e.images = t /\ e.held.image = f /\ e.held.font = r.held.font
      /\ SameFonts(r, e)
  BY <1>2, <1>3, <1>4, <1>5 DEF ResInv, ResourceRecords, SameFonts
<1> HIDE DEF e
<1> QED
  BY <1>6, <1>7, ImageAdded DEF t, f

LEMMA BeginTemplateKeeps ==
  ASSUME NEW r, ResInv(r)
  PROVE  LET e == BeginTemplateIn(r) IN ResInv(e) /\ SameFonts(r, e)
<1> DEFINE slot == FirstFree(r.images)
           n == Next1(r)
           f == Without(r.held.image, slot) \cup {[id |-> slot, object |-> n]}
           m == Append(r.made, [kind |-> "template", level |-> 0, named |-> FALSE])
           t == Register(r.images, n)
           k == [id |-> slot, object |-> n]
           e == [r EXCEPT !.held["image"] = f, !.made = m, !.images = t, !.template = k]
<1>0. r.images \in Seq(Nat) /\ Len(r.made) \in Nat
  BY DEF ResInv, ResourceRecords
<1>1. slot \in Nat /\ n \in Nat
  <2>1. slot \in Nat
    BY <1>0, FirstFreeIs
  <2> QED
    BY <1>0, <2>1 DEF Next1
<1>2. f \in SUBSET Handle
  BY <1>1 DEF Handle, ResInv, ResourceRecords, Without
<1>3. m \in Seq([kind : {"font", "image", "template"}, level : Nat, named : BOOLEAN])
  BY <1>1 DEF ResInv, ResourceRecords
<1>4. t \in Seq(Nat)
  <2>1. Null \in Nat
    BY DEF Null
  <2> HIDE DEF n
  <2> QED
    BY <1>0, <1>1, <2>1, Registers
<1>5. k \in Handle
  BY <1>1 DEF Handle
<1>6. BeginTemplateIn(r) = e
  BY DEF BeginTemplateIn, Learn, Without, ResInv, ResourceRecords
<1> HIDE DEF f, m, t, k
<1>7. /\ e \in ResourceRecords
      /\ e.images = t /\ e.held.image = f /\ e.held.font = r.held.font
      /\ SameFonts(r, e)
  BY <1>2, <1>3, <1>4, <1>5 DEF ResInv, ResourceRecords, SameFonts
<1> HIDE DEF e
<1> QED
  BY <1>6, <1>7, ImageAdded DEF t, f

LEMMA CloseImageKeeps ==
  ASSUME NEW r, ResInv(r), NEW id
  PROVE  LET e == PS_close_image(r, id) IN ResInv(e) /\ SameFonts(r, e)
<1> DEFINE f == Without(r.held.image, id)
           t == Unregister(r.images, id)
           e == [r EXCEPT !.held["image"] = f, !.images = t]
<1>1. CASE Get(r.images, id) = Null
  BY <1>1 DEF PS_close_image, SameFonts
<1>2. CASE Get(r.images, id) # Null
  <2>1. f \in SUBSET Handle
    BY DEF ResInv, ResourceRecords, Without
  <2>2. t \in Seq(Nat)
    BY Unregisters DEF ResInv, ResourceRecords, Null
  <2>3. PS_close_image(r, id) = e
    BY <1>2 DEF PS_close_image, Forget, Without, ResInv, ResourceRecords
  <2>4. Filled(t, Itself) = f
    <3> DEFINE images == r.images
    <3>1. Null \in Nat /\ images \in Seq(Nat)
      BY DEF ResInv, ResourceRecords, Null
    <3>2. Agree(images, id, Itself, Itself)
      BY DEF Agree
    <3> HIDE DEF images
    <3>3. Filled(Unregister(images, id), Itself) = Without(Filled(images, Itself), id)
      BY <3>1, <3>2, Forgotten
    <3> QED
      BY <3>3 DEF ResInv, HeldRight, images
  <2> HIDE DEF f, t
  <2>5. /\ e \in ResourceRecords
        /\ e.images = t /\ e.held.image = f /\ e.held.font = r.held.font
        /\ SameFonts(r, e)
    BY <2>1, <2>2 DEF ResInv, ResourceRecords, SameFonts
  <2> HIDE DEF e
  <2> QED
    BY <2>3, <2>4, <2>5 DEF ResInv, HeldRight, SameFonts
<1> QED
  BY <1>1, <1>2

\* The rest of the calls leaves the tables and the ids alone.
LEMMA SameTables ==
  ASSUME NEW r, ResInv(r), NEW e \in ResourceRecords,
         e.fonts = r.fonts, e.heap = r.heap, e.images = r.images, e.held = r.held
  PROVE  ResInv(e)
BY DEF ResInv, HeldRight

LEMMA PlaceImageKeeps ==
  ASSUME NEW r, ResInv(r), NEW id \in AnyId(r.images)
  PROVE  LET e == PlaceImageIn(r, id) IN ResInv(e) /\ SameFonts(r, e)
<1> DEFINE p == r.placements \cup
                  {[by |-> r.template.object, id |-> id, meant |-> o] :
                     o \in Denotes(r, "image", id)}
           e == [r EXCEPT !.placements = p]
<1>1. CASE ~(r.template # NoTemplate /\ Get(r.images, id) # Null)
  BY <1>1 DEF PlaceImageIn, SameFonts
<1>2. CASE r.template # NoTemplate /\ Get(r.images, id) # Null
  <2>1. r.template.object \in Nat /\ id \in Nat
    BY DEF ResInv, ResourceRecords, Handle, AnyId
  <2>2. Denotes(r, "image", id) \subseteq Nat
    BY DEF ResInv, ResourceRecords, Handle, Denotes
  <2>3. p \in SUBSET [by : Nat, id : Nat, meant : Nat]
    BY <2>1, <2>2 DEF ResInv, ResourceRecords
  <2>4. PlaceImageIn(r, id) = e
    BY <1>2 DEF PlaceImageIn
  <2> HIDE DEF p
  <2>5. /\ e \in ResourceRecords /\ SameFonts(r, e)
        /\ e.images = r.images /\ e.held = r.held
    BY <2>3 DEF ResInv, ResourceRecords, SameFonts
  <2> HIDE DEF e
  <2> QED
    BY <2>4, <2>5, SameTables DEF SameFonts
<1> QED
  BY <1>1, <1>2

LEMMA EndTemplateKeeps ==
  ASSUME NEW r, ResInv(r)
  PROVE  LET e == EndTemplateIn(r) IN ResInv(e) /\ SameFonts(r, e)
<1> DEFINE f == {x \in r.forms : x.id # r.template.id} \cup {r.template}
           e == [r EXCEPT !.forms = f, !.template = NoTemplate]
<1>1. f \in SUBSET Handle /\ NoTemplate \in Handle
  BY DEF ResInv, ResourceRecords, NoTemplate, Null, Handle
<1>2. EndTemplateIn(r) = e
  BY DEF EndTemplateIn
<1> HIDE DEF f
<1>3. /\ e \in ResourceRecords /\ SameFonts(r, e)
      /\ e.images = r.images /\ e.held = r.held
  BY <1>1 DEF ResInv, ResourceRecords, SameFonts
<1> HIDE DEF e
<1> QED
  BY <1>2, <1>3, SameTables DEF SameFonts

\* Ending a font forgets only which one was being defined.
LEMMA EndFontKeeps ==
  ASSUME NEW r, ResInv(r)
  PROVE  LET e == [r EXCEPT !.type3 = Null]
         IN  ResInv(e) /\ e.font = r.font /\ e.heap = r.heap
<1> DEFINE e == [r EXCEPT !.type3 = Null]
<1>1. /\ e \in ResourceRecords
      /\ e.fonts = r.fonts /\ e.heap = r.heap /\ e.font = r.font
      /\ e.images = r.images /\ e.held = r.held
  BY DEF ResInv, ResourceRecords, Null
<1> HIDE DEF e
<1> QED
  BY <1>1, SameTables DEF e

LEMMA PageEndedKeeps ==
  ASSUME NEW r, ResInv(r)
  PROVE  LET e == PageEndedIn(r) IN ResInv(e) /\ e.font = Null
<1> DEFINE k == {x \in r.known : x.level = 0}
           e == [r EXCEPT !.font = Null, !.known = k]
<1>1. k \in SUBSET [object : Nat, level : Nat]
  BY DEF ResInv, ResourceRecords
<1>2. PageEndedIn(r) = e
  BY DEF PageEndedIn
<1> HIDE DEF k
<1>3. /\ e \in ResourceRecords
      /\ e.fonts = r.fonts /\ e.heap = r.heap /\ e.font = Null
      /\ e.images = r.images /\ e.held = r.held
  BY <1>1 DEF ResInv, ResourceRecords
<1> HIDE DEF e
<1> QED
  BY <1>2, <1>3, SameTables

\* PS_delete: every font that lives is in a slot, and is freed.
LEMMA DeleteAllKeeps ==
  ASSUME NEW r, ResInv(r)
  PROVE  LET e == DeleteAll(r) IN ResInv(e) /\ e.font = Null
<1> DEFINE p == [a \in Address |->
                   IF \E i \in DOMAIN r.fonts : r.fonts[i] = a THEN Null ELSE r.heap[a]]
           h == [font |-> {}, image |-> {}]
           e == [r EXCEPT !.heap = p, !.fonts = <<>>, !.images = <<>>, !.font = Null, !.held = h]
<1>1. p \in [Address -> Nat]
  BY DEF ResInv, ResourceRecords, Null
<1>2. \A a \in Address : p[a] = Null
  BY DEF ResInv, Owned
<1>3. h \in [font : SUBSET Handle, image : SUBSET Handle]
  OBVIOUS
<1>4. DeleteAll(r) = e
  BY DEF DeleteAll
<1>5. /\ <<>> \in Seq(Address \cup {Null})
      /\ <<>> \in Seq(Nat)
  OBVIOUS
<1> HIDE DEF p, h
<1>6. /\ e \in ResourceRecords
      /\ e.fonts = <<>> /\ e.heap = p /\ e.font = Null /\ e.images = <<>> /\ e.held = h
  BY <1>1, <1>3, <1>5 DEF ResInv, ResourceRecords
<1> HIDE DEF e
<1>7. Owned(e.fonts, e.heap)
  BY <1>2, <1>6 DEF Owned
<1>8. Filled(e.fonts, e.heap) = {} /\ Filled(e.images, Itself) = {}
  BY <1>6 DEF Filled
<1>9. HeldRight(e)
  BY <1>6, <1>8 DEF HeldRight, h
<1> QED
  BY <1>4, <1>6, <1>7, <1>9 DEF ResInv

----------------------------------------------------------------------------
(* Every call.                                                             *)

\* What a call may do to the fonts and images, whatever it does to the
\* document.
LEMMA ResourceStep ==
  ASSUME ResInv(res), psdoc \in PSDoc, [RNext]_rvars
  PROVE  /\ ResInv(res')
         /\ "font_kept" \in ResourceRules /\ CurrentLives(res) => CurrentLives(res')
<1> DEFINE Fine == /\ ResInv(res')
                   /\ "font_kept" \in ResourceRules /\ CurrentLives(res) => CurrentLives(res')
<1>1. ASSUME ResInv(res'), SameFonts(res, res')
      PROVE  Fine
  BY <1>1 DEF SameFonts, CurrentLives
<1>2. CASE res' = res
  BY <1>2
<1>3. CASE RFindFont
  <2>1. PICK outcome \in {"missing", "default", "encoded"}, a \in FreeAddress :
          res' = FindFontIn(res, psdoc, a, outcome)
    BY <1>3 DEF RFindFont
  <2>2. a \in Address /\ res.heap[a] = Null
    BY DEF FreeAddress
  <2>3. CASE res' = AddFont(res, a)
    BY <2>2, <2>3, AddFontKeeps
  <2> QED
    BY <1>2, <2>1, <2>3 DEF FindFontIn
<1>4. CASE DeleteFont
  <2>1. PICK id \in AnyId(res.fonts) :
          /\ RKeeps("font_kept", Get(res.fonts, id) \in {Null} \cup (Address \ {res.font}))
          /\ res' = PS_deletefont(res, id)
    BY <1>4 DEF DeleteFont
  <2>2. /\ ResInv(res') /\ res'.font = res.font
        /\ \A a \in Address : a # Get(res.fonts, id) => res'.heap[a] = res.heap[a]
    BY <2>1, DeleteFontKeeps
  <2>3. ASSUME "font_kept" \in ResourceRules, CurrentLives(res), res'.font # Null
        PROVE  res'.heap[res'.font] # Null
    <3>1. res.font \in Address /\ res.font # Get(res.fonts, id)
      BY <2>1, <2>2, <2>3 DEF RKeeps, ResInv, ResourceRecords
    <3> QED
      BY <2>2, <2>3, <3>1 DEF CurrentLives
  <2> QED
    BY <2>2, <2>3 DEF CurrentLives
<1>5. CASE SetFont
  <2>1. PICK id \in AnyId(res.fonts) : res' = PS_setfont(res, psdoc, id)
    BY <1>5 DEF SetFont
  <2> QED
    BY <2>1, SetFontKeeps
<1>6. CASE RBeginFont
  <2>1. PICK a \in FreeAddress : res' = IF Definable THEN BeginFontIn(res, a) ELSE res
    BY <1>6 DEF RBeginFont
  <2>2. a \in Address /\ res.heap[a] = Null
    BY DEF FreeAddress
  <2>3. CASE res' = BeginFontIn(res, a)
    BY <2>2, <2>3, BeginFontKeeps
  <2> QED
    BY <1>2, <2>1, <2>3
<1>7. CASE REndFont
  <2>1. CASE res' = [res EXCEPT !.type3 = Null]
    BY <2>1, EndFontKeeps DEF CurrentLives
  <2> QED
    BY <1>2, <1>7, <2>1 DEF REndFont
<1>8. CASE ROpenImage
  <2>1. PICK reuse \in BOOLEAN : res' \in {OpenImageIn(res, psdoc, reuse), res}
    BY <1>8 DEF ROpenImage
  <2> QED
    BY <1>1, <1>2, <2>1, OpenImageKeeps
<1>9. CASE CloseImage
  <2>1. PICK id \in AnyId(res.images) : res' = PS_close_image(res, id)
    BY <1>9 DEF CloseImage
  <2> QED
    BY <1>1, <2>1, CloseImageKeeps
<1>10. CASE PlaceImageById
  <2>1. PICK id \in AnyId(res.images) : res' \in {PlaceImageIn(res, id), res}
    BY <1>10 DEF PlaceImageById
  <2> QED
    BY <1>1, <1>2, <2>1, PlaceImageKeeps
<1>11. CASE RBeginTemplate
  BY <1>1, <1>2, <1>11, BeginTemplateKeeps DEF RBeginTemplate
<1>12. CASE REndTemplate
  BY <1>1, <1>2, <1>12, EndTemplateKeeps DEF REndTemplate
<1>13. CASE REndPage
  <2>1. CASE res' = PageEndedIn(res)
    BY <2>1, PageEndedKeeps DEF CurrentLives
  <2> QED
    BY <1>2, <1>13, <2>1 DEF REndPage
<1>14. CASE RDeleteDocument
  <2>1. CASE res' = DeleteAll(res)
    BY <2>1, DeleteAllKeeps DEF CurrentLives
  <2> QED
    BY <1>2, <1>14, <2>1 DEF RDeleteDocument
<1>15. CASE RShowText \/ ROther \/ UNCHANGED rvars
  BY <1>2, <1>15 DEF RShowText, ROther, SameResources, rvars
<1> QED
  BY <1>3, <1>4, <1>5, <1>6, <1>7, <1>8, <1>9, <1>10, <1>11, <1>12, <1>13, <1>14, <1>15
  DEF RNext

LEMMA ResourcesStart ==
  ASSUME RInit
  PROVE  ResInv(res) /\ CurrentLives(res) /\ res.font = Null
<1> DEFINE m == <<>>
           p == [a \in Address |-> Null]
           t == [i \in 1..Slots |-> Null]
           h == [font |-> {}, image |-> {}]
<1>1. /\ m \in Seq([kind : {"font", "image", "template"}, level : Nat, named : BOOLEAN])
      /\ p \in [Address -> Nat]
      /\ h \in [font : SUBSET Handle, image : SUBSET Handle]
      /\ NoTemplate \in Handle
  BY DEF NoTemplate, Handle, Null
<1>2. t \in Seq(Address \cup {Null}) /\ t \in Seq(Nat)
  <2>1. Slots \in Nat /\ \A i \in 1..Slots : t[i] \in Address \cup {Null} /\ t[i] \in Nat
    BY SlotsAssumption DEF Null
  <2> QED
    BY <2>1
<1>3. \A i \in DOMAIN t : t[i] = Null
  OBVIOUS
<1>4. \A a \in Address : p[a] = Null
  OBVIOUS
<1> DEFINE r == [made |-> m, heap |-> p, fonts |-> t, images |-> t, font |-> Null, held |-> h,
                 forms |-> {}, known |-> {}, template |-> NoTemplate, type3 |-> Null,
                 placements |-> {}]
<1>5. res = r
  BY DEF RInit, NewResources
<1> HIDE DEF m, p, t, h
<1>6. r \in ResourceRecords
  <2>1. Null \in Nat
    BY DEF Null
  <2> QED
    BY <1>1, <1>2, <2>1 DEF ResourceRecords
<1>7. Owned(t, p)
  BY <1>3, <1>4 DEF Owned
<1>8. Filled(t, p) = {} /\ Filled(t, Itself) = {}
  BY <1>3 DEF Filled
<1>9. HeldRight(r)
  BY <1>8 DEF HeldRight, h
<1> QED
  BY <1>5, <1>6, <1>7, <1>9 DEF ResInv, CurrentLives

\* The invariant holds whatever the caller does.
THEOREM ResourceInvariance == RSpec => []ResInv(res)
<1>1. RInit => ResInv(res)
  BY ResourcesStart
<1>2. IInv /\ ResInv(res) /\ [RNext]_rvars => ResInv(res)'
  BY ResourceStep DEF IInv, Good
<1> QED
  BY <1>1, <1>2, DocumentWithResources, Invariance, PTL DEF RSpec

\* A font is in exactly one slot as long as it lives, and no slot has a font
\* that is freed: through all reuse of slots and addresses and all growth of
\* the table nothing is lost, and PS_delete frees nothing twice, whatever the
\* caller deletes.
THEOREM FontsOwnedOnce == RSpec => []OwnedOnce
<1>1. ResInv(res) => OwnedOnce
  <2> SUFFICES ASSUME ResInv(res), NEW a \in Address, res.heap[a] # Null
               PROVE  Cardinality({i \in DOMAIN res.fonts : res.fonts[i] = a}) = 1
    BY DEF OwnedOnce, ResInv, Owned
  <2>1. PICK k \in DOMAIN res.fonts : res.fonts[k] = a
    BY DEF ResInv, Owned
  <2>2. a # Null
    BY AddressAssumption DEF Null
  <2>3. {i \in DOMAIN res.fonts : res.fonts[i] = a} = {k}
    BY <2>1, <2>2 DEF ResInv, Owned
  <2> QED
    BY <2>3, FS_Singleton
<1> QED
  BY <1>1, ResourceInvariance, PTL

\* The ids the caller holds are the slots that are filled, and each denotes
\* what was made when the caller got it; the current font, if the caller does
\* not delete it, is one of them, and PS_getfont finds its id.
THEOREM HandlesAreRight ==
  ASSUME "font_kept" \in ResourceRules
  PROVE  RSpec => []HandlesDenote
<1>1. RInit => ResInv(res) /\ CurrentLives(res)
  BY ResourcesStart
<1>2. IInv /\ ResInv(res) /\ CurrentLives(res) /\ [RNext]_rvars => CurrentLives(res)'
  BY ResourceStep DEF IInv, Good
<1>3. ResInv(res) /\ CurrentLives(res) => HandlesDenote
  <2> SUFFICES ASSUME ResInv(res), CurrentLives(res)
               PROVE  HandlesDenote
    OBVIOUS
  <2>1. res.held.font = {[id |-> i, object |-> res.heap[res.fonts[i]]] :
                           i \in {j \in DOMAIN res.fonts : res.fonts[j] # Null}}
    BY DEF ResInv, HeldRight, Filled
  <2>2. res.held.image = {[id |-> i, object |-> res.images[i]] :
                            i \in {j \in DOMAIN res.images : res.images[j] # Null}}
    <3>1. \A i \in DOMAIN res.images : Itself[res.images[i]] = res.images[i]
      BY DEF ResInv, ResourceRecords, Itself
    <3> QED
      BY <3>1 DEF ResInv, HeldRight, Filled
  <2>3. ASSUME res.font # Null
        PROVE  [id |-> PS_getfont(res), object |-> res.heap[res.font]] \in res.held.font
    <3>1. res.font \in Address /\ res.heap[res.font] # Null
      BY <2>3 DEF ResInv, ResourceRecords, CurrentLives
    <3>2. PICK k \in DOMAIN res.fonts : res.fonts[k] = res.font
      BY <3>1 DEF ResInv, Owned
    <3>3. k \in Nat /\ \A i \in DOMAIN res.fonts : res.fonts[i] = res.fonts[k] => i = k
      BY <2>3, <3>2 DEF ResInv, Owned, ResourceRecords
    <3>4. PS_getfont(res) = k
      BY <3>2, <3>3, FindsTheSlot DEF PS_getfont
    <3> QED
      BY <2>1, <2>3, <3>2, <3>4
  <2> QED
    BY <2>1, <2>2, <2>3 DEF HandlesDenote
<1> QED
  BY <1>1, <1>2, <1>3, DocumentWithResources, Invariance, ResourceInvariance, PTL DEF RSpec

----------------------------------------------------------------------------
(* The font that is being defined.                                         *)

\* No font is being defined.
NoFont(d) ==
  /\ "scopes" \in DOMAIN d /\ d.scopes \in Seq(Scope)
  /\ \A i \in 1..Len(d.scopes) : d.scopes[i] # "FONT"

\* What leaves the stack alone.
LEMMA SameStackNoFont ==
  ASSUME NEW d, NoFont(d), NEW e, DOMAIN e = DOMAIN d, e.scopes = d.scopes
  PROVE  NoFont(e)
BY DEF NoFont

LEMMA EnterNoFont ==
  ASSUME NEW d, NoFont(d), NEW s \in Scope, s # "FONT"
  PROVE  NoFont(ps_enter_scope(d, s))
<1> DEFINE t == Append(d.scopes, s)
           e == [d EXCEPT !.scopes = t]
<1>1. t \in Seq(Scope) /\ \A i \in 1..Len(t) : t[i] # "FONT"
  <2>1. PICK k \in Nat : k = Len(d.scopes)
    BY DEF NoFont
  <2>2. /\ t \in Seq(Scope) /\ Len(t) = k + 1 /\ t[k + 1] = s
        /\ \A i \in 1..k : t[i] = d.scopes[i]
    BY <2>1 DEF NoFont
  <2> HIDE DEF t
  <2>3. \A i \in 1..(k + 1) : t[i] # "FONT"
    BY <2>1, <2>2 DEF NoFont
  <2> QED
    BY <2>2, <2>3
<1> HIDE DEF t
<1>2. NoFont(e)
  BY <1>1 DEF NoFont
<1> QED
  BY <1>2 DEF ps_enter_scope, t

LEMMA LeaveNoFont ==
  ASSUME NEW d, NoFont(d), NEW s
  PROVE  NoFont(ps_leave_scope(d, s))
<1> DEFINE t == SubSeq(d.scopes, 1, Len(d.scopes) - 1)
           e == [d EXCEPT !.scopes = t]
<1>1. t \in Seq(Scope) /\ \A i \in 1..Len(t) : t[i] # "FONT"
  BY DEF NoFont
<1> HIDE DEF t
<1>2. NoFont(e)
  BY <1>1 DEF NoFont
<1> QED
  BY <1>2 DEF ps_leave_scope, t

LEMMA PrintNoFont ==
  ASSUME NEW d, NoFont(d), NEW n
  PROVE  NoFont(ps_printf(d, n))
BY SameStackNoFont DEF ps_printf, NoFont

LEMMA NestNoFont ==
  ASSUME NEW d, NoFont(d), NEW c
  PROVE  NoFont(Opening(d, c)) /\ NoFont(Closing(d, c))
BY PrintNoFont DEF Opening, Closing

LEMMA PrologNoFont ==
  ASSUME NEW d, NoFont(d)
  PROVE  NoFont(PrologStarted(d)) /\ NoFont(ps_write_ps_header(d))
<1>1. ASSUME NEW x, NoFont(x)
      PROVE  NoFont(ps_write_ps_comments(x)) /\ NoFont(ps_write_ps_setup(x))
  <2>1. NoFont(ps_printf(x, x.nest))
    BY <1>1, PrintNoFont
  <2> QED
    BY <2>1, SameStackNoFont DEF ps_write_ps_comments, ps_write_ps_setup, NoFont
<1>2. ASSUME NEW x, NoFont(x)
      PROVE  NoFont(ps_write_ps_beginprolog(x))
  <2>1. NoFont(Opening(ps_enter_scope(x, "PROLOG"), "prolog"))
    BY <1>2, EnterNoFont, NestNoFont DEF Scope
  <2> QED
    BY <2>1, SameStackNoFont DEF ps_write_ps_beginprolog, NoFont
<1>3. ASSUME NEW x, NoFont(x)
      PROVE  NoFont(ps_write_ps_endprolog(x))
  <2>1. NoFont(ps_leave_scope(Closing(x, "prolog"), "PROLOG"))
    BY <1>3, LeaveNoFont, NestNoFont
  <2> QED
    BY <2>1, SameStackNoFont DEF ps_write_ps_endprolog, NoFont
<1>4. NoFont(PrologStarted(d))
  BY <1>1, <1>2 DEF PrologStarted
<1>5. NoFont(ps_write_ps_header(d))
  <2> DEFINE d1 == IF d.commentswritten THEN d ELSE ps_write_ps_comments(d)
             d2 == IF d1.beginprologwritten THEN d1 ELSE ps_write_ps_beginprolog(d1)
             d3 == IF d2.endprologwritten THEN d2 ELSE ps_write_ps_endprolog(d2)
             d4 == IF d3.setupwritten THEN d3 ELSE ps_write_ps_setup(d3)
             d5 == [d4 EXCEPT !.headerwritten = TRUE]
  <2>1. NoFont(d1)
    BY <1>1
  <2> HIDE DEF d1
  <2>2. NoFont(d2)
    BY <1>2, <2>1
  <2> HIDE DEF d2
  <2>3. NoFont(d3)
    BY <1>3, <2>2
  <2> HIDE DEF d3
  <2>4. NoFont(d4)
    BY <1>1, <2>3
  <2> HIDE DEF d4
  <2>5. NoFont(d5)
    BY <2>4, SameStackNoFont DEF NoFont
  <2>6. ps_write_ps_header(d) = IF d.headerwritten THEN d ELSE d5
    BY DEF ps_write_ps_header, d1, d2, d3, d4
  <2> HIDE DEF d5
  <2> QED
    BY <2>5, <2>6
<1> QED
  BY <1>4, <1>5

LEMMA OpenNoFont ==
  ASSUME NEW d, NoFont(d)
  PROVE  /\ \A file \in {"caller", "lib"} : NoFont(PS_open_fp(d, file))
         /\ NoFont(PS_open_file(d))
         /\ \A w : NoFont(PS_open_mem(d, w))
<1>1. ASSUME NEW x, NoFont(x)
      PROVE  NoFont(OpenStream(x))
  <2> DEFINE o == [x EXCEPT !.page = 0, !.doc_open = TRUE, !.phase = "empty", !.nest = <<>>]
  <2>1. NoFont(o)
    BY <1>1, SameStackNoFont DEF NoFont
  <2> HIDE DEF o
  <2>2. NoFont(ps_enter_scope(o, "DOCUMENT"))
    BY <2>1, EnterNoFont DEF Scope
  <2> QED
    BY <2>2 DEF OpenStream, o
<1>2. ASSUME NEW file \in {"caller", "lib"}
      PROVE  NoFont(PS_open_fp(d, file))
  <2> DEFINE o == [d EXCEPT !.fp = file, !.closefp = FALSE, !.writeproc = "file"]
  <2>1. NoFont(o)
    BY SameStackNoFont DEF NoFont
  <2> HIDE DEF o
  <2> QED
    BY <1>1, <2>1 DEF PS_open_fp, o
<1>3. NoFont(PS_open_file(d))
  <2>1. NoFont(PS_open_fp(d, "lib"))
    BY <1>2
  <2> QED
    BY <2>1, SameStackNoFont DEF PS_open_file, NoFont
<1>4. ASSUME NEW w
      PROVE  NoFont(PS_open_mem(d, w))
  <2> DEFINE o == [d EXCEPT !.writeproc = w, !.fp = "null"]
  <2>1. NoFont(o)
    BY SameStackNoFont DEF NoFont
  <2> HIDE DEF o
  <2> QED
    BY <1>1, <2>1 DEF PS_open_mem, o
<1> QED
  BY <1>2, <1>3, <1>4

LEMMA PageNoFont ==
  ASSUME NEW d, NoFont(d)
  PROVE  NoFont(PS_begin_page(d)) /\ NoFont(PS_end_page(d))
<1>1. NoFont(PS_begin_page(d))
  <2> DEFINE h == ps_write_ps_header(d)
             n == [h EXCEPT !.page = @ + 1, !.phase = "script"]
             p == Opening(n, "page")
             o == [p EXCEPT !.page_open = TRUE]
             e == ps_enter_scope(o, "PAGE")
  <2>1. NoFont(h)
    BY PrologNoFont
  <2> HIDE DEF h
  <2>2. NoFont(n)
    BY <2>1, SameStackNoFont DEF NoFont
  <2> HIDE DEF n
  <2>3. NoFont(p)
    BY <2>2, NestNoFont
  <2> HIDE DEF p
  <2>4. NoFont(o)
    BY <2>3, SameStackNoFont DEF NoFont
  <2> HIDE DEF o
  <2>5. NoFont(e)
    BY <2>4, EnterNoFont DEF Scope
  <2>6. PS_begin_page(d) = IF ~ps_check_scope(h, {"DOCUMENT"}) THEN h ELSE e
    BY DEF PS_begin_page, h, n, p, o
  <2> HIDE DEF e
  <2> QED
    BY <2>1, <2>5, <2>6
<1>2. NoFont(PS_end_page(d))
  <2> DEFINE c == Closing(d, "page")
             e == [c EXCEPT !.page_open = FALSE]
  <2>1. NoFont(c)
    BY NestNoFont
  <2> HIDE DEF c
  <2>2. NoFont(e)
    BY <2>1, SameStackNoFont DEF NoFont
  <2> HIDE DEF e
  <2>3. NoFont(ps_leave_scope(e, "PAGE"))
    BY <2>2, LeaveNoFont
  <2> QED
    BY <2>3 DEF PS_end_page, e, c
<1> QED
  BY <1>1, <1>2

LEMMA CloseNoFont ==
  ASSUME NEW d, NoFont(d)
  PROVE  NoFont(PS_close(d))
<1> DEFINE e == IF d.page_open THEN PS_end_page(d) ELSE d
           t == IF e.doc_open THEN ps_leave_scope(Trailer(e), "DOCUMENT") ELSE e
           c == IF t.closefp /\ t.fp # "null" THEN [t EXCEPT !.fp = "null"] ELSE t
           f == [c EXCEPT !.doc_open = FALSE]
<1>1. NoFont(e)
  BY PageNoFont
<1>2. PS_close(d) = IF ~ps_check_scope(e, {"DOCUMENT"}) THEN e ELSE f
  BY DEF PS_close
<1> HIDE DEF e
<1>3. NoFont(t)
  <2> DEFINE p == ps_printf(e, IF e.nest = <<>> THEN <<>> ELSE Garbled)
             q == [p EXCEPT !.phase = "trailer"]
  <2>1. NoFont(p)
    BY <1>1, PrintNoFont
  <2> HIDE DEF p
  <2>2. NoFont(q)
    BY <2>1, SameStackNoFont DEF NoFont
  <2>3. Trailer(e) = q
    BY DEF Trailer, p
  <2> HIDE DEF q
  <2> QED
    BY <1>1, <2>2, <2>3, LeaveNoFont
<1> HIDE DEF t
<1>4. NoFont(c)
  BY <1>3, SameStackNoFont DEF NoFont
<1> HIDE DEF c
<1>5. NoFont(f)
  BY <1>4, SameStackNoFont DEF NoFont
<1> HIDE DEF f
<1> QED
  BY <1>1, <1>2, <1>5

LEMMA DefinitionsNoFont ==
  ASSUME NEW d, NoFont(d)
  PROVE  /\ NoFont(PS_begin_template(d)) /\ NoFont(PS_begin_pattern(d)) /\ NoFont(PS_begin_glyph(d))
         /\ NoFont(PS_end_template(d)) /\ NoFont(PS_end_pattern(d))
         /\ NoFont(PS_end_font(d)) /\ NoFont(PS_end_glyph(d))
<1>1. ASSUME NEW s \in Scope, s # "FONT", NEW c
      PROVE  NoFont(BeginDefinition(d, s, c))
  <2> DEFINE p == PrologStarted(d)
  <2>1. NoFont(p)
    BY PrologNoFont
  <2> HIDE DEF p
  <2>2. NoFont(ps_enter_scope(Opening(p, c), s))
    BY <1>1, <2>1, NestNoFont, EnterNoFont
  <2> QED
    BY <2>1, <2>2 DEF BeginDefinition, p
<1>2. ASSUME NEW s, NEW c
      PROVE  NoFont(EndDefinition(d, s, c))
  <2>1. NoFont(ps_leave_scope(Closing(d, c), s))
    BY NestNoFont, LeaveNoFont
  <2> QED
    BY <2>1 DEF EndDefinition
<1>3. NoFont(PS_begin_template(d))
  <2> DEFINE t == BeginDefinition(d, "TEMPLATE", "proc")
  <2>1. NoFont(t)
    BY <1>1 DEF Scope
  <2> HIDE DEF t
  <2>2. NoFont([t EXCEPT !.images = TRUE])
    BY <2>1, SameStackNoFont DEF NoFont
  <2> QED
    BY <2>1, <2>2 DEF PS_begin_template, t
<1>4. NoFont(PS_begin_pattern(d))
  BY <1>1 DEF PS_begin_pattern, Scope
<1>5. NoFont(PS_begin_glyph(d))
  <2>1. NoFont(ps_enter_scope(Opening(d, "charproc"), "GLYPH"))
    BY NestNoFont, EnterNoFont DEF Scope
  <2> QED
    BY <2>1 DEF PS_begin_glyph
<1> QED
  BY <1>2, <1>3, <1>4, <1>5 DEF PS_end_template, PS_end_pattern, PS_end_font, PS_end_glyph

LEMMA LoadsNoFont ==
  ASSUME NEW d, NoFont(d)
  PROVE  /\ \A writes : NoFont(PS_findfont(d, writes))
         /\ \A reuse : NoFont(PS_open_image(d, reuse))
         /\ NoFont(PS_include_file(d))
         /\ \A found : NoFont(PS_shading_pattern(d, found))
<1>1. NoFont(PrologStarted(d))
  BY PrologNoFont
<1>2. ASSUME NEW reuse
      PROVE  NoFont(PS_open_image(d, reuse))
  <2> DEFINE p == IF reuse THEN PrologStarted(d) ELSE d
  <2>1. NoFont(p)
    BY <1>1
  <2> HIDE DEF p
  <2>2. NoFont([p EXCEPT !.images = TRUE])
    BY <2>1, SameStackNoFont DEF NoFont
  <2> QED
    BY <2>1, <2>2 DEF PS_open_image, p
<1>3. ASSUME NEW found
      PROVE  NoFont(PS_shading_pattern(d, found))
  BY PrintNoFont DEF PS_shading_pattern
<1> QED
  BY <1>1, <1>2, <1>3 DEF PS_findfont, PS_include_file

LEMMA DrawsNoFont ==
  ASSUME NEW d, NoFont(d)
  PROVE  /\ NoFont(PS_moveto(d)) /\ NoFont(PS_arc(d)) /\ NoFont(PaintPath(d))
         /\ NoFont(PS_save(d)) /\ NoFont(PS_restore(d))
<1>1. NoFont(ps_enter_scope(d, "PATH")) /\ NoFont(ps_leave_scope(d, "PATH"))
  BY EnterNoFont, LeaveNoFont DEF Scope
<1>2. NoFont(PS_save(d)) /\ NoFont(PS_restore(d))
  <2> DEFINE o == Opening(d, "gsave")
             c == Closing(d, "gsave")
  <2>1. NoFont(o) /\ NoFont(c)
    BY NestNoFont
  <2> HIDE DEF o, c
  <2>2. NoFont([o EXCEPT !.agstate = @ + 1]) /\ NoFont([c EXCEPT !.agstate = @ - 1])
    BY <2>1, SameStackNoFont DEF NoFont
  <2> QED
    BY <2>2 DEF PS_save, PS_restore, o, c
<1> QED
  BY <1>1, <1>2 DEF PS_moveto, PS_arc, StartPath, PaintPath

LEMMA TextNoFont ==
  ASSUME NEW d, NoFont(d)
  PROVE  /\ \A lines : NoFont(PS_show2(d, lines))
         /\ NoFont(PS_place_image(d))
<1>1. ASSUME NEW x, NoFont(x)
      PROVE  NoFont(DrawLine(x))
  BY <1>1, DrawsNoFont DEF DrawLine
<1>2. ASSUME NEW lines
      PROVE  NoFont(PS_show2(d, lines))
  <2> DEFINE u == IF "underline" \in lines THEN DrawLine(d) ELSE d
             o == IF "overline" \in lines THEN DrawLine(u) ELSE u
             s == IF "strikeout" \in lines THEN DrawLine(o) ELSE o
  <2>1. NoFont(u)
    BY <1>1
  <2> HIDE DEF u
  <2>2. NoFont(o)
    BY <1>1, <2>1
  <2> HIDE DEF o
  <2>3. NoFont(s)
    BY <1>1, <2>2
  <2>4. PS_show2(d, lines) = IF ps_check_scope(d, DrawingScope) THEN s ELSE d
    BY DEF PS_show2, u, o
  <2> HIDE DEF s
  <2> QED
    BY <2>3, <2>4
<1>3. NoFont(PS_place_image(d))
  BY DrawsNoFont DEF PS_place_image
<1> QED
  BY <1>2, <1>3

\* No call but PS_begin_font begins to define a font.
LEMMA StepNoFont ==
  ASSUME NoFont(psdoc), NoFontBegun
  PROVE  NoFont(psdoc')
<1>1. ASSUME NEW d, NoFont(d), Returns(d)
      PROVE  NoFont(psdoc')
  <2>1. NoFont([psdoc EXCEPT !.life = "crashed"])
    BY SameStackNoFont DEF NoFont
  <2> QED
    BY <1>1, <2>1 DEF Returns
<1>2. CASE OpenDocument
  <2>1. PICK d : Returns(d) /\ NoFont(d)
    BY <1>2, OpenNoFont DEF OpenDocument
  <2> QED
    BY <1>1, <2>1
<1>3. CASE CloseDocument \/ DeleteDocument
  <2>1. NoFont(PS_close(psdoc))
    BY CloseNoFont
  <2>2. NoFont(PS_delete(psdoc))
    <3> DEFINE c == IF psdoc.doc_open THEN PS_close(psdoc) ELSE psdoc
    <3>1. NoFont(c)
      BY <2>1
    <3> HIDE DEF c
    <3>2. NoFont([c EXCEPT !.life = "freed"])
      BY <3>1, SameStackNoFont DEF NoFont
    <3> QED
      BY <3>1, <3>2 DEF PS_delete, c
  <2> QED
    BY <1>1, <1>3, <2>1, <2>2 DEF CloseDocument, DeleteDocument
<1>4. CASE BeginPage \/ EndPage
  BY <1>1, <1>4, PageNoFont DEF BeginPage, EndPage
<1>5. CASE BeginTemplate \/ EndTemplate \/ BeginPattern \/ EndPattern
             \/ EndFont \/ BeginGlyph \/ EndGlyph
  BY <1>1, <1>5, DefinitionsNoFont
  DEF BeginTemplate, EndTemplate, BeginPattern, EndPattern, EndFont, BeginGlyph, EndGlyph
<1>6. CASE FindFont \/ OpenImage \/ IncludeFile \/ ShadingPattern
  BY <1>1, <1>6, LoadsNoFont DEF FindFont, OpenImage, IncludeFile, ShadingPattern
<1>7. CASE ConstructPath \/ EndPath \/ Save \/ Restore
  BY <1>1, <1>7, DrawsNoFont DEF ConstructPath, EndPath, Save, Restore
<1>8. CASE ShowText \/ PlaceImage
  BY <1>1, <1>8, TextNoFont DEF ShowText, PlaceImage
<1>9. CASE UNCHANGED vars
  BY <1>9 DEF vars
<1> QED
  BY <1>2, <1>3, <1>4, <1>5, <1>6, <1>7, <1>8, <1>9 DEF NoFontBegun, OtherCall

\* What lies above a font that is being defined: a glyph, and a path on it.
LEMMA AboveFont ==
  ASSUME NEW d, Good(d), OneDocument(d),
         NEW j \in 1..Len(d.scopes), d.scopes[j] = "FONT"
  PROVE  /\ Len(d.scopes) <= j + 2
         /\ j + 1 <= Len(d.scopes) => d.scopes[j + 1] = "GLYPH"
         /\ j + 2 <= Len(d.scopes) => d.scopes[j + 2] = "PATH"
<1>1. PICK k \in Nat : k = Len(d.scopes)
  BY DEF Good, PSDoc
<1>2. /\ j \in Nat /\ j >= 1 /\ j <= k /\ j # 1
      /\ \A i \in 1..k : d.scopes[i] \in Scope
      /\ \A i \in 2..k : d.scopes[i - 1] \in Below(d.scopes[i])
  BY <1>1 DEF Good, PSDoc, Nested
<1>3. \A i \in 3..k : d.scopes[i] # "DOCUMENT"
  BY <1>1 DEF OneDocument
<1>4. ASSUME NEW s \in Scope, s # "DOCUMENT"
      PROVE  /\ "FONT" \in Below(s) => s = "GLYPH"
             /\ "GLYPH" \in Below(s) => s = "PATH"
             /\ "PATH" \notin Below(s)
  BY <1>4 DEF Below, Scope, DrawingScope
<1>5. ASSUME NEW n \in Nat, n >= 2, n + 1 <= k
      PROVE  /\ d.scopes[n + 1] \in Scope /\ d.scopes[n + 1] # "DOCUMENT"
             /\ d.scopes[n] \in Below(d.scopes[n + 1])
  <2>1. n + 1 \in 2..k /\ n + 1 \in 1..k /\ n + 1 \in 3..k /\ (n + 1) - 1 = n
    BY <1>5
  <2> QED
    BY <1>2, <1>3, <2>1
<1>6. j + 1 <= k => d.scopes[j + 1] = "GLYPH"
  BY <1>2, <1>4, <1>5
<1>7. j + 2 <= k => d.scopes[j + 2] = "PATH"
  <2> SUFFICES ASSUME j + 2 <= k
               PROVE  d.scopes[j + 2] = "PATH"
    OBVIOUS
  <2>1. j + 1 \in Nat /\ j + 1 >= 2 /\ (j + 1) + 1 <= k /\ j + 1 <= k /\ (j + 1) + 1 = j + 2
    BY <1>2
  <2>2. /\ d.scopes[j + 2] \in Scope /\ d.scopes[j + 2] # "DOCUMENT"
        /\ d.scopes[j + 1] \in Below(d.scopes[j + 2])
    BY <1>5, <2>1
  <2> QED
    BY <1>4, <1>6, <2>1, <2>2
<1>8. ~(j + 3 <= k)
  <2> SUFFICES ASSUME j + 3 <= k
               PROVE  FALSE
    OBVIOUS
  <2>1. j + 2 \in Nat /\ j + 2 >= 2 /\ (j + 2) + 1 <= k /\ j + 2 <= k
    BY <1>2
  <2>2. /\ d.scopes[(j + 2) + 1] \in Scope /\ d.scopes[(j + 2) + 1] # "DOCUMENT"
        /\ d.scopes[j + 2] \in Below(d.scopes[(j + 2) + 1])
    BY <1>5, <2>1
  <2> QED
    BY <1>4, <1>7, <2>1, <2>2
<1> QED
  BY <1>1, <1>2, <1>6, <1>7, <1>8

\* So as long as a font is being defined most calls are refused, and when it
\* is ended there is no other.
LEMMA InFont ==
  ASSUME NEW d, Good(d), OneDocument(d), ~NoFont(d)
  PROVE  /\ ps_current_scope(d) \in {"FONT", "GLYPH", "PATH"}
         /\ d.beginprologwritten
         /\ \A e : /\ ps_current_scope(d) = "FONT"
                   /\ "scopes" \in DOMAIN e /\ e.scopes = Popped(d.scopes)
                   => NoFont(e)
<1>1. PICK k \in Nat : k = Len(d.scopes)
  BY DEF Good, PSDoc
<1>2. /\ d.scopes \in Seq(Scope) /\ "scopes" \in DOMAIN d /\ k >= 1
  BY <1>1 DEF Good, PSDoc
<1>3. PICK j \in 1..k : d.scopes[j] = "FONT"
  BY <1>1, <1>2 DEF NoFont
<1>4. /\ k <= j + 2
      /\ j + 1 <= k => d.scopes[j + 1] = "GLYPH"
      /\ j + 2 <= k => d.scopes[j + 2] = "PATH"
  BY <1>1, <1>3, AboveFont
<1>5. k = j \/ k = j + 1 \/ k = j + 2
  BY <1>3, <1>4
<1>6. d.scopes[k] \in {"FONT", "GLYPH", "PATH"}
  BY <1>3, <1>4, <1>5
<1>7. d.beginprologwritten
  BY <1>1, <1>3 DEF Good
<1>8. ASSUME NEW e, ps_current_scope(d) = "FONT",
             "scopes" \in DOMAIN e, e.scopes = Popped(d.scopes)
      PROVE  NoFont(e)
  <2>1. /\ e.scopes \in Seq(Scope) /\ Len(e.scopes) = k - 1
        /\ \A i \in 1..(k - 1) : e.scopes[i] = d.scopes[i]
    BY <1>1, <1>8, PoppedIs
  <2>2. ASSUME NEW i \in 1..(k - 1)
        PROVE  d.scopes[i] # "FONT"
    <3> SUFFICES ASSUME d.scopes[i] = "FONT"
                 PROVE  FALSE
      OBVIOUS
    <3>1. i \in 1..k /\ i + 1 <= k
      BY <2>2
    <3>2. /\ k <= i + 2
          /\ i + 1 <= k => d.scopes[i + 1] = "GLYPH"
          /\ i + 2 <= k => d.scopes[i + 2] = "PATH"
      BY <1>1, <3>1, AboveFont
    <3>3. k = i + 1 \/ k = i + 2
      BY <2>2, <3>2
    <3>4. d.scopes[k] = "FONT"
      BY <1>1, <1>8 DEF ps_current_scope
    <3> QED
      BY <3>2, <3>3, <3>4
  <2> QED
    BY <1>8, <2>1, <2>2 DEF NoFont
<1> QED
  BY <1>1, <1>6, <1>7, <1>8 DEF ps_current_scope

\* The current font is the one that is being defined.
Defining(r) == r.type3 # Null /\ r.font # Null /\ r.heap[r.font] = r.type3

DefiningInv == psdoc.life = "live" /\ ~NoFont(psdoc) => Defining(res)

\* As long as a font is being defined, nothing makes another one current.
LEMMA StaysCurrent ==
  ASSUME IInv, ResInv(res), OneDocument(psdoc), "font_kept" \in ResourceRules,
         [RNext]_rvars, ~NoFont(psdoc), psdoc.life = "live", Defining(res),
         ~NoFont(psdoc'), psdoc'.life = "live"
  PROVE  Defining(res')
<1>1. /\ ps_current_scope(psdoc) \in {"FONT", "GLYPH", "PATH"}
      /\ psdoc.beginprologwritten
      /\ \A e : /\ ps_current_scope(psdoc) = "FONT"
                /\ "scopes" \in DOMAIN e /\ e.scopes = Popped(psdoc.scopes)
                => NoFont(e)
  BY InFont DEF IInv
<1>2. psdoc \in PSDoc /\ Good(psdoc)
  BY DEF IInv, Good
<1>3. ASSUME SameFonts(res, res')
      PROVE  Defining(res')
  BY <1>3 DEF SameFonts, Defining
<1>4. CASE res' = res
  BY <1>4
<1>5. CASE RFindFont
  BY <1>1, <1>4, <1>5 DEF RFindFont, FindFontIn, ps_check_scope, DrawingScope
<1>6. CASE DeleteFont
  <2>1. PICK id \in AnyId(res.fonts) :
          /\ Get(res.fonts, id) \in {Null} \cup (Address \ {res.font})
          /\ res' = PS_deletefont(res, id)
    BY <1>6 DEF DeleteFont, RKeeps
  <2>2. /\ res'.font = res.font /\ res'.type3 = res.type3
        /\ \A a \in Address : a # Get(res.fonts, id) => res'.heap[a] = res.heap[a]
    BY <2>1, DeleteFontKeeps
  <2>3. res.font \in Address /\ res.font # Get(res.fonts, id)
    BY <2>1 DEF Defining, ResInv, ResourceRecords
  <2> QED
    BY <2>2, <2>3 DEF Defining
<1>7. CASE SetFont
  <2>1. PICK id \in AnyId(res.fonts) : res' = PS_setfont(res, psdoc, id)
    BY <1>7 DEF SetFont
  <2>2. ~ps_check_scope(psdoc, DrawingScope)
    BY <1>1 DEF ps_check_scope, DrawingScope
  <2> QED
    BY <1>4, <2>1, <2>2, SetFontKeeps
<1>8. CASE RBeginFont
  <2>1. PrologStarted(psdoc) = psdoc
    BY <1>1 DEF PrologStarted
  <2>2. ~Definable
    BY <1>1, <2>1 DEF Definable, ps_check_scope
  <2> QED
    BY <1>4, <1>8, <2>2 DEF RBeginFont
<1>9. CASE REndFont
  <2>1. CASE ps_current_scope(psdoc) = "FONT"
    <3> DEFINE c == Closing(psdoc, "fontdict")
               e == ps_leave_scope(c, "FONT")
    <3>1. c \in PSDoc /\ c.scopes = psdoc.scopes
      BY <1>2, Nest DEF Writes, Kept, Construct
    <3>2. PS_end_font(psdoc) = e
      BY <2>1 DEF PS_end_font, EndDefinition, ps_check_scope
    <3> HIDE DEF c
    <3>3. e = [c EXCEPT !.scopes = Popped(psdoc.scopes)]
      BY <2>1, <3>1 DEF ps_leave_scope, ps_current_scope, Popped, PSDoc
    <3>4. "scopes" \in DOMAIN e /\ e.scopes = Popped(psdoc.scopes)
      BY <3>1, <3>3 DEF PSDoc
    <3> HIDE DEF e
    <3>5. NoFont(e)
      BY <1>1, <2>1, <3>4
    <3>6. psdoc' = e
      <4>1. psdoc' = IF e.life = "crashed" THEN [psdoc EXCEPT !.life = "crashed"] ELSE e
        BY <1>9, <3>2 DEF REndFont, EndFont, Returns
      <4>2. [psdoc EXCEPT !.life = "crashed"].life = "crashed"
        BY <1>2 DEF PSDoc
      <4> QED
        BY <4>1, <4>2
    <3> QED
      BY <3>5, <3>6
  <2>2. CASE ps_current_scope(psdoc) # "FONT"
    BY <1>4, <1>9, <2>2 DEF REndFont, ps_check_scope
  <2> QED
    BY <2>1, <2>2
<1>10. CASE ROpenImage
  <2>1. PICK reuse \in BOOLEAN : res' \in {OpenImageIn(res, psdoc, reuse), res}
    BY <1>10 DEF ROpenImage
  <2> QED
    BY <1>2, <1>3, <1>4, <2>1, OpenImageKeeps
<1>11. CASE CloseImage
  <2>1. PICK id \in AnyId(res.images) : res' = PS_close_image(res, id)
    BY <1>11 DEF CloseImage
  <2> QED
    BY <1>3, <2>1, CloseImageKeeps
<1>12. CASE PlaceImageById
  <2>1. PICK id \in AnyId(res.images) : res' \in {PlaceImageIn(res, id), res}
    BY <1>12 DEF PlaceImageById
  <2> QED
    BY <1>3, <1>4, <2>1, PlaceImageKeeps
<1>13. CASE RBeginTemplate \/ REndTemplate
  BY <1>3, <1>4, <1>13, BeginTemplateKeeps, EndTemplateKeeps DEF RBeginTemplate, REndTemplate
<1>14. CASE REndPage
  <2>1. PS_end_page(psdoc) = psdoc
    BY <1>1 DEF PS_end_page, ps_check_scope
  <2>2. PS_close(psdoc) = psdoc
    BY <1>1, <2>1 DEF PS_close, ps_check_scope
  <2>3. psdoc' = psdoc
    BY <1>14, <2>1, <2>2 DEF REndPage, EndPage, CloseDocument, Returns
  <2> QED
    BY <1>4, <1>14, <2>3 DEF REndPage
<1>15. CASE RDeleteDocument
  BY <1>4, <1>15 DEF RDeleteDocument
<1>16. CASE RShowText \/ ROther \/ UNCHANGED rvars
  BY <1>4, <1>16 DEF RShowText, ROther, SameResources, rvars
<1> QED
  BY <1>5, <1>6, <1>7, <1>8, <1>9, <1>10, <1>11, <1>12, <1>13, <1>14, <1>15, <1>16 DEF RNext

\* Only a PSDoc that lives is called.
LEMMA LivesOn ==
  ASSUME [Next]_vars, psdoc'.life = "live"
  PROVE  psdoc.life = "live"
<1>1. (\E d : Returns(d)) => psdoc.life = "live"
  BY DEF Returns
<1> QED
  BY <1>1 DEF Next, vars, OpenDocument, CloseDocument, DeleteDocument, BeginPage, EndPage,
    BeginTemplate, EndTemplate, BeginPattern, EndPattern, BeginFont, EndFont, BeginGlyph, EndGlyph,
    FindFont, OpenImage, IncludeFile, ShadingPattern, ConstructPath, EndPath, Save, Restore,
    ShowText, PlaceImage

\* A font that is begun becomes the current one.
LEMMA BecomesCurrent ==
  ASSUME IInv, ResInv(res), NoFont(psdoc), RBeginFont, ~NoFont(psdoc'), psdoc'.life = "live"
  PROVE  Defining(res')
<1>1. PICK a \in FreeAddress : res' = IF Definable THEN BeginFontIn(res, a) ELSE res
  BY DEF RBeginFont
<1>2. Definable
  <2> SUFFICES ASSUME ~Definable
               PROVE  FALSE
    OBVIOUS
  <2>1. PS_begin_font(psdoc) = PrologStarted(psdoc)
    BY DEF PS_begin_font, BeginDefinition, Definable
  <2>2. NoFont(PrologStarted(psdoc)) /\ NoFont([psdoc EXCEPT !.life = "crashed"])
    BY PrologNoFont, SameStackNoFont DEF NoFont
  <2> QED
    BY <2>1, <2>2 DEF RBeginFont, BeginFont, Returns
<1>3. a \in Address /\ res.heap[a] = Null
  BY DEF FreeAddress
<1> QED
  BY <1>1, <1>2, <1>3, BeginFontKeeps DEF Defining

\* PS_begin_glyph and PS_end_font take psdoc->font for the font
\* that is being defined: in a PSDoc opened once, by a caller that does not
\* delete it meanwhile, nothing makes it another one.
THEOREM DefinedFontIsCurrent ==
  ASSUME MaxScopes >= 3, MaxOpens <= 1, "font_kept" \in ResourceRules
  PROVE  RSpec => []FontBeingDefined
<1>1. RInit => DefiningInv
  <2> SUFFICES ASSUME RInit
               PROVE  NoFont(psdoc)
    BY DEF DefiningInv
  <2>1. Good(psdoc) /\ psdoc.scopes = <<"OBJECT">>
    BY Starts DEF RInit, Init
  <2>2. Len(psdoc.scopes) = 1 /\ psdoc.scopes[1] = "OBJECT"
    BY <2>1
  <2>3. "scopes" \in DOMAIN psdoc /\ psdoc.scopes \in Seq(Scope)
    BY <2>1 DEF Good, PSDoc
  <2>4. \A i \in 1..1 : psdoc.scopes[i] # "FONT"
    BY <2>2
  <2> QED
    BY <2>2, <2>3, <2>4 DEF NoFont
<1>2. /\ IInv /\ ResInv(res) /\ (opens <= 1 => PageAgrees(psdoc))
      /\ DefiningInv /\ [RNext]_rvars
      => DefiningInv'
  <2> SUFFICES ASSUME IInv, ResInv(res), opens <= 1 => PageAgrees(psdoc),
                      DefiningInv, [RNext]_rvars,
                      psdoc'.life = "live", ~NoFont(psdoc')
               PROVE  Defining(res')
    BY DEF DefiningInv
  <2>1. OneDocument(psdoc)
    BY BoundsAssumption DEF IInv, Counted, PageAgrees
  <2>2. psdoc.life = "live"
    <3>1. [Next]_vars
      BY DocumentStep
    <3> QED
      BY <3>1, LivesOn
  <2>3. CASE NoFont(psdoc)
    BY <2>3, DocumentCall, StepNoFont, BecomesCurrent DEF NoFontBegun
  <2>4. CASE ~NoFont(psdoc)
    BY <2>1, <2>2, <2>4, StaysCurrent DEF DefiningInv
  <2> QED
    BY <2>3, <2>4
<1>3. DefiningInv => FontBeingDefined
  BY DEF DefiningInv, FontBeingDefined, Defining, NoFont
<1> QED
  BY <1>1, <1>2, <1>3, DocumentWithResources, Invariance, ResourceInvariance, PagesAgree, PTL
  DEF RSpec

----------------------------------------------------------------------------
(* The page a call is made on.                                             *)

\* The number of the page, and whether one is open.
AtPage(d, n, b) ==
  {"page", "page_open"} \subseteq DOMAIN d /\ d.page = n /\ d.page_open = b

LEMMA SamePageAt ==
  ASSUME NEW n, NEW b, NEW d, AtPage(d, n, b),
         NEW e, DOMAIN e = DOMAIN d, e.page = d.page, e.page_open = d.page_open
  PROVE  AtPage(e, n, b)
BY DEF AtPage

LEMMA StackAtPage ==
  ASSUME NEW n, NEW b, NEW d, AtPage(d, n, b), NEW s
  PROVE  /\ AtPage(ps_enter_scope(d, s), n, b) /\ AtPage(ps_leave_scope(d, s), n, b)
         /\ AtPage(ps_printf(d, s), n, b)
         /\ AtPage(Opening(d, s), n, b) /\ AtPage(Closing(d, s), n, b)
<1>1. ASSUME NEW x
      PROVE  AtPage(ps_printf(d, x), n, b)
  BY SamePageAt DEF ps_printf, AtPage
<1>2. ASSUME NEW x
      PROVE  AtPage([d EXCEPT !.scopes = x], n, b)
  BY DEF AtPage
<1> QED
  BY <1>1, <1>2 DEF ps_enter_scope, ps_leave_scope, Opening, Closing

LEMMA PrologAtPage ==
  ASSUME NEW n, NEW b, NEW d, AtPage(d, n, b)
  PROVE  AtPage(PrologStarted(d), n, b) /\ AtPage(ps_write_ps_header(d), n, b)
<1>1. ASSUME NEW x, AtPage(x, n, b)
      PROVE  AtPage(ps_write_ps_comments(x), n, b) /\ AtPage(ps_write_ps_setup(x), n, b)
  <2>1. AtPage(ps_printf(x, x.nest), n, b)
    BY <1>1, StackAtPage
  <2> QED
    BY <2>1, SamePageAt DEF ps_write_ps_comments, ps_write_ps_setup, AtPage
<1>2. ASSUME NEW x, AtPage(x, n, b)
      PROVE  AtPage(ps_write_ps_beginprolog(x), n, b)
  <2>1. AtPage(Opening(ps_enter_scope(x, "PROLOG"), "prolog"), n, b)
    BY <1>2, StackAtPage
  <2> QED
    BY <2>1, SamePageAt DEF ps_write_ps_beginprolog, AtPage
<1>3. ASSUME NEW x, AtPage(x, n, b)
      PROVE  AtPage(ps_write_ps_endprolog(x), n, b)
  <2>1. AtPage(ps_leave_scope(Closing(x, "prolog"), "PROLOG"), n, b)
    BY <1>3, StackAtPage
  <2> QED
    BY <2>1, SamePageAt DEF ps_write_ps_endprolog, AtPage
<1>4. AtPage(PrologStarted(d), n, b)
  BY <1>1, <1>2 DEF PrologStarted
<1>5. AtPage(ps_write_ps_header(d), n, b)
  <2> DEFINE d1 == IF d.commentswritten THEN d ELSE ps_write_ps_comments(d)
             d2 == IF d1.beginprologwritten THEN d1 ELSE ps_write_ps_beginprolog(d1)
             d3 == IF d2.endprologwritten THEN d2 ELSE ps_write_ps_endprolog(d2)
             d4 == IF d3.setupwritten THEN d3 ELSE ps_write_ps_setup(d3)
             d5 == [d4 EXCEPT !.headerwritten = TRUE]
  <2>1. AtPage(d1, n, b)
    BY <1>1
  <2> HIDE DEF d1
  <2>2. AtPage(d2, n, b)
    BY <1>2, <2>1
  <2> HIDE DEF d2
  <2>3. AtPage(d3, n, b)
    BY <1>3, <2>2
  <2> HIDE DEF d3
  <2>4. AtPage(d4, n, b)
    BY <1>1, <2>3
  <2> HIDE DEF d4
  <2>5. AtPage(d5, n, b)
    BY <2>4, SamePageAt DEF AtPage
  <2>6. ps_write_ps_header(d) = IF d.headerwritten THEN d ELSE d5
    BY DEF ps_write_ps_header, d1, d2, d3, d4
  <2> HIDE DEF d5
  <2> QED
    BY <2>5, <2>6
<1> QED
  BY <1>4, <1>5

LEMMA DefinitionsAtPage ==
  ASSUME NEW n, NEW b, NEW d, AtPage(d, n, b)
  PROVE  /\ AtPage(PS_begin_template(d), n, b) /\ AtPage(PS_begin_pattern(d), n, b)
         /\ AtPage(PS_begin_font(d), n, b) /\ AtPage(PS_begin_glyph(d), n, b)
         /\ AtPage(PS_end_template(d), n, b) /\ AtPage(PS_end_pattern(d), n, b)
         /\ AtPage(PS_end_font(d), n, b) /\ AtPage(PS_end_glyph(d), n, b)
<1>1. ASSUME NEW s, NEW c
      PROVE  AtPage(BeginDefinition(d, s, c), n, b)
  <2> DEFINE p == PrologStarted(d)
  <2>1. AtPage(p, n, b)
    BY PrologAtPage
  <2> HIDE DEF p
  <2>2. AtPage(ps_enter_scope(Opening(p, c), s), n, b)
    BY <1>1, <2>1, StackAtPage
  <2> QED
    BY <2>1, <2>2 DEF BeginDefinition, p
<1>2. ASSUME NEW s, NEW c
      PROVE  AtPage(EndDefinition(d, s, c), n, b)
  <2>1. AtPage(ps_leave_scope(Closing(d, c), s), n, b)
    BY StackAtPage
  <2> QED
    BY <2>1 DEF EndDefinition
<1>3. AtPage(PS_begin_template(d), n, b)
  <2> DEFINE t == BeginDefinition(d, "TEMPLATE", "proc")
  <2>1. AtPage(t, n, b)
    BY <1>1
  <2> HIDE DEF t
  <2>2. AtPage([t EXCEPT !.images = TRUE], n, b)
    BY <2>1, SamePageAt DEF AtPage
  <2> QED
    BY <2>1, <2>2 DEF PS_begin_template, t
<1>4. AtPage(PS_begin_pattern(d), n, b) /\ AtPage(PS_begin_font(d), n, b)
  BY <1>1 DEF PS_begin_pattern, PS_begin_font
<1>5. AtPage(PS_begin_glyph(d), n, b)
  <2>1. AtPage(ps_enter_scope(Opening(d, "charproc"), "GLYPH"), n, b)
    BY StackAtPage
  <2> QED
    BY <2>1 DEF PS_begin_glyph
<1> QED
  BY <1>2, <1>3, <1>4, <1>5 DEF PS_end_template, PS_end_pattern, PS_end_font, PS_end_glyph

LEMMA LoadsAtPage ==
  ASSUME NEW n, NEW b, NEW d, AtPage(d, n, b)
  PROVE  /\ \A writes : AtPage(PS_findfont(d, writes), n, b)
         /\ \A reuse : AtPage(PS_open_image(d, reuse), n, b)
         /\ AtPage(PS_include_file(d), n, b)
         /\ \A found : AtPage(PS_shading_pattern(d, found), n, b)
<1>1. AtPage(PrologStarted(d), n, b)
  BY PrologAtPage
<1>2. ASSUME NEW reuse
      PROVE  AtPage(PS_open_image(d, reuse), n, b)
  <2> DEFINE p == IF reuse THEN PrologStarted(d) ELSE d
  <2>1. AtPage(p, n, b)
    BY <1>1
  <2> HIDE DEF p
  <2>2. AtPage([p EXCEPT !.images = TRUE], n, b)
    BY <2>1, SamePageAt DEF AtPage
  <2> QED
    BY <2>1, <2>2 DEF PS_open_image, p
<1>3. ASSUME NEW found
      PROVE  AtPage(PS_shading_pattern(d, found), n, b)
  BY StackAtPage DEF PS_shading_pattern
<1> QED
  BY <1>1, <1>2, <1>3 DEF PS_findfont, PS_include_file

LEMMA DrawsAtPage ==
  ASSUME NEW n, NEW b, NEW d, AtPage(d, n, b)
  PROVE  /\ AtPage(PS_moveto(d), n, b) /\ AtPage(PS_arc(d), n, b) /\ AtPage(PaintPath(d), n, b)
         /\ AtPage(PS_save(d), n, b) /\ AtPage(PS_restore(d), n, b)
<1>1. AtPage(ps_enter_scope(d, "PATH"), n, b) /\ AtPage(ps_leave_scope(d, "PATH"), n, b)
  BY StackAtPage
<1>2. AtPage(PS_save(d), n, b) /\ AtPage(PS_restore(d), n, b)
  <2> DEFINE o == Opening(d, "gsave")
             c == Closing(d, "gsave")
  <2>1. AtPage(o, n, b) /\ AtPage(c, n, b)
    BY StackAtPage
  <2> HIDE DEF o, c
  <2>2. AtPage([o EXCEPT !.agstate = @ + 1], n, b) /\ AtPage([c EXCEPT !.agstate = @ - 1], n, b)
    BY <2>1, SamePageAt DEF AtPage
  <2> QED
    BY <2>2 DEF PS_save, PS_restore, o, c
<1> QED
  BY <1>1, <1>2 DEF PS_moveto, PS_arc, StartPath, PaintPath

LEMMA TextAtPage ==
  ASSUME NEW n, NEW b, NEW d, AtPage(d, n, b)
  PROVE  /\ \A lines : AtPage(PS_show2(d, lines), n, b)
         /\ AtPage(PS_place_image(d), n, b)
<1>1. ASSUME NEW x, AtPage(x, n, b)
      PROVE  AtPage(DrawLine(x), n, b)
  BY <1>1, DrawsAtPage DEF DrawLine
<1>2. ASSUME NEW lines
      PROVE  AtPage(PS_show2(d, lines), n, b)
  <2> DEFINE u == IF "underline" \in lines THEN DrawLine(d) ELSE d
             o == IF "overline" \in lines THEN DrawLine(u) ELSE u
             s == IF "strikeout" \in lines THEN DrawLine(o) ELSE o
  <2>1. AtPage(u, n, b)
    BY <1>1
  <2> HIDE DEF u
  <2>2. AtPage(o, n, b)
    BY <1>1, <2>1
  <2> HIDE DEF o
  <2>3. AtPage(s, n, b)
    BY <1>1, <2>2
  <2>4. PS_show2(d, lines) = IF ps_check_scope(d, DrawingScope) THEN s ELSE d
    BY DEF PS_show2, u, o
  <2> HIDE DEF s
  <2> QED
    BY <2>3, <2>4
<1>3. AtPage(PS_place_image(d), n, b)
  BY DrawsAtPage DEF PS_place_image
<1> QED
  BY <1>2, <1>3

LEMMA OpenAtPage ==
  ASSUME NEW n, NEW b, NEW d, AtPage(d, n, b)
  PROVE  /\ \A file : AtPage(PS_open_fp(d, file), 0, b)
         /\ AtPage(PS_open_file(d), 0, b)
         /\ \A w : AtPage(PS_open_mem(d, w), 0, b)
<1>1. ASSUME NEW x, AtPage(x, n, b)
      PROVE  AtPage(OpenStream(x), 0, b)
  <2> DEFINE o == [x EXCEPT !.page = 0, !.doc_open = TRUE, !.phase = "empty", !.nest = <<>>]
  <2>1. AtPage(o, 0, b)
    BY <1>1 DEF AtPage
  <2> HIDE DEF o
  <2>2. AtPage(ps_enter_scope(o, "DOCUMENT"), 0, b)
    BY <2>1, StackAtPage
  <2> QED
    BY <2>2 DEF OpenStream, o
<1>2. ASSUME NEW file
      PROVE  AtPage(PS_open_fp(d, file), 0, b)
  <2> DEFINE o == [d EXCEPT !.fp = file, !.closefp = FALSE, !.writeproc = "file"]
  <2>1. AtPage(o, n, b)
    BY DEF AtPage
  <2> HIDE DEF o
  <2> QED
    BY <1>1, <2>1 DEF PS_open_fp, o
<1>3. AtPage(PS_open_file(d), 0, b)
  <2>1. AtPage(PS_open_fp(d, "lib"), 0, b)
    BY <1>2
  <2> QED
    BY <2>1, SamePageAt DEF PS_open_file, AtPage
<1>4. ASSUME NEW w
      PROVE  AtPage(PS_open_mem(d, w), 0, b)
  <2> DEFINE o == [d EXCEPT !.writeproc = w, !.fp = "null"]
  <2>1. AtPage(o, n, b)
    BY DEF AtPage
  <2> HIDE DEF o
  <2> QED
    BY <1>1, <2>1 DEF PS_open_mem, o
<1> QED
  BY <1>2, <1>3, <1>4

\* A page that begins is the next one.
LEMMA BeginAtPage ==
  ASSUME NEW n, NEW b, NEW d, AtPage(d, n, b)
  PROVE  AtPage(PS_begin_page(d), n, b) \/ AtPage(PS_begin_page(d), n + 1, TRUE)
<1> DEFINE h == ps_write_ps_header(d)
           x == [h EXCEPT !.page = @ + 1, !.phase = "script"]
           p == Opening(x, "page")
           o == [p EXCEPT !.page_open = TRUE]
           e == ps_enter_scope(o, "PAGE")
<1>1. AtPage(h, n, b)
  BY PrologAtPage
<1> HIDE DEF h
<1>2. AtPage(x, n + 1, b)
  BY <1>1 DEF AtPage
<1> HIDE DEF x
<1>3. AtPage(p, n + 1, b)
  BY <1>2, StackAtPage
<1> HIDE DEF p
<1>4. AtPage(o, n + 1, TRUE)
  BY <1>3 DEF AtPage
<1> HIDE DEF o
<1>5. AtPage(e, n + 1, TRUE)
  BY <1>4, StackAtPage
<1>6. PS_begin_page(d) = IF ~ps_check_scope(h, {"DOCUMENT"}) THEN h ELSE e
  BY DEF PS_begin_page, h, x, p, o
<1> HIDE DEF e
<1> QED
  BY <1>1, <1>5, <1>6

\* What ends a page or the document leaves its number.
LEMMA EndAtPage ==
  ASSUME NEW n, NEW b, NEW d, AtPage(d, n, b)
  PROVE  \E c \in {b, FALSE} : AtPage(PS_end_page(d), n, c)
<1> DEFINE c == Closing(d, "page")
           e == [c EXCEPT !.page_open = FALSE]
<1>1. AtPage(c, n, b)
  BY StackAtPage
<1> HIDE DEF c
<1>2. AtPage(e, n, FALSE)
  BY <1>1 DEF AtPage
<1> HIDE DEF e
<1>3. AtPage(ps_leave_scope(e, "PAGE"), n, FALSE)
  BY <1>2, StackAtPage
<1> QED
  BY <1>3 DEF PS_end_page, e, c

LEMMA CloseAtPage ==
  ASSUME NEW n, NEW b, NEW d, AtPage(d, n, b)
  PROVE  \E c \in {b, FALSE} : AtPage(PS_close(d), n, c)
<1> DEFINE e == IF d.page_open THEN PS_end_page(d) ELSE d
           t == IF e.doc_open THEN ps_leave_scope(Trailer(e), "DOCUMENT") ELSE e
           c == IF t.closefp /\ t.fp # "null" THEN [t EXCEPT !.fp = "null"] ELSE t
           f == [c EXCEPT !.doc_open = FALSE]
<1>1. PICK x \in {b, FALSE} : AtPage(e, n, x)
  <2>1. PICK y \in {b, FALSE} : AtPage(PS_end_page(d), n, y)
    BY EndAtPage
  <2> QED
    BY <2>1
<1>2. PS_close(d) = IF ~ps_check_scope(e, {"DOCUMENT"}) THEN e ELSE f
  BY DEF PS_close
<1> HIDE DEF e
<1>3. AtPage(t, n, x)
  <2> DEFINE p == ps_printf(e, IF e.nest = <<>> THEN <<>> ELSE Garbled)
             q == [p EXCEPT !.phase = "trailer"]
  <2>1. AtPage(p, n, x)
    BY <1>1, StackAtPage
  <2> HIDE DEF p
  <2>2. AtPage(q, n, x)
    BY <2>1 DEF AtPage
  <2>3. Trailer(e) = q
    BY DEF Trailer, p
  <2> HIDE DEF q
  <2> QED
    BY <1>1, <2>2, <2>3, StackAtPage
<1> HIDE DEF t
<1>4. AtPage(c, n, x)
  BY <1>3 DEF AtPage
<1> HIDE DEF c
<1>5. AtPage(f, n, x)
  BY <1>4 DEF AtPage
<1> HIDE DEF f
<1> QED
  BY <1>1, <1>2, <1>5

\* A step that neither begins a page nor a document stays on the page, or ends it.
SameLeaf == psdoc'.page = psdoc.page /\ (psdoc'.page_open => psdoc.page_open)

LEMMA StepAtPage ==
  ASSUME psdoc \in PSDoc, [Next]_vars
  PROVE  \/ SameLeaf
         \/ BeginPage /\ psdoc'.page = psdoc.page + 1
         \/ OpenDocument /\ psdoc'.page = 0 /\ psdoc'.page_open = psdoc.page_open
<1> DEFINE n == psdoc.page
           b == psdoc.page_open
<1>1. AtPage(psdoc, n, b) /\ b \in BOOLEAN
  BY DEF AtPage, PSDoc
<1>2. AtPage([psdoc EXCEPT !.life = "crashed"], n, b)
  BY <1>1, SamePageAt DEF AtPage
<1> HIDE DEF n, b
<1>3. ASSUME NEW d, NEW c \in {b, FALSE}, AtPage(d, n, c), Returns(d)
      PROVE  SameLeaf
  <2>1. AtPage(psdoc', n, c) \/ AtPage(psdoc', n, b)
    BY <1>2, <1>3 DEF Returns
  <2> QED
    BY <1>1, <2>1 DEF SameLeaf, AtPage
<1>4. ASSUME NEW d, AtPage(d, n, b), Returns(d)
      PROVE  SameLeaf
  BY <1>3, <1>4
<1>5. CASE OpenDocument
  <2>1. PICK d : Returns(d) /\ AtPage(d, 0, b)
    BY <1>1, <1>5, OpenAtPage DEF OpenDocument
  <2>2. AtPage(psdoc', 0, b) \/ AtPage(psdoc', n, b)
    BY <1>2, <2>1 DEF Returns
  <2> QED
    BY <1>1, <1>5, <2>2 DEF SameLeaf, AtPage
<1>6. CASE CloseDocument \/ DeleteDocument
  <2>1. PICK c \in {b, FALSE} : AtPage(PS_close(psdoc), n, c)
    BY <1>1, CloseAtPage
  <2>2. \E x \in {b, FALSE} : AtPage(PS_delete(psdoc), n, x)
    <3> DEFINE d == IF psdoc.doc_open THEN PS_close(psdoc) ELSE psdoc
    <3>1. PICK x \in {b, FALSE} : AtPage(d, n, x)
      BY <1>1, <2>1
    <3> HIDE DEF d
    <3>2. AtPage([d EXCEPT !.life = "freed"], n, x)
      BY <3>1, SamePageAt DEF AtPage
    <3> QED
      BY <3>1, <3>2 DEF PS_delete, d
  <2> QED
    BY <1>3, <1>6, <2>1, <2>2 DEF CloseDocument, DeleteDocument
<1>7. CASE BeginPage
  <2>1. AtPage(psdoc', n, b) \/ AtPage(psdoc', n + 1, TRUE)
    BY <1>1, <1>2, <1>7, BeginAtPage DEF BeginPage, Returns
  <2> QED
    BY <1>1, <1>7, <2>1 DEF SameLeaf, AtPage
<1>8. CASE EndPage
  <2>1. PICK c \in {b, FALSE} : AtPage(PS_end_page(psdoc), n, c)
    BY <1>1, EndAtPage
  <2> QED
    BY <1>3, <1>8, <2>1 DEF EndPage
<1>9. CASE BeginTemplate \/ EndTemplate \/ BeginPattern \/ EndPattern
             \/ BeginFont \/ EndFont \/ BeginGlyph \/ EndGlyph
  BY <1>1, <1>4, <1>9, DefinitionsAtPage
  DEF BeginTemplate, EndTemplate, BeginPattern, EndPattern, BeginFont, EndFont, BeginGlyph, EndGlyph
<1>10. CASE FindFont \/ OpenImage \/ IncludeFile \/ ShadingPattern
  BY <1>1, <1>4, <1>10, LoadsAtPage DEF FindFont, OpenImage, IncludeFile, ShadingPattern
<1>11. CASE ConstructPath \/ EndPath \/ Save \/ Restore
  BY <1>1, <1>4, <1>11, DrawsAtPage DEF ConstructPath, EndPath, Save, Restore
<1>12. CASE ShowText \/ PlaceImage
  BY <1>1, <1>4, <1>12, TextAtPage DEF ShowText, PlaceImage
<1>13. CASE UNCHANGED vars
  BY <1>1, <1>13 DEF vars, SameLeaf
<1> QED
  BY <1>5, <1>6, <1>7, <1>8, <1>9, <1>10, <1>11, <1>12, <1>13 DEF Next

----------------------------------------------------------------------------
(* The template that is being defined.                                     *)

\* A template is being defined, with at most a path on it.
OnTemplate(d) ==
  /\ "scopes" \in DOMAIN d /\ d.scopes \in Seq(Scope)
  /\ \E k \in 1..Len(d.scopes) :
       /\ d.scopes[k] = "TEMPLATE"
       /\ k = Len(d.scopes) \/ (k + 1 = Len(d.scopes) /\ d.scopes[k + 1] = "PATH")

LEMMA SameStackOnTemplate ==
  ASSUME NEW d, OnTemplate(d), NEW e, DOMAIN e = DOMAIN d, e.scopes = d.scopes
  PROVE  OnTemplate(e)
BY DEF OnTemplate

LEMMA TopOnTemplate ==
  ASSUME NEW d, OnTemplate(d)
  PROVE  ps_current_scope(d) \in {"TEMPLATE", "PATH"}
BY DEF OnTemplate, ps_current_scope

LEMMA PathOnTemplate ==
  ASSUME NEW d, OnTemplate(d)
  PROVE  /\ ps_current_scope(d) # "PATH" => OnTemplate(ps_enter_scope(d, "PATH"))
         /\ OnTemplate(ps_leave_scope(d, "PATH"))
<1>1. PICK m \in Nat : m = Len(d.scopes)
  BY DEF OnTemplate
<1>2. PICK k \in 1..m :
        /\ d.scopes[k] = "TEMPLATE"
        /\ k = m \/ (k + 1 = m /\ d.scopes[k + 1] = "PATH")
  BY <1>1 DEF OnTemplate
<1>3. ASSUME ps_current_scope(d) # "PATH"
      PROVE  OnTemplate(ps_enter_scope(d, "PATH"))
  <2> DEFINE t == Append(d.scopes, "PATH")
             e == [d EXCEPT !.scopes = t]
  <2>1. k = m
    BY <1>1, <1>2, <1>3 DEF ps_current_scope
  <2>2. t \in Seq(Scope) /\ Len(t) = k + 1 /\ t[k] = "TEMPLATE" /\ t[k + 1] = "PATH"
    BY <1>1, <1>2, <2>1 DEF OnTemplate, Scope
  <2> HIDE DEF t
  <2>3. e.scopes = t /\ "scopes" \in DOMAIN e
    BY DEF OnTemplate
  <2> HIDE DEF e
  <2>4. k \in 1..Len(e.scopes)
    BY <1>2, <2>2, <2>3
  <2>5. OnTemplate(e)
    BY <2>2, <2>3, <2>4 DEF OnTemplate
  <2> QED
    BY <2>5 DEF ps_enter_scope, e, t
<1>4. CASE ps_current_scope(d) # "PATH"
  BY <1>3, <1>4 DEF ps_leave_scope
<1>5. CASE ps_current_scope(d) = "PATH"
  <2> DEFINE t == SubSeq(d.scopes, 1, Len(d.scopes) - 1)
             e == [d EXCEPT !.scopes = t]
  <2>1. k + 1 = m
    BY <1>1, <1>2, <1>5 DEF ps_current_scope
  <2>2. t \in Seq(Scope) /\ Len(t) = k /\ t[k] = "TEMPLATE"
    BY <1>1, <1>2, <2>1 DEF OnTemplate
  <2> HIDE DEF t
  <2>3. e.scopes = t /\ "scopes" \in DOMAIN e
    BY DEF OnTemplate
  <2> HIDE DEF e
  <2>4. k \in 1..Len(e.scopes)
    BY <1>2, <2>2, <2>3
  <2>5. OnTemplate(e)
    BY <2>2, <2>3, <2>4 DEF OnTemplate
  <2> QED
    BY <1>5, <2>5 DEF ps_leave_scope, e, t
<1> QED
  BY <1>3, <1>4, <1>5

LEMMA DrawsOnTemplate ==
  ASSUME NEW d, OnTemplate(d)
  PROVE  /\ OnTemplate(PS_moveto(d)) /\ OnTemplate(PS_arc(d)) /\ OnTemplate(PaintPath(d))
         /\ OnTemplate(PS_save(d)) /\ OnTemplate(PS_restore(d))
<1>1. ASSUME NEW x
      PROVE  OnTemplate(ps_printf(d, x))
  BY SameStackOnTemplate DEF ps_printf, OnTemplate
<1>2. OnTemplate(PS_save(d)) /\ OnTemplate(PS_restore(d))
  <2> DEFINE o == Opening(d, "gsave")
             c == Closing(d, "gsave")
  <2>1. OnTemplate(o) /\ OnTemplate(c)
    BY <1>1 DEF Opening, Closing
  <2> HIDE DEF o, c
  <2>2. OnTemplate([o EXCEPT !.agstate = @ + 1]) /\ OnTemplate([c EXCEPT !.agstate = @ - 1])
    BY <2>1, SameStackOnTemplate DEF OnTemplate
  <2> QED
    BY <2>2 DEF PS_save, PS_restore, o, c
<1>3. /\ PS_moveto(d) \in {d, ps_enter_scope(d, "PATH")}
      /\ PS_arc(d) \in {d, ps_enter_scope(d, "PATH")}
  BY DEF PS_moveto, PS_arc, StartPath
<1>4. ps_current_scope(d) = "PATH" => PS_moveto(d) = d /\ PS_arc(d) = d
  BY DEF PS_moveto, PS_arc, StartPath, ps_check_scope
<1>5. OnTemplate(PaintPath(d))
  BY PathOnTemplate DEF PaintPath
<1> QED
  BY <1>2, <1>3, <1>4, <1>5, PathOnTemplate

LEMMA TextOnTemplate ==
  ASSUME NEW d, OnTemplate(d)
  PROVE  /\ \A lines : OnTemplate(PS_show2(d, lines))
         /\ OnTemplate(PS_place_image(d))
<1>1. ASSUME NEW x, OnTemplate(x)
      PROVE  OnTemplate(DrawLine(x))
  BY <1>1, DrawsOnTemplate DEF DrawLine
<1>2. ASSUME NEW lines
      PROVE  OnTemplate(PS_show2(d, lines))
  <2> DEFINE u == IF "underline" \in lines THEN DrawLine(d) ELSE d
             o == IF "overline" \in lines THEN DrawLine(u) ELSE u
             s == IF "strikeout" \in lines THEN DrawLine(o) ELSE o
  <2>1. OnTemplate(u)
    BY <1>1
  <2> HIDE DEF u
  <2>2. OnTemplate(o)
    BY <1>1, <2>1
  <2> HIDE DEF o
  <2>3. OnTemplate(s)
    BY <1>1, <2>2
  <2>4. PS_show2(d, lines) = IF ps_check_scope(d, DrawingScope) THEN s ELSE d
    BY DEF PS_show2, u, o
  <2> HIDE DEF s
  <2> QED
    BY <2>3, <2>4
<1>3. OnTemplate(PS_place_image(d))
  BY DrawsOnTemplate DEF PS_place_image
<1> QED
  BY <1>2, <1>3

\* The other calls are refused.
LEMMA RefusedInTemplate ==
  ASSUME NEW d, Good(d), OnTemplate(d)
  PROVE  /\ PrologStarted(d) = d
         /\ PS_end_page(d) = d /\ PS_close(d) = d
         /\ PS_begin_template(d) = d /\ PS_begin_pattern(d) = d
         /\ PS_begin_font(d) = d /\ PS_begin_glyph(d) = d
         /\ PS_end_pattern(d) = d /\ PS_end_font(d) = d /\ PS_end_glyph(d) = d
         /\ ps_current_scope(d) # "TEMPLATE" => PS_end_template(d) = d
         /\ \A writes : PS_findfont(d, writes) = d
         /\ \A reuse : PS_open_image(d, reuse) = d
         /\ PS_include_file(d) = d
         /\ \A found : PS_shading_pattern(d, found) = d
<1>1. ps_current_scope(d) \in {"TEMPLATE", "PATH"}
  BY TopOnTemplate
<1>2. PrologStarted(d) = d
  <2>1. d.beginprologwritten
    BY DEF Good, OnTemplate
  <2> QED
    BY <2>1 DEF PrologStarted
<1>3. PS_end_page(d) = d
  BY <1>1 DEF PS_end_page, ps_check_scope
<1>4. PS_close(d) = d
  BY <1>1, <1>3 DEF PS_close, ps_check_scope
<1>5. ASSUME NEW s, NEW c
      PROVE  BeginDefinition(d, s, c) = d
  BY <1>1, <1>2 DEF BeginDefinition, ps_check_scope
<1>6. PS_begin_template(d) = d
  BY <1>1, <1>2, <1>5 DEF PS_begin_template, ps_check_scope
<1>7. ASSUME NEW reuse
      PROVE  PS_open_image(d, reuse) = d
  BY <1>1, <1>2 DEF PS_open_image, ps_check_scope
<1>8. PS_begin_glyph(d) = d /\ \A found : PS_shading_pattern(d, found) = d
  BY <1>1 DEF PS_begin_glyph, PS_shading_pattern, ps_check_scope
<1>9. ASSUME NEW s, NEW c, ps_current_scope(d) # s
      PROVE  EndDefinition(d, s, c) = d
  BY <1>9 DEF EndDefinition, ps_check_scope
<1> QED
  BY <1>1, <1>2, <1>3, <1>4, <1>5, <1>6, <1>7, <1>8, <1>9
  DEF PS_begin_pattern, PS_begin_font, PS_end_template, PS_end_pattern, PS_end_font, PS_end_glyph,
    PS_findfont, PS_include_file

\* Until it is ended a template is being defined, whatever is called.
LEMMA TemplateStays ==
  ASSUME Good(psdoc), OnTemplate(psdoc), "page_between" \in ClientRules, ~OpenDocument, OtherCall
  PROVE  OnTemplate(psdoc')
<1>1. OnTemplate([psdoc EXCEPT !.life = "crashed"])
  BY SameStackOnTemplate DEF OnTemplate
<1>2. ASSUME NEW d, OnTemplate(d), Returns(d)
      PROVE  OnTemplate(psdoc')
  BY <1>1, <1>2 DEF Returns
<1>3. CASE CloseDocument \/ DeleteDocument
  <2>1. PS_close(psdoc) = psdoc
    BY RefusedInTemplate
  <2>2. OnTemplate(PS_delete(psdoc))
    <3>1. OnTemplate([psdoc EXCEPT !.life = "freed"])
      BY SameStackOnTemplate DEF OnTemplate
    <3> QED
      BY <2>1, <3>1 DEF PS_delete
  <2> QED
    BY <1>2, <1>3, <2>1, <2>2 DEF CloseDocument, DeleteDocument
<1>4. CASE BeginPage
  BY <1>4, TopOnTemplate DEF BeginPage, Keeps, ps_check_scope
<1>5. CASE EndPage \/ BeginTemplate \/ BeginPattern \/ EndPattern
             \/ EndFont \/ BeginGlyph \/ EndGlyph
  BY <1>2, <1>5, RefusedInTemplate
  DEF EndPage, BeginTemplate, BeginPattern, EndPattern, EndFont, BeginGlyph, EndGlyph
<1>6. CASE FindFont \/ OpenImage \/ IncludeFile \/ ShadingPattern
  BY <1>2, <1>6, RefusedInTemplate DEF FindFont, OpenImage, IncludeFile, ShadingPattern
<1>7. CASE ConstructPath \/ EndPath \/ Save \/ Restore
  BY <1>2, <1>7, DrawsOnTemplate DEF ConstructPath, EndPath, Save, Restore
<1>8. CASE ShowText \/ PlaceImage
  BY <1>2, <1>8, TextOnTemplate DEF ShowText, PlaceImage
<1>9. CASE UNCHANGED vars
  BY <1>9 DEF vars
<1> QED
  BY <1>3, <1>4, <1>5, <1>6, <1>7, <1>8, <1>9 DEF OtherCall

\* A template that begins is on top.
LEMMA TemplateBegins ==
  ASSUME MaxScopes >= 4, Good(psdoc), PageAgrees(psdoc), Definable, BeginTemplate
  PROVE  IF psdoc'.life = "live" THEN OnTemplate(psdoc') ELSE ps_current_scope(psdoc') # "PAGE"
<1> DEFINE p == PrologStarted(psdoc)
           o == Opening(p, "proc")
           e == ps_enter_scope(o, "TEMPLATE")
           t == [e EXCEPT !.images = TRUE]
<1>1. ps_current_scope(p) \in {"DOCUMENT", "PROLOG"}
  BY DEF Definable, ps_check_scope
<1>2. PS_begin_template(psdoc) = t
  BY DEF PS_begin_template, BeginDefinition, Definable
<1>3. p \in PSDoc /\ Good(p) /\ OneDocument(p)
  <2>1. psdoc \in PageDocs
    BY DEF PageDocs, GoodDocs, Good
  <2>2. p \in PageDocs
    BY <2>1, PageIsStable, Prologs, MaxScopesAssumption
  <2> QED
    BY <2>2 DEF PageDocs, GoodDocs, PageAgrees
<1>4. ps_current_scope(psdoc) # "PAGE"
  <2>1. ASSUME ps_current_scope(psdoc) = "PAGE"
        PROVE  p = psdoc
    BY <2>1, Current DEF PrologStarted
  <2> HIDE DEF p
  <2> QED
    BY <1>1, <2>1
<1>5. Len(p.scopes) \in 1..3 /\ p.scopes \in Seq(Scope)
  <2>1. PICK k \in Nat : k = Len(p.scopes)
    BY <1>3 DEF PSDoc
  <2>2. k \in 1..k /\ p.scopes[k] \in {"DOCUMENT", "PROLOG"}
    BY <1>1, <1>3, <2>1 DEF Good, ps_current_scope
  <2> HIDE DEF p
  <2>3. k = 2 \/ k = 3
    BY <1>3, <2>1, <2>2, Places
  <2> QED
    BY <1>3, <2>1, <2>3 DEF PSDoc
<1>6. o \in PSDoc /\ o.scopes = p.scopes
  <2> HIDE DEF p
  <2> QED
    BY <1>3, Nest DEF Writes, Kept, Construct
<1> HIDE DEF p, o
<1>7. OnTemplate(t)
  <2> DEFINE s == Append(o.scopes, "TEMPLATE")
  <2>1. PICK k \in 1..3 : k = Len(p.scopes)
    BY <1>5
  <2>2. s \in Seq(Scope) /\ Len(s) = k + 1 /\ s[k + 1] = "TEMPLATE"
    BY <1>5, <1>6, <2>1 DEF Scope
  <2>3. e = [o EXCEPT !.scopes = s]
    <3>1. Len(o.scopes) = k /\ k # MaxScopes
      <4>1. Len(o.scopes) = k
        BY <1>6, <2>1
      <4> HIDE DEF e, t, s
      <4> QED
        BY <4>1, MaxScopesAssumption
    <3> QED
      BY <3>1, Zenon DEF ps_enter_scope
  <2> HIDE DEF s, e
  <2>4. t.scopes = s /\ "scopes" \in DOMAIN t
    BY <1>6, <2>3 DEF PSDoc
  <2> HIDE DEF t
  <2>5. k + 1 \in 1..Len(t.scopes)
    BY <2>2, <2>4
  <2> QED
    BY <2>2, <2>4, <2>5 DEF OnTemplate
<1> HIDE DEF t, e
<1>8. psdoc' = IF t.life = "crashed" THEN [psdoc EXCEPT !.life = "crashed"] ELSE t
  BY <1>2 DEF BeginTemplate, Returns
<1>9. [psdoc EXCEPT !.life = "crashed"].life = "crashed"
      /\ ps_current_scope([psdoc EXCEPT !.life = "crashed"]) = ps_current_scope(psdoc)
  BY DEF Good, PSDoc, ps_current_scope
<1>10. ps_current_scope(t) # "PAGE"
  BY <1>7, TopOnTemplate
<1> QED
  BY <1>4, <1>7, <1>8, <1>9, <1>10

----------------------------------------------------------------------------
(* What can be placed.                                                     *)

Objects(r) == {h.object : h \in r.held.image}

\* Objects are numbered as they are made: a template places older ones.
Numbered(r) ==
  /\ \A h \in r.held.image : h.object \in DOMAIN r.made /\ r.made[h.object].kind # "font"
  /\ \A p \in r.placements : p.by \in DOMAIN r.made /\ p.meant \in 1..(p.by - 1)

\* The template being defined is the last image, and has its slot to itself.
Newest(r) ==
  r.template # NoTemplate =>
    /\ r.template.object \in DOMAIN r.made
    /\ \A h \in r.held.image :
         h.object <= r.template.object /\ (h.id = r.template.id => h = r.template)

\* A template that the caller holds has its name in the output.
Named(r) ==
  \A h \in r.held.image :
    r.made[h.object].kind = "template" => h = r.template \/ h \in r.forms

\* What a template places that the caller holds is a template that the caller
\* holds too, under the same id, or an image that has a name outside of pages.
Placed(r) ==
  \A p \in r.placements :
    p.by \in Objects(r) =>
      IF r.made[p.meant].kind = "template"
      THEN [id |-> p.id, object |-> p.meant] \in r.held.image
      ELSE r.made[p.meant].kind = "image" /\ r.made[p.meant].named /\ r.made[p.meant].level = 0

TemplatesInv(r) == Numbered(r) /\ Newest(r) /\ Named(r) /\ Placed(r)

\* What was made stays what it is.
MadeOn(r, e) ==
  DOMAIN r.made \subseteq DOMAIN e.made /\ \A o \in DOMAIN r.made : e.made[o] = r.made[o]

SameImages(r, e) ==
  /\ e.held.image = r.held.image /\ e.template = r.template
  /\ e.forms = r.forms /\ e.placements = r.placements

LEMMA SameImagesKeep ==
  ASSUME NEW r, TemplatesInv(r), NEW e, SameImages(r, e), MadeOn(r, e), r \in ResourceRecords
  PROVE  TemplatesInv(e)
<1>1. Objects(e) = Objects(r)
  BY DEF Objects, SameImages
<1>2. Numbered(e)
  BY DEF Numbered, SameImages, MadeOn, TemplatesInv
<1>3. Newest(e)
  BY DEF Newest, SameImages, MadeOn, TemplatesInv
<1>4. Named(e)
  BY DEF Named, Numbered, SameImages, MadeOn, TemplatesInv
<1>5. Placed(e)
  <2> SUFFICES ASSUME NEW p \in r.placements, p.by \in Objects(r)
               PROVE  IF e.made[p.meant].kind = "template"
                      THEN [id |-> p.id, object |-> p.meant] \in r.held.image
                      ELSE /\ e.made[p.meant].kind = "image" /\ e.made[p.meant].named
                           /\ e.made[p.meant].level = 0
    BY <1>1 DEF Placed, SameImages
  <2>1. DOMAIN r.made = 1..Len(r.made) /\ Len(r.made) \in Nat
    BY DEF ResourceRecords
  <2>2. p.by \in 1..Len(r.made) /\ p.meant \in 1..(p.by - 1)
    BY <2>1 DEF Numbered, TemplatesInv
  <2>3. p.meant \in DOMAIN r.made
    BY <2>1, <2>2
  <2> QED
    BY <2>3 DEF Placed, MadeOn, TemplatesInv
<1> QED
  BY <1>2, <1>3, <1>4, <1>5 DEF TemplatesInv

\* What is appended is the next object.
LEMMA NextMade ==
  ASSUME NEW r \in ResourceRecords, NEW x, NEW e, e.made = Append(r.made, x)
  PROVE  /\ MadeOn(r, e) /\ DOMAIN r.made = 1..Len(r.made) /\ Len(r.made) \in Nat
         /\ DOMAIN e.made = 1..Next1(r) /\ Next1(r) = Len(r.made) + 1 /\ e.made[Next1(r)] = x
<1> DEFINE S == [kind : {"font", "image", "template"}, level : Nat, named : BOOLEAN]
           m == r.made
           t == Append(m, x)
<1>1. m \in Seq(S) /\ Len(m) \in Nat /\ DOMAIN m = 1..Len(m)
  BY DEF ResourceRecords
<1> HIDE DEF S, m
<1>2. DOMAIN t = 1..(Len(m) + 1) /\ t[Len(m) + 1] = x /\ \A o \in 1..Len(m) : t[o] = m[o]
  BY <1>1
<1> HIDE DEF t
<1>3. e.made = t /\ r.made = m
  BY DEF t, m
<1> QED
  BY <1>1, <1>2, <1>3 DEF MadeOn, Next1

\* A slot that is free is no id.
LEMMA SlotIsFree ==
  ASSUME NEW r, ResInv(r)
  PROVE  /\ FirstFree(r.images) \in Nat
         /\ Without(r.held.image, FirstFree(r.images)) = r.held.image
         /\ \A h \in r.held.image : h.id # FirstFree(r.images)
<1> DEFINE slot == FirstFree(r.images)
<1>1. r.images \in Seq(Nat) /\ Len(r.images) \in Nat
  BY DEF ResInv, ResourceRecords
<1>2. slot \in 1..(Len(r.images) + 1) /\ (slot \in DOMAIN r.images => r.images[slot] = Null)
  BY <1>1, FirstFreeIs
<1> HIDE DEF slot
<1>3. \A h \in r.held.image : h.id # slot
  BY <1>2 DEF ResInv, HeldRight, Filled
<1>4. Without(r.held.image, slot) = r.held.image
  BY <1>3 DEF Without
<1> QED
  BY <1>1, <1>2, <1>3, <1>4 DEF slot

\* An image or a template is made, when none is being defined.
LEMMA ImageMade ==
  ASSUME NEW r, ResInv(r), TemplatesInv(r), r.template = NoTemplate,
         NEW x, x.kind # "font", NEW e, e.made = Append(r.made, x),
         NEW new, new = [id |-> FirstFree(r.images), object |-> Next1(r)],
         e.held.image = r.held.image \cup {new},
         e.forms = r.forms, e.placements = r.placements,
         (e.template = NoTemplate /\ x.kind # "template") \/ e.template = new
  PROVE  TemplatesInv(e)
<1> DEFINE n == Next1(r)
<1>1. /\ MadeOn(r, e) /\ DOMAIN r.made = 1..Len(r.made) /\ Len(r.made) \in Nat
      /\ DOMAIN e.made = 1..n /\ n = Len(r.made) + 1 /\ e.made[n] = x
  BY NextMade DEF ResInv
<1>2. new.object = n /\ new.id = FirstFree(r.images) /\ n \in Nat \ {0}
  BY <1>1
<1>3. \A h \in r.held.image : h.id # new.id
  BY <1>2, SlotIsFree
<1> HIDE DEF n
<1>4. \A h \in r.held.image : h.object \in 1..Len(r.made) /\ e.made[h.object] = r.made[h.object]
  BY <1>1 DEF TemplatesInv, Numbered, MadeOn
<1>5. \A p \in r.placements : /\ p.by \in 1..Len(r.made) /\ p.meant \in 1..(p.by - 1)
                              /\ e.made[p.meant] = r.made[p.meant]
  <2> TAKE p \in r.placements
  <2>1. p.by \in 1..Len(r.made) /\ p.meant \in 1..(p.by - 1)
    BY <1>1 DEF TemplatesInv, Numbered
  <2>2. p.meant \in 1..Len(r.made)
    BY <1>1, <2>1
  <2> QED
    BY <1>1, <2>1, <2>2 DEF MadeOn
<1>6. Numbered(e)
  <2>1. ASSUME NEW h \in e.held.image
        PROVE  h.object \in DOMAIN e.made /\ e.made[h.object].kind # "font"
    <3>1. CASE h = new
      BY <1>1, <1>2, <3>1
    <3>2. CASE h \in r.held.image
      BY <1>1, <1>4, <3>2 DEF TemplatesInv, Numbered
    <3> QED
      BY <3>1, <3>2
  <2>2. \A p \in e.placements : p.by \in DOMAIN e.made /\ p.meant \in 1..(p.by - 1)
    BY <1>1, <1>5
  <2> QED
    BY <2>1, <2>2 DEF Numbered
<1>7. Newest(e)
  <2> SUFFICES ASSUME e.template = new
               PROVE  /\ new.object \in DOMAIN e.made
                      /\ \A h \in e.held.image :
                           h.object <= new.object /\ (h.id = new.id => h = new)
    BY DEF Newest
  <2>1. n \in 1..n /\ \A k \in 1..Len(r.made) : k <= n
    BY <1>1, <1>2
  <2>2. n <= n
    BY <1>2
  <2> QED
    BY <1>1, <1>2, <1>3, <1>4, <2>1, <2>2
<1>8. Named(e)
  <2> SUFFICES ASSUME NEW h \in e.held.image, e.made[h.object].kind = "template"
               PROVE  h = e.template \/ h \in e.forms
    BY DEF Named
  <2>1. CASE h = new
    BY <1>1, <1>2, <2>1
  <2>2. CASE h \in r.held.image
    <3>1. h # NoTemplate
      <4>1. h.object # 0
        BY <1>4, <2>2
      <4> QED
        BY <4>1 DEF NoTemplate, Null
    <3> QED
      BY <1>4, <2>2, <3>1 DEF TemplatesInv, Named
  <2> QED
    BY <2>1, <2>2
<1>9. Placed(e)
  <2> SUFFICES ASSUME NEW p \in r.placements, p.by \in Objects(e)
               PROVE  IF r.made[p.meant].kind = "template"
                      THEN [id |-> p.id, object |-> p.meant] \in e.held.image
                      ELSE /\ r.made[p.meant].kind = "image" /\ r.made[p.meant].named
                           /\ r.made[p.meant].level = 0
    BY <1>5 DEF Placed
  <2>1. p.by # n
    BY <1>1, <1>5
  <2>2. p.by \in Objects(r)
    BY <1>2, <2>1 DEF Objects
  <2> QED
    BY <2>2 DEF TemplatesInv, Placed
<1> QED
  BY <1>6, <1>7, <1>8, <1>9 DEF TemplatesInv

\* A template is closed only when none that places it can be placed.
LEMMA ImageClosed ==
  ASSUME ResInv(res), TemplatesInv(res), NEW id, NEW e,
         PlacedBy(Get(res.images, id)) \subseteq {Get(res.images, id)},
         e.made = res.made, e.held.image = Without(res.held.image, id),
         e.template = res.template, e.forms = res.forms, e.placements = res.placements
  PROVE  TemplatesInv(e)
<1>1. /\ e.held.image \subseteq res.held.image
      /\ \A h \in res.held.image : h.id # id => h \in e.held.image
  BY DEF Without
<1>2. Numbered(e) /\ Newest(e) /\ Named(e)
  BY <1>1 DEF TemplatesInv, Numbered, Newest, Named
<1>3. Placed(e)
  <2> SUFFICES ASSUME NEW p \in res.placements, p.by \in Objects(e),
                      res.made[p.meant].kind = "template"
               PROVE  [id |-> p.id, object |-> p.meant] \in e.held.image
    <3>1. Objects(e) \subseteq Objects(res)
      BY <1>1 DEF Objects
    <3> QED
      BY <3>1 DEF TemplatesInv, Placed
  <2> DEFINE h == [id |-> p.id, object |-> p.meant]
  <2>1. p.by \in Objects(res)
    BY <1>1 DEF Objects
  <2>2. h \in res.held.image
    BY <2>1 DEF TemplatesInv, Placed
  <2>3. p.meant \in 1..(p.by - 1) /\ p.by \in Nat
    BY DEF TemplatesInv, Numbered, ResInv, ResourceRecords
  <2>4. p.id # id
    <3> SUFFICES ASSUME p.id = id
                 PROVE  FALSE
      OBVIOUS
    <3>1. PICK i \in {j \in DOMAIN res.images : res.images[j] # Null} :
            h = [id |-> i, object |-> Itself[res.images[i]]]
      BY <2>2 DEF ResInv, HeldRight, Filled
    <3>2. i = id /\ res.images[i] \in Nat /\ i \in DOMAIN res.images
      BY <3>1 DEF ResInv, ResourceRecords
    <3>3. Get(res.images, id) = p.meant
      BY <3>1, <3>2 DEF Get, Itself
    <3>4. p.by \in PlacedBy(p.meant)
      BY <2>1, <2>3 DEF PlacedBy, Objects, Null
    <3>5. p.by = p.meant
      BY <3>3, <3>4
    <3> QED
      BY <2>3, <3>5
  <2> QED
    BY <1>1, <2>2, <2>4
<1> QED
  BY <1>2, <1>3 DEF TemplatesInv

\* The template that ends gets its name, which no other one has.
LEMMA TemplateEnded ==
  ASSUME NEW r, ResInv(r), TemplatesInv(r), NEW e, e.made = r.made,
         e.held = r.held, e.placements = r.placements, e.template = NoTemplate,
         e.forms = {f \in r.forms : f.id # r.template.id} \cup {r.template}
  PROVE  TemplatesInv(e)
<1>1. Numbered(e) /\ Newest(e) /\ Placed(e)
  BY DEF TemplatesInv, Numbered, Newest, Placed, Objects
<1>2. Named(e)
  <2> SUFFICES ASSUME NEW h \in r.held.image, r.made[h.object].kind = "template", h # r.template
               PROVE  h.id # r.template.id /\ h \in r.forms
    BY DEF Named
  <2>1. h \in r.forms
    BY DEF TemplatesInv, Named
  <2>2. CASE r.template # NoTemplate
    BY <2>1, <2>2 DEF TemplatesInv, Newest
  <2>3. CASE r.template = NoTemplate
    <3>1. h.id # 0
      <4>1. h.id \in DOMAIN r.images /\ r.images \in Seq(Nat)
        BY DEF ResInv, ResourceRecords, HeldRight, Filled
      <4> QED
        BY <4>1
    <3>2. r.template.id = 0
      BY <2>3 DEF NoTemplate, Null
    <3> QED
      BY <2>1, <3>1, <3>2
  <2> QED
    BY <2>2, <2>3
<1> QED
  BY <1>1, <1>2 DEF TemplatesInv

\* An image or a template is placed in the one that is being defined.
LEMMA ImagePlaced ==
  ASSUME NEW r, ResInv(r), TemplatesInv(r), r.template # NoTemplate, NEW id,
         NEW x, x = Get(r.images, id), x # Null, x # r.template.object,
         r.made[x].level = 0, r.made[x].kind = "image" => r.made[x].named,
         NEW e, e.made = r.made, e.held = r.held, e.forms = r.forms, e.template = r.template,
         e.placements = r.placements \cup
           {[by |-> r.template.object, id |-> id, meant |-> o] : o \in Denotes(r, "image", id)}
  PROVE  TemplatesInv(e)
<1> DEFINE h == [id |-> id, object |-> x]
           new == [by |-> r.template.object, id |-> id, meant |-> x]
<1>1. h \in r.held.image
  <2>1. id \in DOMAIN r.images /\ r.images[id] = x /\ r.images \in Seq(Nat)
    BY DEF Get, ResInv, ResourceRecords
  <2>2. Itself[x] = x
    BY <2>1 DEF Itself
  <2> QED
    BY <2>1, <2>2 DEF ResInv, HeldRight, Filled
<1>2. \A o \in Denotes(r, "image", id) : o = x
  <2> SUFFICES ASSUME NEW g \in r.held["image"], g.id = id
               PROVE  g.object = x
    BY DEF Denotes
  <2>1. PICK i \in {j \in DOMAIN r.images : r.images[j] # Null} :
          g = [id |-> i, object |-> Itself[r.images[i]]]
    BY DEF ResInv, HeldRight, Filled
  <2>2. i = id /\ r.images[i] \in Nat /\ i \in DOMAIN r.images
    BY <2>1 DEF ResInv, ResourceRecords
  <2> QED
    BY <2>1, <2>2 DEF Get, Itself
<1>3. e.placements \subseteq r.placements \cup {new}
  BY <1>2
<1>4. /\ x \in DOMAIN r.made /\ r.made[x].kind # "font"
      /\ r.template.object \in DOMAIN r.made /\ x <= r.template.object
  BY <1>1 DEF TemplatesInv, Numbered, Newest
<1>5. DOMAIN r.made = 1..Len(r.made) /\ Len(r.made) \in Nat
  BY DEF ResInv, ResourceRecords
<1>6. x \in 1..(r.template.object - 1)
  BY <1>4, <1>5
<1>7. Numbered(e)
  BY <1>3, <1>4, <1>6 DEF TemplatesInv, Numbered
<1>8. Newest(e) /\ Named(e)
  BY DEF TemplatesInv, Newest, Named
<1>9. Placed(e)
  <2> SUFFICES ASSUME NEW p \in e.placements, p.by \in Objects(r)
               PROVE  IF r.made[p.meant].kind = "template"
                      THEN [id |-> p.id, object |-> p.meant] \in r.held.image
                      ELSE /\ r.made[p.meant].kind = "image" /\ r.made[p.meant].named
                           /\ r.made[p.meant].level = 0
    BY DEF Placed, Objects
  <2>1. CASE p = new
    <3>1. r.made[x].kind \in {"font", "image", "template"}
      <4> DEFINE S == [kind : {"font", "image", "template"}, level : Nat, named : BOOLEAN]
                 m == r.made
      <4>1. m \in Seq(S)
        BY DEF ResInv, ResourceRecords
      <4> HIDE DEF S, m
      <4>2. \A o \in DOMAIN m : m[o] \in S
        BY <4>1
      <4> QED
        BY <1>4, <4>2 DEF S, m
    <3> QED
      BY <1>1, <1>4, <2>1, <3>1
  <2>2. CASE p \in r.placements
    BY <2>2 DEF TemplatesInv, Placed
  <2> QED
    BY <1>3, <2>1, <2>2
<1> QED
  BY <1>7, <1>8, <1>9 DEF TemplatesInv

----------------------------------------------------------------------------
(* What each operation does to what can be placed.                         *)

NewFont == [kind |-> "font", level |-> 0, named |-> FALSE]

\* Nothing about images changes, but that a font may be made.
Apart(r, e) == SameImages(r, e) /\ (e.made = r.made \/ e.made = Append(r.made, NewFont))

LEMMA FontAddedApart ==
  ASSUME NEW r \in ResourceRecords, NEW a
  PROVE  LET e == AddFont(r, a)
             f == BeginFontIn(r, a)
         IN  Apart(r, e) /\ e.known = r.known /\ Apart(r, f) /\ f.known = r.known
<1> DEFINE w == Without(r.held.font, FirstFree(r.fonts))
                  \cup {[id |-> FirstFree(r.fonts), object |-> Next1(r)]}
           m == Append(r.made, NewFont)
           p == [r.heap EXCEPT ![a] = Next1(r)]
           t == Register(r.fonts, a)
           n == Next1(r)
           e == [r EXCEPT !.held["font"] = w, !.made = m, !.heap = p, !.fonts = t]
           f == [e EXCEPT !.font = a, !.type3 = n]
<1>1. AddFont(r, a) = e
  BY DEF AddFont, Learn, Without, ResourceRecords, NewFont
<1>2. BeginFontIn(r, a) = f
  BY <1>1 DEF BeginFontIn
<1> HIDE DEF w, m, p, t, n
<1>3. e.known = r.known /\ SameImages(r, e) /\ e.made = m
  BY DEF ResourceRecords, SameImages
<1>4. f.known = r.known /\ SameImages(r, f) /\ f.made = m
  BY DEF ResourceRecords, SameImages
<1> HIDE DEF e, f
<1> QED
  BY <1>1, <1>2, <1>3, <1>4 DEF Apart, m

LEMMA FontKeptApart ==
  ASSUME NEW r \in ResourceRecords, NEW d, NEW id
  PROVE  LET e == PS_deletefont(r, id)
             f == PS_setfont(r, d, id)
             g == [r EXCEPT !.type3 = Null]
         IN  /\ Apart(r, e) /\ e.known = r.known
             /\ Apart(r, f) /\ f.known = r.known
             /\ Apart(r, g) /\ g.known = r.known
<1> DEFINE w == Without(r.held.font, id)
           p == [r.heap EXCEPT ![Get(r.fonts, id)] = Null]
           t == Unregister(r.fonts, id)
           e == [r EXCEPT !.held["font"] = w, !.heap = p, !.fonts = t]
           f == [r EXCEPT !.font = r.fonts[id]]
           g == [r EXCEPT !.type3 = Null]
<1>1. PS_deletefont(r, id) \in {r, e}
  BY DEF PS_deletefont, Forget, Without, ResourceRecords
<1>2. PS_setfont(r, d, id) \in {r, f}
  BY DEF PS_setfont
<1> HIDE DEF w, p, t
<1>3. e.known = r.known /\ SameImages(r, e) /\ e.made = r.made
  BY DEF ResourceRecords, SameImages
<1>4. f.known = r.known /\ SameImages(r, f) /\ f.made = r.made
  BY DEF ResourceRecords, SameImages
<1>5. g.known = r.known /\ SameImages(r, g) /\ g.made = r.made
  BY DEF ResourceRecords, SameImages
<1>6. Apart(r, r)
  BY DEF Apart, SameImages
<1> HIDE DEF e, f
<1> QED
  BY <1>1, <1>2, <1>3, <1>4, <1>5, <1>6 DEF Apart

LEMMA PageEndedApart ==
  ASSUME NEW r \in ResourceRecords
  PROVE  LET e == PageEndedIn(r)
         IN  Apart(r, e) /\ e.known = {k \in r.known : k.level = 0}
<1> DEFINE k == {x \in r.known : x.level = 0}
           e == [r EXCEPT !.font = Null, !.known = k]
<1>1. PageEndedIn(r) = e
  BY DEF PageEndedIn
<1> HIDE DEF k
<1>2. e.known = k /\ SameImages(r, e) /\ e.made = r.made
  BY DEF ResourceRecords, SameImages
<1> QED
  BY <1>1, <1>2 DEF Apart, k

\* What cannot be placed any more can be placed nowhere.
LEMMA AllDeleted ==
  ASSUME NEW r, r \in ResourceRecords, TemplatesInv(r)
  PROVE  LET e == DeleteAll(r)
         IN  /\ TemplatesInv(e) /\ e.made = r.made /\ e.known = r.known
             /\ e.template = r.template
<1> DEFINE p == [a \in Address |->
                   IF \E i \in DOMAIN r.fonts : r.fonts[i] = a THEN Null ELSE r.heap[a]]
           h == [font |-> {}, image |-> {}]
           e == [r EXCEPT !.heap = p, !.fonts = <<>>, !.images = <<>>, !.font = Null, !.held = h]
<1>1. DeleteAll(r) = e
  BY DEF DeleteAll
<1> HIDE DEF p
<1>2. /\ e.known = r.known /\ e.made = r.made /\ e.template = r.template
      /\ e.placements = r.placements /\ e.held.image = {}
  BY DEF ResourceRecords
<1> HIDE DEF e, h
<1>3. TemplatesInv(e)
  BY <1>2 DEF TemplatesInv, Numbered, Newest, Named, Placed, Objects
<1> QED
  BY <1>1, <1>2, <1>3

NewImage(d, reuse) == [kind |-> "image", level |-> Level(d), named |-> reuse]

LEMMA ImageOpened ==
  ASSUME NEW r, r \in ResourceRecords, NEW d, NEW reuse, NEW e, e = OpenImageIn(r, d, reuse)
  PROVE  LET new == [id |-> FirstFree(r.images), object |-> Next1(r)]
         IN  /\ e.made = Append(r.made, NewImage(d, reuse))
             /\ e.held.image = Without(r.held.image, FirstFree(r.images)) \cup {new}
             /\ e.forms = r.forms /\ e.placements = r.placements /\ e.template = r.template
             /\ r.known \subseteq e.known
<1> DEFINE slot == FirstFree(r.images)
           n == Next1(r)
           f == Without(r.held.image, slot) \cup {[id |-> slot, object |-> n]}
           m == Append(r.made, NewImage(d, reuse))
           t == Register(r.images, n)
           k == IF reuse THEN r.known \cup {[object |-> n, level |-> Level(d)]} ELSE r.known
           c == [r EXCEPT !.held["image"] = f, !.made = m, !.images = t, !.known = k]
<1>1. OpenImageIn(r, d, reuse) = c
  BY DEF OpenImageIn, Learn, Without, ResourceRecords, NewImage
<1>2. r.known \subseteq k
  BY DEF k
<1> HIDE DEF f, m, t, k
<1>3. /\ c.made = m /\ c.held.image = f /\ c.forms = r.forms /\ c.placements = r.placements
      /\ c.template = r.template /\ c.known = k
  BY DEF ResourceRecords
<1> HIDE DEF c
<1> QED
  BY <1>1, <1>2, <1>3 DEF f, m

\* An image with a name is defined by it.
LEMMA ImageDefined ==
  ASSUME NEW r, r \in ResourceRecords, NEW d, NEW e, e = OpenImageIn(r, d, TRUE)
  PROVE  [object |-> Next1(r), level |-> Level(d)] \in e.known
BY DEF OpenImageIn, Learn, ResourceRecords

LEMMA TemplateBegun ==
  ASSUME NEW r, r \in ResourceRecords
  PROVE  LET e == BeginTemplateIn(r)
             new == [id |-> FirstFree(r.images), object |-> Next1(r)]
         IN  /\ e.made = Append(r.made, [kind |-> "template", level |-> 0, named |-> FALSE])
             /\ e.held.image = Without(r.held.image, FirstFree(r.images)) \cup {new}
             /\ e.forms = r.forms /\ e.placements = r.placements /\ e.template = new
             /\ e.known = r.known
<1> DEFINE slot == FirstFree(r.images)
           n == Next1(r)
           f == Without(r.held.image, slot) \cup {[id |-> slot, object |-> n]}
           m == Append(r.made, [kind |-> "template", level |-> 0, named |-> FALSE])
           t == Register(r.images, n)
           k == [id |-> slot, object |-> n]
           e == [r EXCEPT !.held["image"] = f, !.made = m, !.images = t, !.template = k]
<1>1. BeginTemplateIn(r) = e
  BY DEF BeginTemplateIn, Learn, Without, ResourceRecords
<1> HIDE DEF f, m, t, k
<1>2. /\ e.made = m /\ e.held.image = f /\ e.forms = r.forms /\ e.placements = r.placements
      /\ e.template = k /\ e.known = r.known
  BY DEF ResourceRecords
<1> HIDE DEF e
<1> QED
  BY <1>1, <1>2 DEF f, m, k

LEMMA ImageForgotten ==
  ASSUME NEW r, r \in ResourceRecords, NEW id
  PROVE  LET e == PS_close_image(r, id)
         IN  \/ e = r
             \/ /\ e.made = r.made /\ e.held.image = Without(r.held.image, id)
                /\ e.template = r.template /\ e.forms = r.forms
                /\ e.placements = r.placements /\ e.known = r.known
<1> DEFINE f == Without(r.held.image, id)
           t == Unregister(r.images, id)
           e == [r EXCEPT !.held["image"] = f, !.images = t]
<1>1. PS_close_image(r, id) \in {r, e}
  BY DEF PS_close_image, Forget, Without, ResourceRecords
<1> HIDE DEF f, t
<1>2. /\ e.made = r.made /\ e.held.image = f /\ e.template = r.template /\ e.forms = r.forms
      /\ e.placements = r.placements /\ e.known = r.known
  BY DEF ResourceRecords
<1> HIDE DEF e
<1> QED
  BY <1>1, <1>2 DEF f

LEMMA PlacementAdded ==
  ASSUME NEW r, r \in ResourceRecords, NEW id
  PROVE  LET e == PlaceImageIn(r, id)
         IN  \/ e = r
             \/ /\ r.template # NoTemplate /\ Get(r.images, id) # Null
                /\ e.made = r.made /\ e.held = r.held /\ e.forms = r.forms
                /\ e.template = r.template /\ e.known = r.known
                /\ e.placements = r.placements \cup
                     {[by |-> r.template.object, id |-> id, meant |-> o] :
                        o \in Denotes(r, "image", id)}
<1> DEFINE p == r.placements \cup
                  {[by |-> r.template.object, id |-> id, meant |-> o] :
                     o \in Denotes(r, "image", id)}
           e == [r EXCEPT !.placements = p]
<1>1. \/ PlaceImageIn(r, id) = r
      \/ r.template # NoTemplate /\ Get(r.images, id) # Null /\ PlaceImageIn(r, id) = e
  BY DEF PlaceImageIn
<1> HIDE DEF p
<1>2. /\ e.made = r.made /\ e.held = r.held /\ e.forms = r.forms
      /\ e.template = r.template /\ e.known = r.known /\ e.placements = p
  BY DEF ResourceRecords
<1> HIDE DEF e
<1> QED
  BY <1>1, <1>2 DEF p

LEMMA TemplateNamed ==
  ASSUME NEW r, r \in ResourceRecords
  PROVE  LET e == EndTemplateIn(r)
         IN  /\ e.made = r.made /\ e.held = r.held /\ e.placements = r.placements
             /\ e.template = NoTemplate /\ e.known = r.known
             /\ e.forms = {f \in r.forms : f.id # r.template.id} \cup {r.template}
<1> DEFINE f == {x \in r.forms : x.id # r.template.id} \cup {r.template}
           e == [r EXCEPT !.forms = f, !.template = NoTemplate]
<1>1. EndTemplateIn(r) = e
  BY DEF EndTemplateIn
<1> HIDE DEF f
<1>2. /\ e.made = r.made /\ e.held = r.held /\ e.placements = r.placements
      /\ e.template = NoTemplate /\ e.known = r.known /\ e.forms = f
  BY DEF ResourceRecords
<1> HIDE DEF e
<1> QED
  BY <1>1, <1>2 DEF f

----------------------------------------------------------------------------
(* What is known of the output.                                            *)

\* An image with a name is defined, if it was outside of pages or on this one.
Known(r, d) ==
  \A o \in DOMAIN r.made :
    /\ r.made[o].level <= d.page
    /\ r.made[o].named /\ (r.made[o].level = 0 \/ (d.page_open /\ r.made[o].level = d.page))
         => [object |-> o, level |-> r.made[o].level] \in r.known

\* The page stays, or ends, or the next one begins.
Turned(d, c) ==
  (c.page = d.page /\ (c.page_open => d.page_open)) \/ c.page = d.page + 1

\* What is made is named where it is made, and names last as long as the page.
Learns(r, e, c) ==
  /\ MadeOn(r, e)
  /\ \A o \in DOMAIN e.made \ DOMAIN r.made :
       /\ e.made[o].level <= c.page
       /\ e.made[o].named => [object |-> o, level |-> e.made[o].level] \in e.known
  /\ \A k \in r.known : k.level = 0 \/ c.page_open => k \in e.known

LEMMA MadeIs ==
  ASSUME NEW r \in ResourceRecords, NEW o \in DOMAIN r.made
  PROVE  /\ r.made[o].level \in Nat /\ r.made[o].named \in BOOLEAN
         /\ r.made[o].kind \in {"font", "image", "template"}
<1> DEFINE S == [kind : {"font", "image", "template"}, level : Nat, named : BOOLEAN]
           m == r.made
<1>1. m \in Seq(S)
  BY DEF ResourceRecords
<1> HIDE DEF S, m
<1>2. \A x \in DOMAIN m : m[x] \in S
  BY <1>1
<1> QED
  BY <1>2 DEF S, m

LEMMA KnownStep ==
  ASSUME NEW r \in ResourceRecords, NEW d, d.page \in Nat, Known(r, d),
         NEW e, NEW c, c.page \in Nat, Turned(d, c), Learns(r, e, c)
  PROVE  Known(e, c)
<1> SUFFICES ASSUME NEW o \in DOMAIN e.made
             PROVE  /\ e.made[o].level <= c.page
                    /\ e.made[o].named
                         /\ (e.made[o].level = 0 \/ (c.page_open /\ e.made[o].level = c.page))
                       => [object |-> o, level |-> e.made[o].level] \in e.known
  BY DEF Known
<1>1. CASE o \notin DOMAIN r.made
  BY <1>1 DEF Learns
<1>2. CASE o \in DOMAIN r.made
  <2>1. e.made[o] = r.made[o] /\ r.made[o].level \in Nat
    BY <1>2, MadeIs DEF Learns, MadeOn
  <2>2. PICK n \in Nat : n = r.made[o].level
    BY <2>1
  <2>3. n <= d.page /\ n <= c.page
    <3>1. n <= d.page
      BY <1>2, <2>2 DEF Known
    <3>2. c.page = d.page \/ c.page = d.page + 1
      BY DEF Turned
    <3> QED
      BY <2>2, <3>1, <3>2
  <2>4. ASSUME r.made[o].named, n = 0 \/ (c.page_open /\ n = c.page)
        PROVE  [object |-> o, level |-> n] \in e.known
    <3>1. n = 0 \/ (d.page_open /\ n = d.page)
      BY <2>3, <2>4 DEF Turned
    <3>2. [object |-> o, level |-> n] \in r.known
      BY <1>2, <2>2, <2>4, <3>1 DEF Known
    <3> QED
      BY <2>4, <3>2 DEF Learns
  <2> QED
    BY <2>1, <2>2, <2>3, <2>4
<1> QED
  BY <1>1, <1>2

\* Before the document is opened no page has been begun.
Unturned == opens = 0 => psdoc.page = 0

\* Nothing is on the object before it is opened.
LEMMA ObjectOnly ==
  ASSUME IInv, Deep(psdoc, opens), opens = 0, psdoc.life = "live"
  PROVE  ps_current_scope(psdoc) = "OBJECT" /\ ~OnTemplate(psdoc)
<1>1. Len(psdoc.scopes) = 1 /\ psdoc.scopes[1] = "OBJECT"
  BY DEF Deep, IInv, Good
<1>2. ps_current_scope(psdoc) = "OBJECT"
  BY <1>1 DEF ps_current_scope
<1> QED
  BY <1>2, TopOnTemplate

LEMMA LivesWhenCalled ==
  ASSUME [RNext]_rvars, psdoc.life # "live"
  PROVE  psdoc' = psdoc /\ opens' = opens /\ res' = res
<1>1. \A d : ~Returns(d)
  BY DEF Returns
<1>2. ~Next
  BY <1>1 DEF Next, OpenDocument, CloseDocument, DeleteDocument, BeginPage, EndPage,
    BeginTemplate, EndTemplate, BeginPattern, EndPattern, BeginFont, EndFont, BeginGlyph, EndGlyph,
    FindFont, OpenImage, IncludeFile, ShadingPattern, ConstructPath, EndPath, Save, Restore,
    ShowText, PlaceImage
<1>3. ~(RBeginFont \/ REndFont \/ RBeginTemplate \/ REndTemplate
          \/ REndPage \/ RDeleteDocument \/ ROther)
  BY <1>2 DEF Next, RBeginFont, REndFont, RBeginTemplate, REndTemplate, REndPage, RDeleteDocument,
    ROther
<1>4. ~(RFindFont \/ DeleteFont \/ SetFont \/ RShowText
          \/ ROpenImage \/ CloseImage \/ PlaceImageById)
  BY <1>1 DEF RFindFont, DeleteFont, SetFont, RShowText, ROpenImage, CloseImage, PlaceImageById
<1> QED
  BY <1>3, <1>4 DEF RNext, rvars

LEMMA TurnStep ==
  ASSUME MaxOpens <= 1, "page_between" \in ClientRules,
         IInv, Deep(psdoc, opens), Unturned, [RNext]_rvars
  PROVE  Turned(psdoc, psdoc') /\ Unturned'
<1>1. psdoc \in PSDoc /\ [Next]_vars /\ opens \in Nat
  BY DocumentStep DEF IInv, Good, Counted
<1>2. \/ SameLeaf
      \/ BeginPage /\ psdoc'.page = psdoc.page + 1
      \/ OpenDocument /\ psdoc'.page = 0 /\ psdoc'.page_open = psdoc.page_open
  BY <1>1, StepAtPage
<1>3. opens' = opens \/ opens' = opens + 1
  BY <1>1 DEF Next, vars, OpenDocument, CloseDocument, DeleteDocument, BeginPage, EndPage,
    BeginTemplate, EndTemplate, BeginPattern, EndPattern, BeginFont, EndFont, BeginGlyph, EndGlyph,
    FindFont, OpenImage, IncludeFile, ShadingPattern, ConstructPath, EndPath, Save, Restore,
    ShowText, PlaceImage
<1>4. opens' = 0 => opens = 0
  BY <1>1, <1>3
<1>5. CASE SameLeaf
  BY <1>4, <1>5 DEF SameLeaf, Turned, Unturned
<1>6. CASE BeginPage /\ psdoc'.page = psdoc.page + 1
  <2>1. ps_current_scope(psdoc) # "OBJECT" /\ psdoc.life = "live"
    BY <1>6 DEF BeginPage, Keeps, ps_check_scope, Returns
  <2>2. opens # 0
    BY <2>1, ObjectOnly
  <2> QED
    BY <1>4, <1>6, <2>2 DEF Turned, Unturned
<1>7. CASE OpenDocument /\ psdoc'.page = 0 /\ psdoc'.page_open = psdoc.page_open
  <2>1. opens < MaxOpens /\ opens' = opens + 1
    BY <1>7 DEF OpenDocument
  <2>2. opens = 0 /\ opens' # 0
    BY <1>1, <2>1, BoundsAssumption
  <2> QED
    BY <1>7, <2>2 DEF Turned, Unturned
<1> QED
  BY <1>2, <1>5, <1>6, <1>7

----------------------------------------------------------------------------
(* The template that is being defined is on top.                           *)

TemplateOpen ==
  res.template # NoTemplate =>
    IF psdoc.life = "live" THEN OnTemplate(psdoc) ELSE ps_current_scope(psdoc) # "PAGE"

LEMMA TemplateChanges ==
  ASSUME ResInv(res), TemplatesInv(res), [RNext]_rvars
  PROVE  \/ res'.template = res.template
         \/ res'.template = NoTemplate
         \/ RBeginTemplate /\ Definable
<1>0. res \in ResourceRecords
  BY DEF ResInv
<1>1. CASE res' = res
  BY <1>1
<1>2. ASSUME Apart(res, res')
      PROVE  res'.template = res.template
  BY <1>2 DEF Apart, SameImages
<1>3. CASE RFindFont
  <2>1. PICK a : res' \in {AddFont(res, a), res}
    BY <1>3 DEF RFindFont, FindFontIn
  <2> QED
    BY <1>0, <1>2, <2>1, FontAddedApart
<1>4. CASE DeleteFont \/ SetFont
  <2>1. PICK id : res' = PS_deletefont(res, id) \/ res' = PS_setfont(res, psdoc, id)
    BY <1>4 DEF DeleteFont, SetFont
  <2>2. Apart(res, PS_deletefont(res, id)) /\ Apart(res, PS_setfont(res, psdoc, id))
    BY <1>0, FontKeptApart
  <2> QED
    BY <1>2, <2>1, <2>2
<1>5. CASE RBeginFont
  <2>1. PICK a : res' \in {BeginFontIn(res, a), res}
    BY <1>5 DEF RBeginFont
  <2> QED
    BY <1>0, <1>2, <2>1, FontAddedApart
<1>6. CASE REndFont
  BY <1>0, <1>2, <1>6, FontKeptApart DEF REndFont
<1>7. CASE ROpenImage
  <2>1. PICK reuse : res' \in {OpenImageIn(res, psdoc, reuse), res}
    BY <1>7 DEF ROpenImage
  <2>2. OpenImageIn(res, psdoc, reuse).template = res.template
    BY <1>0, ImageOpened
  <2> QED
    BY <2>1, <2>2
<1>8. CASE CloseImage
  <2>1. PICK id : res' = PS_close_image(res, id)
    BY <1>8 DEF CloseImage
  <2> QED
    BY <1>0, <2>1, ImageForgotten
<1>9. CASE PlaceImageById
  <2>1. PICK id : res' \in {PlaceImageIn(res, id), res}
    BY <1>9 DEF PlaceImageById
  <2> QED
    BY <1>0, <2>1, PlacementAdded
<1>10. CASE RBeginTemplate
  BY <1>10 DEF RBeginTemplate
<1>11. CASE REndTemplate
  BY <1>0, <1>11, TemplateNamed DEF REndTemplate
<1>12. CASE REndPage
  BY <1>0, <1>2, <1>12, PageEndedApart DEF REndPage
<1>13. CASE RDeleteDocument
  BY <1>0, <1>13, AllDeleted DEF RDeleteDocument
<1>14. CASE RShowText \/ ROther \/ UNCHANGED rvars
  BY <1>14 DEF RShowText, ROther, SameResources, rvars
<1> QED
  BY <1>1, <1>3, <1>4, <1>5, <1>6, <1>7, <1>8, <1>9, <1>10, <1>11, <1>12, <1>13, <1>14 DEF RNext

LEMMA TemplateOpenStep ==
  ASSUME MaxScopes >= 4, MaxOpens <= 1, "page_between" \in ClientRules,
         IInv, Deep(psdoc, opens), PageAgrees(psdoc), ResInv(res), TemplatesInv(res),
         TemplateOpen, [RNext]_rvars
  PROVE  TemplateOpen'
<1>1. CASE psdoc.life # "live"
  BY <1>1, LivesWhenCalled DEF TemplateOpen
<1>2. ASSUME OnTemplate(psdoc')
      PROVE  TemplateOpen'
  BY <1>2, TopOnTemplate DEF TemplateOpen
<1>3. CASE psdoc.life = "live" /\ res.template # NoTemplate
  <2>1. OnTemplate(psdoc) /\ Good(psdoc)
    BY <1>3 DEF TemplateOpen, IInv
  <2>2. ~OpenDocument
    <3> SUFFICES ASSUME OpenDocument
                 PROVE  opens = 0
      BY <1>3, <2>1, ObjectOnly
    <3> QED
      BY BoundsAssumption DEF OpenDocument, IInv, Counted
  <2>3. ASSUME NEW d, OnTemplate(d), Returns(d)
        PROVE  OnTemplate(psdoc')
    <3>1. OnTemplate([psdoc EXCEPT !.life = "crashed"])
      BY <2>1, SameStackOnTemplate DEF OnTemplate
    <3> QED
      BY <2>3, <3>1 DEF Returns
  <2>4. CASE RBeginFont /\ BeginFont
    BY <1>2, <2>1, <2>3, <2>4, RefusedInTemplate DEF BeginFont
  <2>5. CASE REndTemplate /\ EndTemplate
    <3>1. CASE ps_current_scope(psdoc) = "TEMPLATE"
      <4>1. res'.template = NoTemplate
        BY <2>5, <3>1, TemplateNamed DEF REndTemplate, ps_check_scope, ResInv
      <4> QED
        BY <4>1 DEF TemplateOpen
    <3>2. CASE ps_current_scope(psdoc) # "TEMPLATE"
      BY <1>2, <2>1, <2>3, <2>5, <3>2, RefusedInTemplate DEF EndTemplate
    <3> QED
      BY <3>1, <3>2
  <2>6. CASE OtherCall
    BY <1>2, <2>1, <2>2, <2>6, TemplateStays
  <2> QED
    BY <2>4, <2>5, <2>6, DocumentCall
<1>4. CASE psdoc.life = "live" /\ res.template = NoTemplate
  <2>1. CASE RBeginTemplate /\ Definable
    BY <2>1, TemplateBegins DEF RBeginTemplate, TemplateOpen, IInv
  <2> QED
    BY <1>4, <2>1, TemplateChanges DEF TemplateOpen
<1> QED
  BY <1>1, <1>3, <1>4

----------------------------------------------------------------------------
(* What can be placed, from call to call.                                  *)

\* What is known lasts as long as the page.
Lasts(r, e, c) == \A k \in r.known : k.level = 0 \/ c.page_open => k \in e.known

LEMMA NothingMade ==
  ASSUME NEW r, NEW e, e.made = r.made, NEW c, Lasts(r, e, c)
  PROVE  Learns(r, e, c)
BY DEF Learns, MadeOn, Lasts

LEMMA OneMade ==
  ASSUME NEW r \in ResourceRecords, NEW x, NEW e, e.made = Append(r.made, x), NEW c, Lasts(r, e, c),
         x.level <= c.page,
         x.named => [object |-> Next1(r), level |-> x.level] \in e.known
  PROVE  Learns(r, e, c)
<1>1. /\ MadeOn(r, e) /\ DOMAIN r.made = 1..Len(r.made) /\ Len(r.made) \in Nat
      /\ DOMAIN e.made = 1..Next1(r) /\ Next1(r) = Len(r.made) + 1 /\ e.made[Next1(r)] = x
  BY NextMade
<1>2. \A o \in DOMAIN e.made \ DOMAIN r.made : o = Next1(r)
  BY <1>1
<1> QED
  BY <1>1, <1>2 DEF Learns, Lasts

LEMMA ApartStep ==
  ASSUME NEW r, ResInv(r), TemplatesInv(r), NEW e, Apart(r, e),
         NEW c, c.page \in Nat, Lasts(r, e, c)
  PROVE  TemplatesInv(e) /\ Learns(r, e, c)
<1>0. r \in ResourceRecords
  BY DEF ResInv
<1>1. CASE e.made = r.made
  <2>1. MadeOn(r, e)
    BY <1>1 DEF MadeOn
  <2> QED
    BY <1>0, <1>1, <2>1, SameImagesKeep, NothingMade DEF Apart
<1>2. CASE e.made = Append(r.made, NewFont)
  <2>1. PICK x : x = NewFont
    OBVIOUS
  <2>2. x.level = 0 /\ x.level <= c.page /\ x.named = FALSE
    BY <2>1 DEF NewFont
  <2>3. MadeOn(r, e)
    BY <1>0, <1>2, NextMade
  <2>4. Learns(r, e, c)
    BY <1>0, <1>2, <2>1, <2>2, OneMade
  <2> QED
    BY <1>0, <2>3, <2>4, SameImagesKeep DEF Apart
<1> QED
  BY <1>1, <1>2 DEF Apart

\* In a template nothing is begun, opened or made.
LEMMA NothingIsBegun ==
  ASSUME IInv, TemplateOpen, res.template # NoTemplate
  PROVE  /\ RBeginTemplate => ~Definable
         /\ ROpenImage => res' = res
<1>1. ASSUME RBeginTemplate
      PROVE  ~Definable
  <2>1. psdoc.life = "live"
    BY <1>1 DEF RBeginTemplate, BeginTemplate, Returns
  <2>2. OnTemplate(psdoc) /\ Good(psdoc)
    BY <2>1 DEF TemplateOpen, IInv
  <2>3. PrologStarted(psdoc) = psdoc /\ ps_current_scope(psdoc) \in {"TEMPLATE", "PATH"}
    BY <2>2, RefusedInTemplate, TopOnTemplate
  <2> QED
    BY <2>3 DEF Definable, ps_check_scope
<1>2. ASSUME ROpenImage
      PROVE  res' = res
  <2>1. PICK reuse \in BOOLEAN :
          /\ Returns(PS_open_image(psdoc, reuse))
          /\ res' = IF ps_check_scope(psdoc', {"DOCUMENT", "PAGE"}
                                               \cup (IF reuse THEN {"PROLOG"} ELSE {}))
                    THEN OpenImageIn(res, psdoc, reuse) ELSE res
    BY <1>2 DEF ROpenImage
  <2>2. OnTemplate(psdoc) /\ Good(psdoc)
    BY <2>1 DEF TemplateOpen, IInv, Returns
  <2>3. PS_open_image(psdoc, reuse) = psdoc
    BY <2>2, RefusedInTemplate
  <2>4. psdoc' = psdoc
    <3>1. psdoc.life = "live"
      BY <2>1 DEF Returns
    <3> QED
      BY <2>1, <2>3, <3>1 DEF Returns
  <2>5. ps_current_scope(psdoc') \in {"TEMPLATE", "PATH"}
    BY <2>2, <2>4, TopOnTemplate
  <2> QED
    BY <2>1, <2>5 DEF ps_check_scope
<1> QED
  BY <1>1, <1>2

LEMMA OpenImageStep ==
  ASSUME IInv, ResInv(res), TemplatesInv(res), TemplateOpen, ROpenImage,
         Turned(psdoc, psdoc'), psdoc'.page \in Nat
  PROVE  TemplatesInv(res') /\ Learns(res, res', psdoc')
<1>0. res \in ResourceRecords /\ psdoc \in PSDoc
  BY DEF ResInv, IInv, Good
<1>1. CASE res' = res
  BY <1>1, NothingMade DEF Lasts
<1>2. CASE res' # res
  <2>1. PICK reuse \in BOOLEAN : res' = OpenImageIn(res, psdoc, reuse)
    BY <1>2 DEF ROpenImage
  <2>2. res.template = NoTemplate
    BY <1>2, NothingIsBegun
  <2> DEFINE x == NewImage(psdoc, reuse)
             new == [id |-> FirstFree(res.images), object |-> Next1(res)]
  <2>3. /\ res'.made = Append(res.made, x)
        /\ res'.held.image = Without(res.held.image, FirstFree(res.images)) \cup {new}
        /\ res'.forms = res.forms /\ res'.placements = res.placements
        /\ res'.template = res.template
        /\ res.known \subseteq res'.known
    BY <1>0, <2>1, ImageOpened
  <2>4. /\ x.kind = "image" /\ x.level = Level(psdoc) /\ x.named = reuse
    BY DEF NewImage
  <2>5. x.level <= psdoc'.page
    <3>1. x.level \in {0, psdoc.page} /\ psdoc.page \in Nat
      BY <1>0, <2>4 DEF Level, PSDoc
    <3>2. psdoc'.page = psdoc.page \/ psdoc'.page = psdoc.page + 1
      BY DEF Turned
    <3> HIDE DEF x
    <3> QED
      BY <3>1, <3>2
  <2>6. x.named => [object |-> Next1(res), level |-> x.level] \in res'.known
    <3> SUFFICES ASSUME reuse = TRUE
                 PROVE  [object |-> Next1(res), level |-> Level(psdoc)] \in res'.known
      BY <2>4
    <3>1. res' = OpenImageIn(res, psdoc, TRUE)
      BY <2>1
    <3> HIDE DEF x, new
    <3> QED
      BY <1>0, <3>1, ImageDefined
  <2> HIDE DEF x
  <2>7. Lasts(res, res', psdoc')
    BY <2>3 DEF Lasts
  <2>8. Learns(res, res', psdoc')
    BY <1>0, <2>3, <2>5, <2>6, <2>7, OneMade
  <2>9. res'.held.image = res.held.image \cup {new}
    BY <2>3, SlotIsFree
  <2>10. TemplatesInv(res')
    <3>1. x.kind # "font" /\ x.kind # "template"
      BY <2>4
    <3>2. PICK k : k = new
      OBVIOUS
    <3> HIDE DEF new
    <3>3. k = [id |-> FirstFree(res.images), object |-> Next1(res)]
      BY <3>2 DEF new
    <3>4. res'.held.image = res.held.image \cup {k} /\ res'.template = NoTemplate
      BY <2>2, <2>3, <2>9, <3>2
    <3> QED
      BY <2>2, <2>3, <3>1, <3>3, <3>4, ImageMade
  <2> QED
    BY <2>8, <2>10
<1> QED
  BY <1>1, <1>2

LEMMA BeginTemplateStep ==
  ASSUME IInv, ResInv(res), TemplatesInv(res), TemplateOpen, RBeginTemplate, psdoc'.page \in Nat
  PROVE  TemplatesInv(res') /\ Learns(res, res', psdoc')
<1>0. res \in ResourceRecords
  BY DEF ResInv
<1>1. CASE res' = res
  BY <1>1, NothingMade DEF Lasts
<1>2. CASE res' # res
  <2>1. res' = BeginTemplateIn(res) /\ Definable
    BY <1>2 DEF RBeginTemplate
  <2>2. res.template = NoTemplate
    BY <2>1, NothingIsBegun
  <2>3. PICK x : x = [kind |-> "template", level |-> 0, named |-> FALSE]
    OBVIOUS
  <2>4. PICK new : new = [id |-> FirstFree(res.images), object |-> Next1(res)]
    OBVIOUS
  <2>5. /\ res'.made = Append(res.made, x)
        /\ res'.held.image = Without(res.held.image, FirstFree(res.images)) \cup {new}
        /\ res'.forms = res.forms /\ res'.placements = res.placements
        /\ res'.template = new
        /\ res.known = res'.known
    BY <1>0, <2>1, <2>3, <2>4, TemplateBegun
  <2>6. /\ x.kind # "font" /\ x.level = 0 /\ x.named = FALSE /\ x.level <= psdoc'.page
    BY <2>3
  <2>7. Learns(res, res', psdoc')
    BY <1>0, <2>5, <2>6, OneMade DEF Lasts
  <2>8. res'.held.image = res.held.image \cup {new}
    BY <2>5, SlotIsFree
  <2>9. TemplatesInv(res')
    BY <2>2, <2>4, <2>5, <2>6, <2>8, ImageMade
  <2> QED
    BY <2>7, <2>9
<1> QED
  BY <1>1, <1>2

LEMMA CloseImageStep ==
  ASSUME "templates_kept" \in ResourceRules, ResInv(res), TemplatesInv(res), CloseImage
  PROVE  TemplatesInv(res') /\ Learns(res, res', psdoc')
<1>0. res \in ResourceRecords
  BY DEF ResInv
<1>1. CASE res' = res
  BY <1>1, NothingMade DEF Lasts
<1>2. CASE res' # res
  <2>1. PICK id \in AnyId(res.images) :
          /\ PlacedBy(Get(res.images, id)) \subseteq {Get(res.images, id)}
          /\ res' = PS_close_image(res, id)
    BY DEF CloseImage, RKeeps
  <2>2. /\ res'.made = res.made /\ res'.held.image = Without(res.held.image, id)
        /\ res'.template = res.template /\ res'.forms = res.forms
        /\ res'.placements = res.placements /\ res'.known = res.known
    BY <1>0, <1>2, <2>1, ImageForgotten
  <2>3. TemplatesInv(res')
    BY <2>1, <2>2, ImageClosed
  <2>4. Learns(res, res', psdoc')
    BY <2>2, NothingMade DEF Lasts
  <2> QED
    BY <2>3, <2>4
<1> QED
  BY <1>1, <1>2

LEMMA PlaceImageStep ==
  ASSUME {"ended_first", "local", "reusable"} \subseteq ResourceRules,
         IInv, ResInv(res), TemplatesInv(res), TemplateOpen, PlaceImageById
  PROVE  TemplatesInv(res') /\ Learns(res, res', psdoc')
<1>0. res \in ResourceRecords
  BY DEF ResInv
<1>1. CASE res' = res
  BY <1>1, NothingMade DEF Lasts
<1>2. CASE res' # res
  <2>1. PICK id \in AnyId(res.images) :
          LET object == Get(res.images, id) IN
          /\ object = Null \/ object # res.template.object
          /\ object # Null /\ ps_check_scope(psdoc, {"TEMPLATE"}) => res.made[object].level = 0
          /\ object # Null /\ ps_check_scope(psdoc, {"TEMPLATE"}) /\ res.made[object].kind = "image"
               => res.made[object].named
          /\ Returns(IF object = Null THEN psdoc ELSE PS_place_image(psdoc))
          /\ res' = IF ps_check_scope(psdoc, {"PAGE", "TEMPLATE"})
                    THEN PlaceImageIn(res, id) ELSE res
    BY DEF PlaceImageById, RKeeps
  <2>2. PICK x : x = Get(res.images, id)
    OBVIOUS
  <2>3. ps_check_scope(psdoc, {"PAGE", "TEMPLATE"}) /\ res' = PlaceImageIn(res, id)
    BY <1>2, <2>1
  <2>4. /\ res.template # NoTemplate /\ x # Null
        /\ res'.made = res.made /\ res'.held = res.held /\ res'.forms = res.forms
        /\ res'.template = res.template /\ res'.known = res.known
        /\ res'.placements = res.placements \cup
             {[by |-> res.template.object, id |-> id, meant |-> o] :
                o \in Denotes(res, "image", id)}
    BY <1>0, <1>2, <2>2, <2>3, PlacementAdded
  <2>5. psdoc.life = "live"
    BY <2>1 DEF Returns
  <2>6. ps_check_scope(psdoc, {"TEMPLATE"})
    BY <2>3, <2>4, <2>5, TopOnTemplate DEF TemplateOpen, ps_check_scope
  <2>7. /\ x # res.template.object /\ res.made[x].level = 0
        /\ res.made[x].kind = "image" => res.made[x].named
    BY <2>1, <2>2, <2>4, <2>6
  <2>8. TemplatesInv(res')
    BY <2>2, <2>4, <2>7, ImagePlaced
  <2>9. Learns(res, res', psdoc')
    BY <2>4, NothingMade DEF Lasts
  <2> QED
    BY <2>8, <2>9
<1> QED
  BY <1>1, <1>2

LEMMA PlaceableStep ==
  ASSUME {"templates_kept", "ended_first", "local", "reusable"} \subseteq ResourceRules,
         IInv, ResInv(res), TemplatesInv(res), TemplateOpen, [RNext]_rvars,
         Turned(psdoc, psdoc'), psdoc'.page \in Nat
  PROVE  TemplatesInv(res') /\ Learns(res, res', psdoc')
<1> DEFINE Fine == TemplatesInv(res') /\ Learns(res, res', psdoc')
<1>0. res \in ResourceRecords
  BY DEF ResInv
<1>1. CASE res' = res
  BY <1>1, NothingMade DEF Lasts
<1>2. ASSUME Apart(res, res'), res'.known = res.known
      PROVE  Fine
  BY <1>2, ApartStep DEF Lasts
<1> HIDE DEF Fine
<1>3. CASE RFindFont
  <2>1. PICK a : res' = AddFont(res, a) \/ res' = res
    BY <1>3 DEF RFindFont, FindFontIn
  <2>2. CASE res' = AddFont(res, a)
    BY <1>0, <1>2, <2>2, FontAddedApart DEF Fine
  <2> QED
    BY <1>1, <2>1, <2>2 DEF Fine
<1>4. CASE DeleteFont \/ SetFont
  <2>1. PICK id : res' = PS_deletefont(res, id) \/ res' = PS_setfont(res, psdoc, id)
    BY <1>4 DEF DeleteFont, SetFont
  <2>2. CASE res' = PS_deletefont(res, id)
    BY <1>0, <1>2, <2>2, FontKeptApart DEF Fine
  <2>3. CASE res' = PS_setfont(res, psdoc, id)
    BY <1>0, <1>2, <2>3, FontKeptApart DEF Fine
  <2> QED
    BY <2>1, <2>2, <2>3 DEF Fine
<1>5. CASE RBeginFont
  <2>1. PICK a : res' = BeginFontIn(res, a) \/ res' = res
    BY <1>5 DEF RBeginFont
  <2>2. CASE res' = BeginFontIn(res, a)
    BY <1>0, <1>2, <2>2, FontAddedApart DEF Fine
  <2> QED
    BY <1>1, <2>1, <2>2 DEF Fine
<1>6. CASE REndFont
  <2>1. CASE res' = [res EXCEPT !.type3 = Null]
    BY <1>0, <1>2, <2>1, FontKeptApart DEF Fine
  <2> QED
    BY <1>1, <1>6, <2>1 DEF REndFont, Fine
<1>7. CASE ROpenImage
  BY <1>7, OpenImageStep
<1>8. CASE CloseImage
  BY <1>8, CloseImageStep
<1>9. CASE PlaceImageById
  BY <1>9, PlaceImageStep
<1>10. CASE RBeginTemplate
  BY <1>10, BeginTemplateStep
<1>11. CASE REndTemplate
  <2>1. CASE res' = EndTemplateIn(res)
    <3>1. /\ res'.made = res.made /\ res'.held = res.held /\ res'.placements = res.placements
          /\ res'.template = NoTemplate /\ res'.known = res.known
          /\ res'.forms = {f \in res.forms : f.id # res.template.id} \cup {res.template}
      BY <1>0, <2>1, TemplateNamed
    <3>2. TemplatesInv(res')
      BY <3>1, TemplateEnded
    <3>3. Learns(res, res', psdoc')
      BY <3>1, NothingMade DEF Lasts
    <3> QED
      BY <3>2, <3>3
  <2> QED
    BY <1>1, <1>11, <2>1 DEF REndTemplate
<1>12. CASE REndPage
  <2>1. CASE res' = PageEndedIn(res) /\ ~psdoc'.page_open
    <3>1. Apart(res, res') /\ res'.known = {k \in res.known : k.level = 0}
      BY <1>0, <2>1, PageEndedApart
    <3>2. Lasts(res, res', psdoc')
      BY <2>1, <3>1 DEF Lasts
    <3> QED
      BY <3>1, <3>2, ApartStep
  <2> QED
    BY <1>1, <1>12, <2>1 DEF REndPage
<1>13. CASE RDeleteDocument
  <2>1. CASE res' = DeleteAll(res)
    <3>1. TemplatesInv(res') /\ res'.made = res.made /\ res'.known = res.known
      BY <1>0, <2>1, AllDeleted
    <3> QED
      BY <3>1, NothingMade DEF Lasts
  <2> QED
    BY <1>1, <1>13, <2>1 DEF RDeleteDocument
<1>14. CASE RShowText \/ ROther \/ UNCHANGED rvars
  BY <1>1, <1>14 DEF RShowText, ROther, SameResources, rvars
<1> QED
  BY <1>3, <1>4, <1>5, <1>6, <1>7, <1>8, <1>9, <1>10, <1>11, <1>12, <1>13, <1>14 DEF RNext, Fine

----------------------------------------------------------------------------
(* What the interpreter shows.                                             *)

\* The name that a placement gives what it places is that of what was meant.
NamedAsMeant(p) ==
  IF res.made[p.meant].kind = "template"
  THEN [id |-> p.id, object |-> p.meant] \in res.forms
  ELSE res.made[p.meant].named

\* What f gives for an object, from what it gives for older ones.
Executed(f, o) ==
  CASE o = 0 -> FALSE
    [] o > 0 /\ res.made[o].kind = "image" ->
         res.made[o].named => \E k \in res.known : k.object = o
    [] OTHER ->
         \A p \in {q \in res.placements : q.by = o} :
           /\ NamedAsMeant(p)
           /\ p.meant < o /\ f[p.meant]

\* The same for a set of objects that are shown.
ShownBy(S, o) ==
  /\ o # 0
  /\ IF res.made[o].kind = "image"
     THEN res.made[o].named => \E k \in res.known : k.object = o
     ELSE \A p \in res.placements : p.by = o => NamedAsMeant(p) /\ p.meant < o /\ p.meant \in S

\* Shows is what its definition says: there is such a function, that of the
\* largest set in which all is shown by what is in the set.
LEMMA ShowsIs ==
  ASSUME res \in ResourceRecords
  PROVE  \E S : \A o \in 0..Len(res.made) : (Shows[o] <=> o \in S) /\ (o \in S <=> ShownBy(S, o))
<1> DEFINE N == 0..Len(res.made)
           G == UNION {S \in SUBSET N : \A o \in S : ShownBy(S, o)}
           g == [o \in N |-> o \in G]
           IsShows(f) == f = [o \in N |-> Executed(f, o)]
<1>1. Shows = CHOOSE f : IsShows(f)
  BY Zenon DEF Shows, Executed, NamedAsMeant
<1>2. ASSUME NEW S, NEW T, S \subseteq T, NEW o, ShownBy(S, o)
      PROVE  ShownBy(T, o)
  BY <1>2 DEF ShownBy
<1>3. ASSUME NEW o \in G
      PROVE  o \in N /\ ShownBy(G, o)
  <2>1. PICK S \in SUBSET N : o \in S /\ \A x \in S : ShownBy(S, x)
    OBVIOUS
  <2>2. S \subseteq G
    BY <2>1
  <2> HIDE DEF G
  <2> QED
    BY <1>2, <2>1, <2>2
<1>4. ASSUME NEW o \in N, ShownBy(G, o)
      PROVE  o \in G
  <2> DEFINE S == G \cup {o}
  <2>1. S \in SUBSET N /\ \A x \in S : ShownBy(S, x)
    <3>1. G \subseteq S /\ \A x \in S : x = o \/ x \in G
      OBVIOUS
    <3> HIDE DEF G, S
    <3>2. \A x \in S : x \in N
      BY <1>3, <3>1
    <3>3. \A x \in S : ShownBy(S, x)
      BY <1>2, <1>3, <1>4, <3>1
    <3> QED
      BY <3>2, <3>3
  <2>2. o \in S
    OBVIOUS
  <2> HIDE DEF S
  <2> QED
    BY <2>1, <2>2
<1> HIDE DEF G
<1>5. Len(res.made) \in Nat /\ \A p \in res.placements : p.meant \in Nat
  BY DEF ResourceRecords
<1>6. ASSUME NEW f, NEW S, NEW o \in N, \A x \in N : f[x] <=> x \in S
      PROVE  Executed(f, o) <=> ShownBy(S, o)
  <2>1. o \in Nat /\ \A x \in Nat : x < o => x \in N
    BY <1>5
  <2>2. CASE o = 0
    BY <2>2 DEF Executed, ShownBy
  <2>3. CASE o # 0 /\ res.made[o].kind = "image"
    <3>1. o > 0
      BY <2>1, <2>3
    <3> HIDE DEF N
    <3> QED
      BY <2>3, <3>1 DEF Executed, ShownBy
  <2>4. CASE o # 0 /\ res.made[o].kind # "image"
    <3>1. \A p \in res.placements : p.meant < o => (f[p.meant] <=> p.meant \in S)
      BY <1>5, <1>6, <2>1
    <3>2. (\A p \in {q \in res.placements : q.by = o} :
             /\ NamedAsMeant(p)
             /\ p.meant < o /\ f[p.meant])
          <=> \A p \in res.placements : p.by = o => NamedAsMeant(p) /\ p.meant < o /\ p.meant \in S
      BY <3>1
    <3> HIDE DEF N
    <3> QED
      BY <2>4, <3>2, Zenon DEF Executed, ShownBy
  <2> QED
    BY <2>2, <2>3, <2>4
<1>7. \A o \in N : o \in G <=> ShownBy(G, o)
  BY <1>3, <1>4
<1>8. IsShows(g)
  <2>1. \A x \in N : g[x] <=> x \in G
    OBVIOUS
  <2> HIDE DEF N
  <2>2. ASSUME NEW o \in N
        PROVE  (o \in G) = Executed(g, o)
    <3>1. Executed(g, o) \in BOOLEAN
      BY Zenon DEF Executed
    <3> HIDE DEF g
    <3>2. o \in G <=> Executed(g, o)
      BY <1>6, <1>7, <2>1
    <3> QED
      BY <3>1, <3>2
  <2>3. [o \in N |-> o \in G] = [o \in N |-> Executed(g, o)]
    BY <2>2, Zenon
  <2> QED
    BY <2>3 DEF g
<1>9. IsShows(Shows)
  <2> HIDE DEF IsShows
  <2> QED
    BY <1>1, <1>8, Zenon
<1> DEFINE S == {o \in N : Shows[o]}
<1>10. \A o \in N : Shows[o] <=> o \in S
  OBVIOUS
<1>11. ASSUME NEW o \in N
       PROVE  o \in S <=> ShownBy(S, o)
  <2>1. Shows[o] = Executed(Shows, o)
    BY <1>9, Zenon
  <2> HIDE DEF S
  <2>2. Executed(Shows, o) <=> ShownBy(S, o)
    BY <1>6, <1>10
  <2> QED
    BY <1>10, <2>1, <2>2, Zenon
<1> HIDE DEF S
<1> QED
  BY <1>10, <1>11 DEF N

\* On a page all that can be placed is shown as it was meant.
LEMMA ShownOnPage ==
  ASSUME IInv, PageAgrees(psdoc), ResInv(res), TemplatesInv(res), Known(res, psdoc), TemplateOpen
  PROVE  PlacedAsMeant
<1> SUFFICES ASSUME ps_current_scope(psdoc) = "PAGE"
             PROVE  \A h \in res.held.image :
                      res.made[h.object].level \in {0, psdoc.page} =>
                        /\ Shows[h.object]
                        /\ res.made[h.object].kind = "template" => h \in res.forms
  BY DEF PlacedAsMeant, ps_check_scope
<1>0. res \in ResourceRecords
  BY DEF ResInv
<1>1. DOMAIN res.made = 1..Len(res.made) /\ Len(res.made) \in Nat
  BY <1>0 DEF ResourceRecords
<1>2. res.template = NoTemplate
  BY TopOnTemplate DEF TemplateOpen
<1>3. psdoc.page_open
  <2>1. Len(psdoc.scopes) \in 1..Len(psdoc.scopes) /\ psdoc.scopes[Len(psdoc.scopes)] = "PAGE"
    BY DEF ps_current_scope, IInv, Good, PSDoc
  <2> QED
    BY <2>1 DEF PageAgrees, Has
<1>4. PICK S : \A o \in 0..Len(res.made) : (Shows[o] <=> o \in S) /\ (o \in S <=> ShownBy(S, o))
  BY <1>0, ShowsIs
<1>5. ASSUME NEW o \in DOMAIN res.made, res.made[o].kind = "image",
             res.made[o].named => res.made[o].level \in {0, psdoc.page}
      PROVE  o \in S
  <2>1. res.made[o].named => [object |-> o, level |-> res.made[o].level] \in res.known
    BY <1>3, <1>5 DEF Known
  <2>2. res.made[o].named => \E k \in res.known : k.object = o
    BY <2>1
  <2>3. o # 0 /\ o \in 0..Len(res.made)
    BY <1>1
  <2>4. ShownBy(S, o)
    BY <1>5, <2>2, <2>3 DEF ShownBy
  <2> QED
    BY <1>4, <2>3, <2>4
<1>6. ASSUME NEW h \in res.held.image, res.made[h.object].kind = "template"
      PROVE  h \in res.forms
  <2>1. h.object # 0
    BY <1>1 DEF TemplatesInv, Numbered
  <2>2. h # NoTemplate
    BY <2>1 DEF NoTemplate, Null
  <2> QED
    BY <1>2, <1>6, <2>2 DEF TemplatesInv, Named
<1>7. ASSUME NEW h \in res.held.image, res.made[h.object].kind = "template"
      PROVE  h.object \in S
  <2> DEFINE Missing == {o \in Objects(res) : res.made[o].kind = "template" /\ o \notin S}
  <2>1. \A o \in Objects(res) : o \in DOMAIN res.made
    BY DEF Objects, TemplatesInv, Numbered
  <2>2. h.object \in Objects(res)
    BY DEF Objects
  <2> SUFFICES ASSUME Missing # {}
               PROVE  FALSE
    BY <1>7, <2>2
  <2>3. PICK o \in Missing : \A x \in Missing : o <= x
    <3>1. Missing \in SUBSET Nat
      BY <1>1, <2>1
    <3> HIDE DEF Missing
    <3> QED
      BY <3>1, LeastNumber
  <2>4. o \in 1..Len(res.made) /\ o \in Objects(res) /\ res.made[o].kind = "template" /\ o \notin S
    BY <1>1, <2>1
  <2>5. ASSUME NEW p \in res.placements, p.by = o
        PROVE  NamedAsMeant(p) /\ p.meant < o /\ p.meant \in S
    <3>1. p.meant \in 1..(o - 1)
      BY <2>5 DEF TemplatesInv, Numbered
    <3>2. p.meant < o /\ ~(o <= p.meant) /\ p.meant \in DOMAIN res.made
      BY <1>1, <2>4, <3>1
    <3>3. CASE res.made[p.meant].kind = "template"
      <4>1. [id |-> p.id, object |-> p.meant] \in res.held.image
        BY <2>4, <2>5, <3>3 DEF TemplatesInv, Placed
      <4>2. PICK g \in res.held.image : g = [id |-> p.id, object |-> p.meant]
        BY <4>1
      <4>3. g.object = p.meant /\ g \in res.forms
        BY <1>6, <3>3, <4>2
      <4>4. NamedAsMeant(p)
        BY <3>3, <4>2, <4>3 DEF NamedAsMeant
      <4>5. p.meant \in Objects(res)
        BY <4>3 DEF Objects
      <4>6. p.meant \in S
        BY <2>3, <3>2, <3>3, <4>5
      <4> QED
        BY <3>2, <4>4, <4>6
    <3>4. CASE res.made[p.meant].kind # "template"
      <4>1. /\ res.made[p.meant].kind = "image" /\ res.made[p.meant].named
            /\ res.made[p.meant].level = 0
        BY <2>4, <2>5, <3>4 DEF TemplatesInv, Placed
      <4>2. p.meant \in S
        BY <1>5, <3>2, <4>1
      <4> QED
        BY <3>2, <3>4, <4>1, <4>2 DEF NamedAsMeant
    <3> QED
      BY <3>3, <3>4
  <2>6. ShownBy(S, o)
    <3>1. o # 0 /\ res.made[o].kind # "image"
      BY <2>4
    <3> HIDE DEF Missing
    <3> QED
      BY <2>5, <3>1 DEF ShownBy
  <2>7. o \in 0..Len(res.made)
    BY <1>1, <2>4
  <2> QED
    BY <1>4, <2>4, <2>6, <2>7
<1> SUFFICES ASSUME NEW h \in res.held.image, res.made[h.object].level \in {0, psdoc.page}
             PROVE  h.object \in S
  <2>1. \A h \in res.held.image : h.object \in 0..Len(res.made)
    BY <1>1 DEF TemplatesInv, Numbered
  <2> QED
    BY <1>4, <1>6, <2>1
<1>8. h.object \in DOMAIN res.made /\ res.made[h.object].kind # "font"
  BY DEF TemplatesInv, Numbered
<1>9. res.made[h.object].kind \in {"image", "template"}
  <2>1. PICK o \in DOMAIN res.made : o = h.object
    BY <1>8
  <2> QED
    BY <1>0, <1>8, <2>1, MadeIs
<1> QED
  BY <1>5, <1>7, <1>8, <1>9

\* Templates refer to each other by slots that are used again, and images by
\* names that restore undoes. Still whatever the caller can place on a page,
\* and has made outside of pages or on this one, is shown as it was meant, with
\* all that it places, in turn: in a document opened once, by a caller that
\* begins no page inside a template, and that closes no template another one
\* places, places in a template only what is finished, has a name and was not
\* made on a page.
THEOREM PlacedIsAsMeant ==
  ASSUME MaxScopes >= 4, MaxOpens <= 1, "page_between" \in ClientRules,
         {"templates_kept", "ended_first", "local", "reusable"} \subseteq ResourceRules
  PROVE  RSpec => []PlacedAsMeant
<1> DEFINE Sound == /\ IInv /\ Deep(psdoc, opens) /\ (opens <= 1 => PageAgrees(psdoc))
                    /\ ResInv(res)
           Meant == TemplatesInv(res) /\ Known(res, psdoc) /\ TemplateOpen /\ Unturned
<1>1. RInit => Meant
  <2> SUFFICES ASSUME RInit
               PROVE  Meant
    OBVIOUS
  <2>1. psdoc.page = 0
    BY DEF RInit, Init, PS_new2
  <2>2. /\ res.held.image = {} /\ res.placements = {} /\ res.template = NoTemplate
        /\ res.made = <<>>
    BY DEF RInit, NewResources
  <2>3. TemplatesInv(res)
    BY <2>2 DEF TemplatesInv, Numbered, Newest, Named, Placed
  <2>4. Known(res, psdoc)
    BY <2>2 DEF Known
  <2> QED
    BY <2>1, <2>2, <2>3, <2>4 DEF TemplateOpen, Unturned
<1>2. Sound => PageAgrees(psdoc)
  BY BoundsAssumption DEF IInv, Counted
<1>3. Meant /\ Sound /\ IInv' /\ [RNext]_rvars => Meant'
  <2> SUFFICES ASSUME Meant, Sound, IInv', [RNext]_rvars
               PROVE  Meant'
    OBVIOUS
  <2>1. psdoc.page \in Nat /\ psdoc'.page \in Nat /\ res \in ResourceRecords
    BY DEF IInv, Good, PSDoc, ResInv
  <2>2. Turned(psdoc, psdoc') /\ Unturned'
    BY TurnStep
  <2>3. TemplateOpen'
    BY <1>2, TemplateOpenStep
  <2>4. TemplatesInv(res') /\ Learns(res, res', psdoc')
    BY <2>1, <2>2, PlaceableStep
  <2>5. Known(res', psdoc')
    BY <2>1, <2>2, <2>4, KnownStep
  <2> QED
    BY <2>2, <2>3, <2>4, <2>5
<1>4. Meant /\ Sound => PlacedAsMeant
  BY <1>2, ShownOnPage
<1>5. RSpec => []Sound
  <2>1. MaxScopes >= 3
    BY MaxScopesAssumption
  <2>2. Spec => [](opens <= 1 => PageAgrees(psdoc))
    BY <2>1, PagesAgree
  <2> QED
    BY <2>2, DocumentWithResources, Invariance, StackIsDeepEnough, ResourceInvariance, PTL
<1> HIDE DEF Meant
<1>6. Sound' => IInv'
  OBVIOUS
<1> HIDE DEF Sound
<1> QED
  BY <1>1, <1>3, <1>4, <1>5, <1>6, PTL DEF RSpec

=============================================================================
