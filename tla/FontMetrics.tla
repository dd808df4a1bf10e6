---------------------------- MODULE FontMetrics ----------------------------
(***************************************************************************)
(* The metrics of a font (src/ps_afm.c): read from an AFM file and changed  *)
(* by the LIGKERN commands of an encoding file or the built-in ones, or put *)
(* together glyph by glyph for a font of Type 3.                            *)
(*                                                                         *)
(* The lists ai->kerns and ai->ligs are functions here: what is added goes  *)
(* before what has the same successor, the first is the one that is found,  *)
(* and a removal removes all of them.  Kerning by 0 and no kerning are one. *)
(***************************************************************************)
EXTENDS Integers, Sequences

CONSTANTS
  Names,            \* names of glyphs
  Space,            \* "space"
  FontFiles,        \* what PS_findfont can be asked for, see FontFile
  Staticligkern,    \* the LIGKERN commands pslib has built in
  Fontencoding,     \* the names in the built-in font encoding
  Type3Width,       \* the glyphs a program defines for a Type 3 font, their widths
  Type3Kerns,       \* the pairs it adds: [first, second, kern]
  Type3Ligs,        \* and the ligatures: [first, second, sub]
  MaxAdds           \* bound: pairs and ligatures added to a font

NoGlyph == ""
Any == "*"

CharLine == [op : {"C"}, name : Names, width : Nat, ligs : [Names -> Names \cup {NoGlyph}]]
KernLine == [op : {"KPX"}, name : Names, succ : Names, kern : Int]
RemoveCommand == [op : {"{}"}, first : Names \cup {Any}, second : Names \cup {Any}]
LigCommand == [op : {"=:"}, first : Names, second : Names, sub : Names]

\* An AFM file and the encoding the font is to have: its names, and the
\* commands found along with them ("builtin" encodings have none and get none).
FontFile ==
  [afm : Seq(CharLine \cup KernLine), fixedpitch : BOOLEAN, builtin : BOOLEAN,
   fontenc : SUBSET Names, ligkern : Seq(RemoveCommand \cup LigCommand)]

ASSUME SpaceAssumption == Space \in Names /\ NoGlyph \notin Names /\ Any \notin Names
ASSUME FontFilesAssumption == FontFiles \subseteq FontFile
ASSUME StaticligkernAssumption == Staticligkern \in Seq(RemoveCommand \cup LigCommand)
ASSUME FontencodingAssumption == Fontencoding \subseteq Names
ASSUME Type3Assumption ==
  /\ DOMAIN Type3Width \subseteq Names
  /\ \A n \in DOMAIN Type3Width : Type3Width[n] \in Nat
  /\ Type3Kerns \subseteq [first : Names, second : Names, kern : Int]
  /\ Type3Ligs \subseteq [first : Names, second : Names, sub : Names]
ASSUME MaxAddsAssumption == MaxAdds \in Nat

VARIABLES
  font,      \* the ADOBEFONTMETRIC
  reading    \* how far the font is, and the lines and commands still to be read

fvars == <<font, reading>>

\* gadobechars, and of each of its glyphs the width and the two lists; the
\* names in the font encoding.
Metric ==
  [glyphs : SUBSET Names, width : [Names -> Nat], kern : [Names \X Names -> Int],
   lig : [Names \X Names -> Names \cup {NoGlyph}], fontenc : SUBSET Names]

EmptyMetric ==
  [glyphs |-> {}, width |-> [n \in Names |-> 0], kern |-> [p \in Names \X Names |-> 0],
   lig |-> [p \in Names \X Names |-> NoGlyph], fontenc |-> {}]

\* Type invariant.
FTypeOK ==
  /\ font \in Metric
  /\ reading \in [stage : {"none", "file", "type3", "ready"}, adds : Nat,
                  afm : Seq(CharLine \cup KernLine), fixedpitch : BOOLEAN,
                  ligkern : Seq(RemoveCommand \cup LigCommand)]

NotReading == [stage |-> "none", afm |-> <<>>, fixedpitch |-> FALSE, ligkern |-> <<>>,
               adds |-> 0]

----------------------------------------------------------------------------
(* Looking things up.                                                      *)

\* calculatekern: nothing beside a glyph that is missing.
calculatekern(ai, succ) ==
  IF ai = NoGlyph \/ succ = NoGlyph THEN 0 ELSE font.kern[<<ai, succ>>]

gfindadobe(name) == IF name \in font.glyphs THEN name ELSE NoGlyph

HasLigs(ai) == \E succ \in Names : font.lig[<<ai, succ>>] # NoGlyph

\* What ps_check_for_lig hands back when it returns 1.
LigFound == [name : Names, offset : Nat]
NoLig == [name |-> NoGlyph, offset |-> 0]

\* Mutant: the list of ai is not gone through from its beginning again.
TwoOnce(ai, next, later) == IF later # NoLig THEN NoGlyph ELSE font.lig[<<ai, next>>]

\* The ligature of ai and the next glyph, looked for when that of ai and the
\* ligature that follows is not there.
Two(ai, next, later) == font.lig[<<ai, next>>]

\* Mutant: what the ligature that follows stands for is not skipped.
ConsumedOne(later) == 1

\* The characters behind ai that a ligature with later stands for.
Consumed(later) == 1 + later.offset

\* ps_check_for_lig, of the glyph ai and the names rest of the characters
\* behind it; brk[k] tells whether character k is the one that breaks
\* ligatures.  In order: a break; ai and the ligature of what follows; the
\* ligature of ai and the next, on which others may build.
ps_check_for_lig(ai, rest, brk) ==
  LET lig[s \in (1..Len(rest) + 1) \X Names] ==
        LET k == s[1]
            g == s[2]
            next == gfindadobe(rest[k])
            later == lig[<<k + 1, next>>]
            two == Two(g, next, later)
            more == lig[<<k + 1, two>>]
        IN  IF ~HasLigs(g) \/ k > Len(rest) THEN NoLig
            ELSE IF brk[k] THEN [name |-> g, offset |-> 1]
            ELSE IF next = NoGlyph THEN NoLig
            ELSE IF later # NoLig /\ font.lig[<<g, later.name>>] # NoGlyph
                 THEN [name |-> font.lig[<<g, later.name>>], offset |-> Consumed(later)]
            ELSE IF two = NoGlyph THEN NoLig
            ELSE IF two \in font.glyphs /\ more # NoLig
                 THEN [name |-> more.name, offset |-> Consumed(more)]
            ELSE [name |-> two, offset |-> 1]
  IN  lig[<<1, ai>>]

----------------------------------------------------------------------------
(* Reading a font.                                                         *)

Removes(cmds) == \E k \in DOMAIN cmds :
  cmds[k].op = "{}" /\ cmds[k].first = Any /\ cmds[k].second = Space

\* The commands a font gets: those of its encoding file if there are any.
Ligkern(file) ==
  IF file.builtin THEN <<>>
  ELSE IF file.ligkern # <<>> THEN file.ligkern ELSE Staticligkern

\* Nothing is kerned with the blank behind it, or it is undone.
Unkerned(file) ==
  \/ Removes(Ligkern(file))
  \/ \A k \in DOMAIN file.afm : file.afm[k].op = "KPX" => file.afm[k].succ # Space

\* The program sees to it.
ASSUME UnkernedAssumption ==
  /\ \A file \in FontFiles : Unkerned(file)
  /\ \A k \in Type3Kerns : k.second # Space

Reading(stage) == reading.stage = stage

\* readadobe begins with a metric without glyphs; the names of the encoding are
\* put in at once, though they are read behind the commands.
PS_findfont(file) ==
  /\ Reading("none")
  /\ font' = [EmptyMetric EXCEPT !.fontenc = file.fontenc]
  /\ reading' = [stage |-> "file", afm |-> file.afm, fixedpitch |-> file.fixedpitch,
                 ligkern |-> Ligkern(file), adds |-> 0]

NextLine == reading' = [reading EXCEPT !.afm = Tail(@)]

\* A second glyph of the same name is dropped; fonts of fixed pitch get no
\* ligatures.
handlechar ==
  /\ Reading("file") /\ reading.afm # <<>>
  /\ LET l == Head(reading.afm)
     IN  /\ l.op = "C"
         /\ font' = IF l.name \in font.glyphs THEN font
                    ELSE [font EXCEPT
                            !.glyphs = @ \cup {l.name},
                            !.width[l.name] = l.width,
                            !.lig = [p \in Names \X Names |->
                              IF p[1] = l.name /\ ~reading.fixedpitch THEN l.ligs[p[2]]
                              ELSE font.lig[p]]]
  /\ NextLine

handlekern ==
  /\ Reading("file") /\ reading.afm # <<>>
  /\ LET l == Head(reading.afm)
     IN  /\ l.op = "KPX"
         /\ font' = IF l.name \in font.glyphs
                    THEN [font EXCEPT !.kern[<<l.name, l.succ>>] = l.kern] ELSE font
  /\ NextLine

NextCommand == reading' = [reading EXCEPT !.ligkern = Tail(@)]

\* Mutant: only what is given by its name is removed.
MatchesByName(pattern, name) == pattern = name

Matches(pattern, name) == pattern \in {Any, name}

rmkern ==
  /\ Reading("file") /\ reading.afm = <<>> /\ reading.ligkern # <<>>
  /\ LET c == Head(reading.ligkern)
     IN  /\ c.op = "{}"
         /\ font' = [font EXCEPT !.kern = [p \in Names \X Names |->
              IF Matches(c.first, p[1]) /\ Matches(c.second, p[2]) THEN 0 ELSE font.kern[p]]]
  /\ NextCommand

\* checkligkern, "=:": the kerning of the pair stays, since it is the name "=:"
\* that is looked for among the glyphs.
ligcommand ==
  /\ Reading("file") /\ reading.afm = <<>> /\ reading.ligkern # <<>>
  /\ LET c == Head(reading.ligkern)
     IN  /\ c.op = "=:"
         /\ font' = IF c.first \in font.glyphs /\ ~reading.fixedpitch
                    THEN [font EXCEPT !.lig[<<c.first, c.second>>] = c.sub] ELSE font
  /\ NextCommand

Registered ==
  /\ Reading("file") /\ reading.afm = <<>> /\ reading.ligkern = <<>>
  /\ reading' = [reading EXCEPT !.stage = "ready"]
  /\ UNCHANGED font

----------------------------------------------------------------------------
(* Type 3 fonts.  The built-in commands are read before there is a glyph,   *)
(* and so have no effect.                                                  *)

PS_begin_font ==
  /\ Reading("none")
  /\ font' = [EmptyMetric EXCEPT !.fontenc = Fontencoding]
  /\ reading' = [NotReading EXCEPT !.stage = "type3"]

PS_begin_glyph(name) ==
  /\ Reading("type3")
  /\ name \notin font.glyphs
  /\ font' = [font EXCEPT !.glyphs = @ \cup {name}, !.width[name] = Type3Width[name]]
  /\ UNCHANGED reading

PS_end_font ==
  /\ Reading("type3")
  /\ reading' = [reading EXCEPT !.stage = "ready"]
  /\ UNCHANGED font

\* Also of a font loaded before, while another is being defined.
Adding ==
  /\ Reading("type3") \/ Reading("ready")
  /\ reading.adds < MaxAdds
  /\ reading' = [reading EXCEPT !.adds = @ + 1]

\* An error is reported if the pair is kerned already, and it is added all the
\* same.
PS_add_kerning(k) ==
  /\ Adding
  /\ k.first \in font.glyphs /\ k.second \in font.glyphs
  /\ font' = [font EXCEPT !.kern[<<k.first, k.second>>] = k.kern]

PS_add_ligature(l) ==
  /\ Adding
  /\ {l.first, l.second, l.sub} \subseteq font.glyphs
  /\ font' = [font EXCEPT !.lig[<<l.first, l.second>>] = l.sub]

FileNext ==
  \/ \E file \in FontFiles : PS_findfont(file)
  \/ handlechar \/ handlekern \/ rmkern \/ ligcommand \/ Registered

Type3Next ==
  \/ PS_begin_font \/ PS_end_font
  \/ \E name \in DOMAIN Type3Width : PS_begin_glyph(name)
  \/ \E k \in Type3Kerns : PS_add_kerning(k)
  \/ \E l \in Type3Ligs : PS_add_ligature(l)
=============================================================================
