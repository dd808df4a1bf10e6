-------------------------- MODULE ShowBoxed_proofs --------------------------
(***************************************************************************)
(* Proofs about ShowBoxed, for all texts, boxes, letters and hyphenations: *)
(* lines fit, the blanks of a justified line are those that are shown,     *)
(* hyphens are put within words, and nothing of a text is lost.  The       *)
(* invariant follows the line that is being collected through its words:   *)
(* what its width and its blanks are, and where the word is that did not   *)
(* fit any more.                                                           *)
(***************************************************************************)
EXTENDS ShowBoxed, SequenceTheorems, FiniteSetTheorems,
        NaturalsInduction, TLAPS

Char == (UNION {ToSet(t) : t \in Texts}) \cup {Space}

\* The delimiters that are shown at the end of a line.
Visible == {Dash, Cr, SoftHyphen}

LEMMA CharactersDiffer ==
  /\ Space # Dash /\ Space # Newline /\ Space # Nul /\ Dash # Newline /\ Dash # Nul /\ Newline # Nul
  /\ Cr # Space /\ Cr # Dash /\ Cr # Newline /\ Cr # Nul /\ Cr # SoftHyphen
  /\ SoftHyphen # Space /\ SoftHyphen # Dash /\ SoftHyphen # Newline /\ SoftHyphen # Nul
  BY Zenon DEF Space, Dash, Newline, Cr, SoftHyphen, Nul

\* A delimiter that has been read, and what is known of those that are shown.
LEMMA DelimitersAre ==
  /\ \A c \in Delimiters : c = Newline \/ c \in Visible \cup {Space, Nul}
  /\ \A c \in Visible : c \in Delimiters /\ c # Space /\ c # Newline /\ c # Nul
  BY CharactersDiffer DEF Delimiters, Visible

LEMMA CharNotNul == Nul \notin Char
  BY TextsAssumption, CharactersDiffer DEF Char

LEMMA TextOfChar ==
  ASSUME NEW t \in Texts
  PROVE  t \in Seq(Char)
<1>1. t \in Seq(ToSet(t)) /\ ToSet(t) \subseteq Char
  BY TextsAssumption DEF Char
<1> QED
  BY <1>1, SeqMonotonic

----------------------------------------------------------------------------
(* Numbers, and parts of strings.                                          *)

\* A set of natural numbers that is not empty has a least one.
LEMMA LeastNumber ==
  ASSUME NEW T \in SUBSET Nat, T # {}
  PROVE  \E x \in T : \A y \in T : x <= y
<1> DEFINE R == OpToRel(<, Nat)
<1>1. PICK x \in T : \A y \in T : <<y, x>> \notin R
  BY NatLessThanWellFounded, WFMin
<1>2. \A y \in T : ~(y < x)
  BY <1>1 DEF OpToRel
<1> QED
  BY <1>2

\* A set of numbers below a bound that is not empty has a greatest one.
LEMMA GreatestNumber ==
  ASSUME NEW bound \in Int, NEW T \in SUBSET Int, T # {}, \A x \in T : x <= bound
  PROVE  \E x \in T : \A y \in T : y <= x
<1> DEFINE U == {n \in Nat : bound - n \in T}
<1>1. U \in SUBSET Nat /\ U # {}
  <2>1. PICK x \in T : TRUE
    OBVIOUS
  <2>2. bound - x \in Nat /\ bound - (bound - x) = x
    BY <2>1
  <2>3. bound - x \in U
    BY <2>1, <2>2
  <2> QED
    BY <2>3
<1>2. PICK n \in U : \A m \in U : n <= m
  <2> HIDE DEF U
  <2> QED
    BY <1>1, LeastNumber
<1>3. ASSUME NEW y \in T PROVE y <= bound - n
  <2>1. bound - y \in Nat /\ bound - (bound - y) = y
    BY <1>3
  <2>2. n \in Nat /\ n <= bound - y
    BY <1>2, <2>1
  <2> QED
    BY <2>1, <2>2
<1> QED
  BY <1>2, <1>3

\* What strncpy copies: n characters from index k on, or those there are.
LEMMA FromIs ==
  ASSUME NEW S, NEW s \in Seq(S), NEW k \in Nat, NEW n \in Int, k <= Len(s)
  PROVE  /\ From(s, k, n) \in Seq(S)
         /\ n <= 0 => Len(From(s, k, n)) = 0
         /\ n >= 0 /\ k + n <= Len(s) => Len(From(s, k, n)) = n
         /\ k + n > Len(s) => Len(From(s, k, n)) = Len(s) - k
         /\ \A j \in 1..Len(From(s, k, n)) : From(s, k, n)[j] = s[k + j]
<1> DEFINE e == IF k + n < Len(s) THEN k + n ELSE Len(s)
<1>1. e \in Int /\ e <= Len(s) /\ From(s, k, n) = SubSeq(s, k + 1, e)
  BY DEF From
<1>2. CASE e <= k
  <2>1. SubSeq(s, k + 1, e) = <<>>
    BY <1>1, <1>2, SubSeqEmpty
  <2> QED
    BY <1>1, <1>2, <2>1
<1>3. CASE e > k
  <2> HIDE DEF e
  <2>1. /\ SubSeq(s, k + 1, e) \in Seq(S)
        /\ Len(SubSeq(s, k + 1, e)) = e - k
        /\ \A j \in 1..e - k : SubSeq(s, k + 1, e)[j] = s[k + j]
    <3>1. /\ k + 1 \in 1..Len(s) + 1 /\ e \in (k + 1) - 1..Len(s)
          /\ (e - (k + 1)) + 1 = e - k
      BY <1>1, <1>3
    <3>2. \A j \in 1..e - k : ((k + 1) + j) - 1 = k + j
      OBVIOUS
    <3> QED
      BY <3>1, <3>2, SubSeqProperties
  <2> QED
    BY <1>1, <1>3, <2>1 DEF e
<1> QED
  BY <1>1, <1>2, <1>3

----------------------------------------------------------------------------
(* The text of a call.                                                     *)

LEMMA AtIs ==
  ASSUME textcopy \in Seq(Char), NEW k \in Nat
  PROVE  /\ At(k) \in Char \cup {Nul}
         /\ At(k) = Nul <=> k >= Len(textcopy)
         /\ k < Len(textcopy) => At(k) = textcopy[k + 1]
<1>1. k < Len(textcopy) => k + 1 \in 1..Len(textcopy)
  OBVIOUS
<1>2. k < Len(textcopy) => textcopy[k + 1] \in Char
  BY <1>1, ElementOfSeq
<1>3. Len(textcopy) \in Nat
  BY LenProperties
<1> QED
  BY <1>2, <1>3, CharNotNul DEF At

\* A word ends at the first delimiter, which is Nul at the latest.
LEMMA WordEnds ==
  ASSUME textcopy \in Seq(Char), NEW k \in Nat, k <= Len(textcopy)
  PROVE  /\ WordEnd(k) \in k..Len(textcopy)
         /\ At(WordEnd(k)) \in Delimiters
         /\ \A j \in k..WordEnd(k) - 1 : At(j) \notin Delimiters
<1> DEFINE ends == {e \in k..Len(textcopy) : At(e) \in Delimiters}
<1>1. ends \in SUBSET Nat /\ Len(textcopy) \in ends
  <2>1. Len(textcopy) \in Nat
    BY LenProperties
  <2>2. At(Len(textcopy)) = Nul
    BY <2>1, AtIs
  <2>3. Len(textcopy) \in k..Len(textcopy) /\ Nul \in Delimiters
    BY <2>1 DEF Delimiters
  <2>4. \A e \in k..Len(textcopy) : e \in Nat
    BY <2>1
  <2> QED
    BY <2>2, <2>3, <2>4, Zenon
<1>2. PICK e \in ends : \A f \in ends : e <= f
  <2> HIDE DEF ends
  <2> QED
    BY <1>1, LeastNumber
<1>3. /\ e \in k..Len(textcopy) /\ At(e) \in Delimiters
      /\ \A j \in k..e - 1 : At(j) \notin Delimiters
  <2>1. ASSUME NEW j \in k..e - 1, At(j) \in Delimiters PROVE FALSE
    BY <1>2, <2>1
  <2> QED
    BY <1>2, <2>1
<1> QED
  BY <1>3 DEF WordEnd

LEMMA LeadingIs ==
  ASSUME NEW w \in Seq(Char)
  PROVE  Leading(w) \in 0..Len(w)
<1> DEFINE ends == {k \in 0..Len(w) : k < Len(w) => w[k + 1] \in Letters}
<1>1. ends \in SUBSET Nat /\ Len(w) \in ends
  OBVIOUS
<1>2. PICK k \in ends : \A l \in ends : k <= l
  <2> HIDE DEF ends
  <2> QED
    BY <1>1, LeastNumber
<1>3. \A j \in 1..k : w[j] \notin Letters
  <2>1. ASSUME NEW j \in 1..k, w[j] \in Letters PROVE FALSE
    <3>1. k \in 0..Len(w)
      BY <1>2
    <3>2. j - 1 \in 0..Len(w) /\ (j - 1) + 1 = j /\ j - 1 < k
      BY <2>1, <3>1
    <3>3. j - 1 \in ends
      BY <2>1, <3>2
    <3> HIDE DEF ends
    <3>4. k <= j - 1
      BY <1>2, <3>3
    <3> QED
      BY <3>1, <3>2, <3>4
  <2> QED
    BY <2>1
<1> QED
  BY <1>2, <1>3 DEF Leading

\* A word that is broken is longer than twice hyphenminchars, and as many
\* characters are left on either side; the part of it that is shown fits, the
\* delimiter before it and the hyphen included.
LEMMA LastHyphenIs ==
  ASSUME Hyphenword \in Seq(Char), LastHyphen # 0
  PROVE  /\ LastHyphen \in MinChars..Len(Hyphenword) - MinChars
         /\ Len(Hyphenword) > 2 * MinChars
         /\ \E lead, i \in Nat :
              /\ LastHyphen = lead + i + 1
              /\ HyphenWidth(lead, i) < Linewidth - line.oldhlen
<1> DEFINE lead == Leading(Hyphenword)
           n == Len(Hyphenword) - lead
           fit == {i \in MinChars - 1..n - MinChars - 1 :
                     i \in Break(SubSeq(Hyphenword, lead + 1, Len(Hyphenword)))
                       /\ HyphenWidth(lead, i) < Linewidth - line.oldhlen}
           last == CHOOSE i \in fit : \A j \in fit : j <= i
<1>1. lead \in 0..Len(Hyphenword) /\ n \in Nat /\ MinChars \in Nat \ {0}
  BY LeadingIs, MinCharsAssumption
<1>2. n > 2 * MinChars /\ fit # {} /\ LastHyphen = lead + 1 + last
  <2>1. LastHyphen = IF n <= 2 * MinChars \/ fit = {} THEN 0 ELSE lead + 1 + last
    BY DEF LastHyphen
  <2> HIDE DEF n, fit, lead, last
  <2> QED
    BY <1>1, <2>1
<1>3. last \in fit
  <2>1. fit \in SUBSET Int /\ \A i \in fit : i <= n - MinChars - 1
    BY <1>1
  <2>2. n - MinChars - 1 \in Int
    BY <1>1
  <2> HIDE DEF fit
  <2>3. PICK bound \in Int : \A i \in fit : i <= bound
    BY <2>1, <2>2
  <2>4. \E i \in fit : \A j \in fit : j <= i
    BY <1>2, <2>1, <2>3, GreatestNumber
  <2> QED
    BY <2>4
<1>4. /\ last \in MinChars - 1..n - MinChars - 1
      /\ HyphenWidth(lead, last) < Linewidth - line.oldhlen
  BY <1>3
<1> HIDE DEF last, lead
<1>5. last \in Nat /\ lead \in Nat /\ LastHyphen = lead + last + 1
  BY <1>1, <1>2, <1>4
<1>6. LastHyphen \in MinChars..Len(Hyphenword) - MinChars /\ Len(Hyphenword) > 2 * MinChars
  BY <1>1, <1>2, <1>4
<1> QED
  BY <1>4, <1>5, <1>6

----------------------------------------------------------------------------
(* The invariant.                                                          *)

ShownLine ==
  [chars : Seq(Char), hyphen : BOOLEAN, spaces : Int, stretched : BOOLEAN,
   linewidth : Int, next : Char \cup {Nul}]

Typed ==
  /\ box \in Box
  /\ all \in Seq(Char) /\ textcopy \in Seq(Char) /\ Len(textcopy) <= Len(all)
  /\ at \in [curpos : Nat, lastbreak : Nat, lastdelim : Nat]
  /\ line \in [hlen : Nat, oldhlen : Nat, spaces : Nat, firstword : BOOLEAN,
               lineend : BOOLEAN, parend : BOOLEAN, prevchar : Char \cup {Nul}]
  /\ par \in [parlinecounter : Nat, parcounter : Nat]
  /\ ypos \in Int /\ out \in Seq(ShownLine) /\ ret \in Nat
  /\ pc \in {"idle", "outer", "inner", "returned", "crashed"}

\* The position is the beginning of a line, behind the last delimiter.
AtLineStart ==
  /\ at.curpos = at.lastbreak
  /\ at.lastdelim <= at.lastbreak /\ at.lastbreak <= at.lastdelim + 1

BetweenLines ==
  /\ at.curpos <= Len(textcopy)
  /\ at.curpos < Len(textcopy) => AtLineStart

\* The blanks from index b up to d.
Blanks(b, d) == Cardinality({k \in b..d : At(k) = Space})

\* The width of what lies there.
GlyphsIn(b, d) == Cardinality({k \in b..d : At(k) # Cr})

\* The width of the line up to the last delimiter.
WidthTaken(parend) ==
  StringWidth(at.lastbreak, at.lastdelim - at.lastbreak + Morechars(parend, At(at.lastdelim)))

\* Nothing has been collected yet.
Nothing ==
  /\ line.firstword /\ line.spaces = 0 /\ line.hlen = 0
  /\ ~line.lineend /\ ~line.parend
  /\ at.curpos < Len(textcopy) /\ AtLineStart

\* What is known of the words that are on the line.
Taken ==
  /\ ~line.firstword
  /\ at.lastbreak <= at.lastdelim /\ at.lastdelim <= Len(textcopy)
  /\ At(at.lastdelim) \in Visible \cup {Space, Nul}
  /\ line.spaces = Blanks(at.lastbreak, at.lastdelim)

\* The last word was taken; it fits, or is the only one.
WordTaken ==
  /\ Taken
  /\ at.curpos = IF At(at.lastdelim) = Nul THEN at.lastdelim ELSE at.lastdelim + 1
  /\ line.hlen = WidthTaken(line.parend)
  /\ \/ line.hlen < Linewidth
     \/ \A k \in at.lastbreak..at.lastdelim - 1 : At(k) \notin Delimiters

\* The last word did not fit: it lies between the last delimiter and the
\* position.
WordLeft ==
  /\ Taken
  /\ at.lastdelim < at.curpos /\ at.curpos <= Len(textcopy)
  /\ At(at.curpos) \in Delimiters
  /\ \A k \in at.lastdelim + 1..at.curpos - 1 : At(k) \notin Delimiters
  /\ line.oldhlen = WidthTaken(FALSE) /\ line.oldhlen < Linewidth
  /\ line.hlen >= Linewidth

LineInv ==
  /\ Typed
  /\ pc = "outer" => BetweenLines
  /\ pc = "inner" => Nothing \/ WordTaken \/ WordLeft
  /\ pc = "returned" => ret <= Len(all)

----------------------------------------------------------------------------
(* Words on a line.                                                        *)

\* The same of any string, so that it can be said of the next one as well.
WidthIn(s, k, n) == Glyphs(From(s, k, IF n < 0 THEN Len(s) ELSE n))

LEMMA GlyphsAre ==
  ASSUME NEW s \in Seq(Char)
  PROVE  Glyphs(s) \in Nat
<1> DEFINE S == {k \in DOMAIN s : s[k] # Cr}
<1>1. IsFiniteSet(DOMAIN s)
  <2>1. DOMAIN s = 1..Len(s) /\ Len(s) \in Nat
    BY LenProperties
  <2> QED
    BY <2>1, FS_Interval
<1>2. IsFiniteSet(S)
  BY <1>1, FS_Subset
<1> QED
  BY <1>2, FS_CardinalityType DEF Glyphs

\* Two strings that differ in glyphs only are of the same width.
LEMMA SameGlyphs ==
  ASSUME NEW s \in Seq(Char), NEW t \in Seq(Char), Len(s) = Len(t),
         \A j \in 1..Len(s) : s[j] = Cr <=> t[j] = Cr,
         NEW k \in Nat, k <= Len(s), NEW n \in Int
  PROVE  Glyphs(From(s, k, n)) = Glyphs(From(t, k, n))
<1> DEFINE u == From(s, k, n)
           v == From(t, k, n)
<1>1. PICK m \in Nat : m = Len(s) /\ m = Len(t) /\ k <= m
  BY LenProperties
<1>2. /\ u \in Seq(Char)
      /\ n <= 0 => Len(u) = 0
      /\ n >= 0 /\ k + n <= m => Len(u) = n
      /\ k + n > m => Len(u) = m - k
      /\ \A j \in 1..Len(u) : u[j] = s[k + j]
  <2>1. k <= Len(s)
    BY <1>1
  <2>2. /\ u \in Seq(Char)
        /\ n <= 0 => Len(u) = 0
        /\ n >= 0 /\ k + n <= Len(s) => Len(u) = n
        /\ k + n > Len(s) => Len(u) = Len(s) - k
        /\ \A j \in 1..Len(u) : u[j] = s[k + j]
    BY <2>1, FromIs, Zenon
  <2> HIDE DEF u, v
  <2> QED
    BY <1>1, <2>2
<1>3. /\ v \in Seq(Char)
      /\ n <= 0 => Len(v) = 0
      /\ n >= 0 /\ k + n <= m => Len(v) = n
      /\ k + n > m => Len(v) = m - k
      /\ \A j \in 1..Len(v) : v[j] = t[k + j]
  <2>1. k <= Len(t)
    BY <1>1
  <2>2. /\ v \in Seq(Char)
        /\ n <= 0 => Len(v) = 0
        /\ n >= 0 /\ k + n <= Len(t) => Len(v) = n
        /\ k + n > Len(t) => Len(v) = Len(t) - k
        /\ \A j \in 1..Len(v) : v[j] = t[k + j]
    BY <2>1, FromIs, Zenon
  <2> HIDE DEF u, v
  <2> QED
    BY <1>1, <2>2
<1> HIDE DEF u, v
<1>4. PICK l \in Nat : l = Len(u) /\ l = Len(v) /\ k + l <= m
  <2>1. PICK l \in Nat, h \in Nat : l = Len(u) /\ h = Len(v)
    BY <1>2, <1>3, LenProperties
  <2> QED
    BY <1>1, <1>2, <1>3, <2>1
<1>5. DOMAIN u = 1..l /\ DOMAIN v = 1..l
  BY <1>2, <1>3, <1>4, LenProperties
<1>6. ASSUME NEW j \in 1..l PROVE u[j] # Cr <=> v[j] # Cr
  <2>1. k + j \in 1..m
    BY <1>4
  <2> QED
    BY <1>1, <1>2, <1>3, <1>4, <2>1
<1>7. {j \in DOMAIN u : u[j] # Cr} = {j \in DOMAIN v : v[j] # Cr}
  BY <1>5, <1>6
<1> QED
  BY <1>7 DEF Glyphs, u, v

LEMMA StringWidthIs ==
  ASSUME textcopy \in Seq(Char), NEW k \in Nat, NEW n \in Int, k <= Len(textcopy)
  PROVE  StringWidth(k, n) \in Nat /\ StringWidth(k, n) = WidthIn(textcopy, k, n)
<1>1. PICK m \in Int : m = IF n < 0 THEN Len(textcopy) ELSE n
  <2>1. Len(textcopy) \in Nat
    BY LenProperties
  <2> QED
    BY <2>1
<1>2. From(textcopy, k, m) \in Seq(Char)
  BY FromIs
<1>3. StringWidth(k, n) = Glyphs(From(textcopy, k, m))
  BY <1>1 DEF StringWidth
<1>4. WidthIn(textcopy, k, n) = Glyphs(From(textcopy, k, m))
  BY <1>1 DEF WidthIn
<1> QED
  BY <1>2, <1>3, <1>4, GlyphsAre

LEMMA LinewidthIs ==
  ASSUME Typed
  PROVE  Linewidth \in Int
<1>1. box.width \in Nat /\ box.parindent \in Nat
  BY DEF Typed, Box
<1> QED
  BY <1>1 DEF Linewidth

\* While words are collected, the blanks counted lie before the position.
LEMMA Collects ==
  ASSUME Typed, Nothing \/ WordTaken, Collecting
  PROVE  /\ at.curpos < Len(textcopy) /\ at.lastbreak <= at.curpos
         /\ line.spaces = Blanks(at.lastbreak, at.curpos - 1)
         /\ ~line.lineend /\ ~line.parend /\ line.hlen < Linewidth
         /\ line.firstword => at.curpos = at.lastbreak
         /\ ~line.firstword =>
              /\ WordTaken /\ at.curpos = at.lastdelim + 1
              /\ At(at.lastdelim) \in Visible \cup {Space}
<1> DEFINE b == at.lastbreak
           p == at.curpos
<1>1. /\ b \in Nat /\ p \in Nat /\ at.lastdelim \in Nat /\ Len(textcopy) \in Nat
      /\ textcopy \in Seq(Char)
  BY LenProperties DEF Typed
<1>2. p < Len(textcopy) /\ ~line.lineend /\ ~line.parend /\ line.hlen < Linewidth
  BY <1>1, AtIs DEF Collecting
<1>3. CASE Nothing
  <2>1. b = p /\ b..p - 1 = {}
    BY <1>1, <1>3 DEF Nothing, AtLineStart
  <2>2. Blanks(b, p - 1) = 0
    <3>1. {k \in {} : At(k) = Space} = {}
      OBVIOUS
    <3> QED
      BY <2>1, <3>1, FS_EmptySet, Zenon DEF Blanks
  <2> QED
    BY <1>1, <1>2, <1>3, <2>2 DEF Nothing, AtLineStart
<1>4. CASE WordTaken
  <2>1. At(at.lastdelim) # Nul
    BY <1>1, <1>2, <1>4, AtIs DEF WordTaken
  <2>2. p = at.lastdelim + 1 /\ p - 1 = at.lastdelim
    BY <1>1, <1>4, <2>1 DEF WordTaken
  <2> QED
    BY <1>1, <1>2, <1>4, <2>1, <2>2 DEF WordTaken, Taken
<1> QED
  BY <1>3, <1>4

\* What a round of the inner loop knows of its word.
LEMMA NextWordIs ==
  ASSUME Typed, Nothing \/ WordTaken, NextWord
  PROVE  LET e == WordEnd(at.curpos)
             c == At(e)
             prev == IF e > at.curpos THEN At(e - 1) ELSE line.prevchar
             parend == Treatcraspar /\ prev = Newline /\ c = Newline
             hlen == StringWidth(at.lastbreak, e - at.lastbreak + Morechars(parend, c))
         IN  /\ e \in at.curpos..Len(textcopy) /\ c \in Delimiters
             /\ \A j \in at.curpos..e - 1 : At(j) \notin Delimiters
             /\ c = Nul <=> e = Len(textcopy)
             /\ prev \in Char \cup {Nul} /\ hlen \in Nat
             /\ hlen = WidthIn(textcopy, at.lastbreak,
                               e - at.lastbreak + Morechars(parend, c))
<1> DEFINE e == WordEnd(at.curpos)
           c == At(e)
           prev == IF e > at.curpos THEN At(e - 1) ELSE line.prevchar
           parend == Treatcraspar /\ prev = Newline /\ c = Newline
           n == e - at.lastbreak + Morechars(parend, c)
<1>1. /\ textcopy \in Seq(Char) /\ at.curpos \in Nat /\ at.lastbreak \in Nat
      /\ line.prevchar \in Char \cup {Nul} /\ Len(textcopy) \in Nat
  BY LenProperties DEF Typed
<1>2. at.curpos < Len(textcopy) /\ at.lastbreak <= at.curpos
  BY Collects DEF NextWord
<1>3. /\ e \in at.curpos..Len(textcopy) /\ c \in Delimiters
      /\ \A j \in at.curpos..e - 1 : At(j) \notin Delimiters
  BY <1>1, <1>2, WordEnds
<1> HIDE DEF e
<1>4. e \in Nat /\ (c = Nul <=> e = Len(textcopy))
  BY <1>1, <1>3, AtIs
<1>5. prev \in Char \cup {Nul}
  <2>1. CASE e > at.curpos
    <3>1. e - 1 \in Nat
      BY <1>1, <1>4, <2>1
    <3> QED
      BY <1>1, <2>1, <3>1, AtIs
  <2> QED
    BY <1>1, <2>1
<1>6. n \in Int
  BY <1>1, <1>4 DEF Morechars
<1> HIDE DEF n
<1>7. StringWidth(at.lastbreak, n) \in Nat
      /\ StringWidth(at.lastbreak, n) = WidthIn(textcopy, at.lastbreak, n)
  <2>1. at.lastbreak <= Len(textcopy)
    BY <1>1, <1>2
  <2> QED
    BY <1>1, <1>6, <2>1, StringWidthIs
<1> QED
  BY <1>3, <1>4, <1>5, <1>7 DEF n, e

Blank == {Space, Newline}

\* Two characters that look alike: PS_show_boxed writes a blank over the end
\* of a line.
Alike(c, d) == c = d \/ (c \in Blank /\ d \in Blank)

\* A word is taken: the end of a line becomes a blank.
LEMMA CopyChanges ==
  ASSUME textcopy \in Seq(Char), NEW e \in Nat, e <= Len(textcopy),
         textcopy' = IF At(e) = Newline THEN [textcopy EXCEPT ![e + 1] = Space] ELSE textcopy
  PROVE  /\ textcopy' \in Seq(Char) /\ Len(textcopy') = Len(textcopy)
         /\ \A k \in Nat : At(k)' = IF k = e /\ At(e) = Newline THEN Space ELSE At(k)
         /\ \A k \in 1..Len(textcopy) : Alike(textcopy'[k], textcopy[k])
<1>1. Len(textcopy) \in Nat /\ (At(e) = Nul <=> e >= Len(textcopy))
  BY LenProperties, AtIs
<1>2. CASE At(e) = Newline
  <2>1. e + 1 \in 1..Len(textcopy) /\ e < Len(textcopy) /\ Space \in Char
    BY <1>1, <1>2, CharactersDiffer DEF Char
  <2>2. /\ textcopy' \in Seq(Char) /\ Len(textcopy') = Len(textcopy)
        /\ \A i \in 1..Len(textcopy) :
             textcopy'[i] = IF i = e + 1 THEN Space ELSE textcopy[i]
    BY <1>2, <2>1, ExceptSeq
  <2>3. ASSUME NEW k \in Nat PROVE At(k)' = IF k = e THEN Space ELSE At(k)
    <3>1. At(k)' = IF k < Len(textcopy) THEN textcopy'[k + 1] ELSE Nul
      BY <2>2 DEF At
    <3>2. k < Len(textcopy) => k + 1 \in 1..Len(textcopy) /\ (k + 1 = e + 1 <=> k = e)
      BY <1>1
    <3> QED
      BY <2>1, <2>2, <3>1, <3>2 DEF At
  <2>4. textcopy[e + 1] = Newline
    BY <1>2, <2>1 DEF At
  <2>5. ASSUME NEW k \in 1..Len(textcopy) PROVE Alike(textcopy'[k], textcopy[k])
    BY <2>2, <2>4 DEF Alike, Blank
  <2> QED
    BY <1>2, <2>2, <2>3, <2>5
<1>3. CASE At(e) # Newline
  BY <1>3 DEF At, Alike
<1> QED
  BY <1>2, <1>3

\* A word that fits is added to the line.
LEMMA WordIsTaken ==
  ASSUME Typed, Nothing \/ WordTaken, NextWord,
         NEW e \in Nat, NEW parend \in BOOLEAN, NEW hlen \in Nat, NEW prev,
         at.curpos <= e, e <= Len(textcopy), At(e) \in Delimiters,
         \A j \in at.curpos..e - 1 : At(j) \notin Delimiters,
         parend => At(e) = Newline,
         hlen = WidthIn(textcopy, at.lastbreak, e - at.lastbreak + Morechars(parend, At(e))),
         Fits(hlen),
         line' = [line EXCEPT !.lineend = box.linebreak /\ At(e) = Newline, !.parend = parend,
                              !.oldhlen = line.hlen, !.hlen = hlen,
                              !.prevchar = At(e), !.firstword = FALSE,
                              !.spaces = IF At(e) \in {Space, Newline} THEN @ + 1 ELSE @],
         at' = [at EXCEPT !.lastdelim = e, !.curpos = IF At(e) = Nul THEN e ELSE e + 1],
         textcopy' = IF At(e) = Newline THEN [textcopy EXCEPT ![e + 1] = Space] ELSE textcopy
  PROVE  Typed' /\ WordTaken'
<1> DEFINE b == at.lastbreak
           p == at.curpos
           c == At(e)
<1>1. /\ textcopy \in Seq(Char) /\ p \in Nat /\ b \in Nat /\ Len(textcopy) \in Nat
      /\ line.spaces \in Nat
  BY LenProperties DEF Typed
<1>2. /\ p < Len(textcopy) /\ b <= p
      /\ line.spaces = Blanks(b, p - 1)
      /\ line.firstword => p = b
  BY Collects DEF NextWord
<1>3. UNCHANGED <<all, box, par, ypos, out, ret, pc>>
  BY DEF NextWord
<1>4. c \in Char \cup {Nul} /\ (c = Nul <=> e = Len(textcopy))
  BY <1>1, AtIs
<1>5. textcopy' \in Seq(Char) /\ Len(textcopy') = Len(textcopy)
  BY <1>1, CopyChanges
<1>6. ASSUME NEW k \in Nat PROVE At(k)' = IF k = e /\ c = Newline THEN Space ELSE At(k)
  BY <1>1, CopyChanges
<1>7. Typed'
  <2>1. at' \in [curpos : Nat, lastbreak : Nat, lastdelim : Nat]
    <3>1. (IF At(e) = Nul THEN e ELSE e + 1) \in Nat
      OBVIOUS
    <3>2. at \in [curpos : Nat, lastbreak : Nat, lastdelim : Nat]
      BY DEF Typed
    <3> QED
      BY <3>1, <3>2
  <2>2. (box.linebreak /\ c = Newline) \in BOOLEAN
    BY DEF Typed, Box
  <2>3. (IF c \in {Space, Newline} THEN line.spaces + 1 ELSE line.spaces) \in Nat
    BY <1>1
  <2>4. line' \in [hlen : Nat, oldhlen : Nat, spaces : Nat, firstword : BOOLEAN,
                   lineend : BOOLEAN, parend : BOOLEAN, prevchar : Char \cup {Nul}]
    <3>1. line \in [hlen : Nat, oldhlen : Nat, spaces : Nat, firstword : BOOLEAN,
                    lineend : BOOLEAN, parend : BOOLEAN, prevchar : Char \cup {Nul}]
      BY DEF Typed
    <3>2. line.hlen \in Nat
      BY <3>1
    <3>3. PICK ended \in BOOLEAN, spaces \in Nat :
            line' = [line EXCEPT !.lineend = ended, !.parend = parend, !.oldhlen = line.hlen,
                                 !.hlen = hlen, !.prevchar = c, !.firstword = FALSE,
                                 !.spaces = spaces]
      BY <2>2, <2>3, Zenon
    <3> HIDE DEF c
    <3> QED
      BY <1>4, <3>1, <3>2, <3>3
  <2> QED
    BY <1>3, <1>5, <2>1, <2>4 DEF Typed, ShownLine
<1>8. At(e)' \in Visible \cup {Space, Nul} /\ (At(e)' = Nul <=> c = Nul)
  BY <1>6, CharactersDiffer, DelimitersAre
<1>9. line'.spaces = Blanks(at.lastbreak, at.lastdelim)'
  <2> DEFINE before == {k \in b..p - 1 : At(k) = Space}
             upto == {k \in b..e : At(k)' = Space}
  <2>1. IsFiniteSet(before) /\ e \notin before
    <3>1. IsFiniteSet(b..p - 1)
      BY <1>1, FS_Interval
    <3> QED
      BY <1>1, <3>1, FS_Subset
  <2>2. \A k \in b..p - 1 : k \in Nat /\ At(k)' = At(k)
    BY <1>1, <1>6
  <2>3. \A k \in p..e - 1 : At(k)' # Space
    <3>1. \A k \in p..e - 1 : k \in Nat /\ k # e /\ At(k) # Space
      BY <1>1 DEF Delimiters
    <3> QED
      BY <1>6, <3>1
  <2>4. At(e)' = Space <=> c \in {Space, Newline}
    BY <1>6, CharactersDiffer
  <2>5. b \in Nat /\ p \in Nat /\ b <= p /\ p <= e
    BY <1>1, <1>2
  <2>6. Cardinality(before) = line.spaces
    BY <1>2 DEF Blanks
  <2>7. Blanks(at.lastbreak, at.lastdelim)' = Cardinality(upto)
    <3>1. at'.lastbreak = b /\ at'.lastdelim = e
      BY DEF Typed
    <3> QED
      BY <3>1 DEF Blanks
  <2>8. line'.spaces = IF c \in {Space, Newline} THEN line.spaces + 1 ELSE line.spaces
    BY <1>1 DEF Typed
  <2> HIDE DEF b, p
  <2>9. upto = IF At(e)' = Space THEN before \cup {e} ELSE before
    BY <2>2, <2>3, <2>5
  <2> HIDE DEF before, upto
  <2>10. c \in {Space, Newline} => Cardinality(upto) = Cardinality(before) + 1
    BY <2>1, <2>4, <2>9, FS_AddElement
  <2>11. c \notin {Space, Newline} => Cardinality(upto) = Cardinality(before)
    BY <2>4, <2>9
  <2> QED
    BY <2>6, <2>7, <2>8, <2>10, <2>11
<1>10. /\ at'.lastbreak = b /\ at'.lastdelim = e
       /\ at'.curpos = IF c = Nul THEN e ELSE e + 1
       /\ ~line'.firstword /\ line'.hlen = hlen /\ line'.parend = parend
  BY DEF Typed
<1>11. hlen = WidthTaken(line.parend)'
  <2> DEFINE n == e - b + Morechars(parend, c)
             m == IF n < 0 THEN Len(textcopy) ELSE n
  <2>1. Morechars(parend, At(e)') = Morechars(parend, c)
    BY <1>6, CharactersDiffer DEF Morechars
  <2>2. n \in Int /\ m \in Int
    BY <1>1 DEF Morechars
  <2>3. WidthTaken(line.parend)' = Glyphs(From(textcopy', b, m))
    BY <1>5, <1>10, <2>1 DEF WidthTaken, StringWidth
  <2>4. hlen = Glyphs(From(textcopy, b, m))
    BY DEF WidthIn
  <2>5. \A j \in 1..Len(textcopy) : textcopy[j] = Cr <=> textcopy'[j] = Cr
    <3>1. \A j \in 1..Len(textcopy) : Alike(textcopy'[j], textcopy[j])
      BY <1>1, CopyChanges
    <3> QED
      BY <3>1, CharactersDiffer DEF Alike, Blank
  <2> HIDE DEF m
  <2>6. Glyphs(From(textcopy, b, m)) = Glyphs(From(textcopy', b, m))
    <3>1. b <= Len(textcopy)
      BY <1>1, <1>2
    <3>2. PICK s \in Seq(Char), t \in Seq(Char) : s = textcopy /\ t = textcopy'
      BY <1>1, <1>5
    <3>3. /\ Len(s) = Len(t) /\ b <= Len(s) /\ b \in Nat
          /\ \A j \in 1..Len(s) : s[j] = Cr <=> t[j] = Cr
      BY <1>1, <1>5, <2>5, <3>1, <3>2
    <3>4. Glyphs(From(s, b, m)) = Glyphs(From(t, b, m))
      BY <2>2, <3>3, SameGlyphs, Zenon
    <3> QED
      BY <3>2, <3>4
  <2> QED
    BY <2>3, <2>4, <2>6
<1>12. Linewidth' = Linewidth
  BY <1>3 DEF Linewidth, Doindent
<1>13. hlen < Linewidth \/ \A k \in b..e - 1 : At(k)' \notin Delimiters
  <2>1. CASE line.firstword
    <3>1. \A k \in b..e - 1 : k \in Nat /\ k # e /\ At(k) \notin Delimiters
      BY <1>1, <1>2, <2>1
    <3> QED
      BY <1>6, <3>1
  <2> QED
    BY <2>1 DEF Fits
<1>14. Delimiters' = Delimiters
  BY DEF Delimiters
<1>15. Taken'
  BY <1>1, <1>2, <1>5, <1>8, <1>9, <1>10 DEF Taken
<1> QED
  BY <1>7, <1>8, <1>10, <1>11, <1>12, <1>13, <1>15 DEF WordTaken

\* A word that does not fit is left for the next line.
LEMMA WordIsLeft ==
  ASSUME Typed, Nothing \/ WordTaken, NextWord,
         NEW e \in Nat, NEW parend \in BOOLEAN, NEW hlen \in Nat, NEW prev \in Char \cup {Nul},
         at.curpos <= e, e <= Len(textcopy), At(e) \in Delimiters,
         \A j \in at.curpos..e - 1 : At(j) \notin Delimiters,
         ~Fits(hlen),
         line' = [line EXCEPT !.lineend = box.linebreak /\ At(e) = Newline, !.parend = parend,
                              !.oldhlen = line.hlen, !.hlen = hlen, !.prevchar = prev],
         at' = [at EXCEPT !.curpos = e],
         textcopy' = textcopy
  PROVE  Typed' /\ WordLeft'
<1>1. UNCHANGED <<all, box, par, ypos, out, ret, pc>>
  BY DEF NextWord
<1>2. /\ WordTaken /\ at.curpos = at.lastdelim + 1
      /\ At(at.lastdelim) \in Visible \cup {Space}
      /\ ~line.parend /\ line.hlen < Linewidth /\ ~line.firstword
  BY Collects DEF NextWord, Fits
<1>3. /\ at.lastdelim \in Nat /\ at.lastbreak \in Nat /\ line.hlen \in Nat
      /\ at \in [curpos : Nat, lastbreak : Nat, lastdelim : Nat]
      /\ line \in [hlen : Nat, oldhlen : Nat, spaces : Nat, firstword : BOOLEAN,
                   lineend : BOOLEAN, parend : BOOLEAN, prevchar : Char \cup {Nul}]
      /\ (box.linebreak /\ At(e) = Newline) \in BOOLEAN
  BY DEF Typed, Box
<1>4. PICK ended \in BOOLEAN :
        line' = [line EXCEPT !.lineend = ended, !.parend = parend,
                             !.oldhlen = line.hlen, !.hlen = hlen, !.prevchar = prev]
  BY <1>3, Zenon
<1>5. /\ at' \in [curpos : Nat, lastbreak : Nat, lastdelim : Nat]
      /\ line' \in [hlen : Nat, oldhlen : Nat, spaces : Nat, firstword : BOOLEAN,
                    lineend : BOOLEAN, parend : BOOLEAN, prevchar : Char \cup {Nul}]
      /\ at'.curpos = e /\ at'.lastbreak = at.lastbreak /\ at'.lastdelim = at.lastdelim
      /\ line'.hlen = hlen /\ line'.oldhlen = line.hlen /\ ~line'.firstword
      /\ line'.spaces = line.spaces
  BY <1>2, <1>3, <1>4
<1>6. Typed'
  BY <1>1, <1>5 DEF Typed, ShownLine
<1>7. \A k : At(k)' = At(k)
  BY DEF At
<1>8. Linewidth' = Linewidth /\ Delimiters' = Delimiters
  BY <1>1 DEF Linewidth, Doindent, Delimiters
<1>9. WidthTaken(FALSE)' = WidthTaken(FALSE)
  BY <1>5, <1>7 DEF WidthTaken, StringWidth, Glyphs
<1>10. line'.oldhlen = WidthTaken(FALSE)' /\ line'.oldhlen < Linewidth'
  <2>1. line.hlen = WidthTaken(FALSE)
    <3>1. line.parend = FALSE
      BY <1>2, <1>3
    <3> QED
      BY <1>2, <3>1, Zenon DEF WordTaken
  <2> QED
    BY <1>2, <1>5, <1>8, <1>9, <2>1
<1>11. line'.hlen >= Linewidth'
  <2>1. ~(hlen < Linewidth)
    BY DEF Fits
  <2> QED
    BY <1>5, <1>8, <2>1, LinewidthIs
<1>12. Taken'
  <2>1. Blanks(at.lastbreak, at.lastdelim)' = Blanks(at.lastbreak, at.lastdelim)
    BY <1>5, <1>7 DEF Blanks
  <2> QED
    BY <1>2, <1>5, <1>7, <2>1 DEF WordTaken, Taken
<1>13. /\ at'.lastdelim < at'.curpos /\ at'.curpos <= Len(textcopy')
       /\ At(at.curpos)' \in Delimiters'
  <2>1. At(at.curpos)' = At(e)
    BY <1>5 DEF At
  <2> QED
    BY <1>2, <1>3, <1>5, <1>8, <2>1
<1>14. \A k \in at'.lastdelim + 1..at'.curpos - 1 : At(k)' \notin Delimiters'
  <2>1. at'.lastdelim + 1 = at.curpos /\ at'.curpos = e
    BY <1>2, <1>5
  <2> QED
    BY <1>7, <1>8, <2>1, Zenon
<1> QED
  BY <1>6, <1>10, <1>11, <1>12, <1>13, <1>14 DEF WordLeft

LEMMA NextWordKeeps ==
  ASSUME Typed, Nothing \/ WordTaken, NextWord
  PROVE  Typed' /\ (WordTaken' \/ WordLeft') /\ pc' = "inner"
<1> DEFINE e == WordEnd(at.curpos)
           c == At(e)
           prev == IF e > at.curpos THEN At(e - 1) ELSE line.prevchar
           parend == Treatcraspar /\ prev = Newline /\ c = Newline
           hlen == StringWidth(at.lastbreak, e - at.lastbreak + Morechars(parend, c))
<1>1. /\ e \in at.curpos..Len(textcopy) /\ c \in Delimiters
      /\ \A j \in at.curpos..e - 1 : At(j) \notin Delimiters
      /\ prev \in Char \cup {Nul} /\ hlen \in Nat
      /\ hlen = WidthIn(textcopy, at.lastbreak, e - at.lastbreak + Morechars(parend, c))
  BY NextWordIs
<1>2. parend \in BOOLEAN /\ (parend => c = Newline)
  BY DEF Typed, Box, Treatcraspar
<1>3. e \in Nat /\ at.curpos <= e /\ e <= Len(textcopy)
  BY <1>1, LenProperties DEF Typed
<1>4. pc' = "inner"
  BY DEF NextWord
<1>5. IF Fits(hlen)
      THEN /\ line' = [line EXCEPT !.lineend = box.linebreak /\ c = Newline, !.parend = parend,
                                   !.oldhlen = line.hlen, !.hlen = hlen,
                                   !.prevchar = c, !.firstword = FALSE,
                                   !.spaces = IF c \in {Space, Newline} THEN @ + 1 ELSE @]
           /\ at' = [at EXCEPT !.lastdelim = e, !.curpos = IF c = Nul THEN e ELSE e + 1]
           /\ textcopy' = IF c = Newline THEN [textcopy EXCEPT ![e + 1] = Space] ELSE textcopy
      ELSE /\ line' = [line EXCEPT !.lineend = box.linebreak /\ c = Newline, !.parend = parend,
                                   !.oldhlen = line.hlen, !.hlen = hlen,
                                   !.prevchar = prev]
           /\ at' = [at EXCEPT !.curpos = e]
           /\ textcopy' = textcopy
  BY DEF NextWord
<1> HIDE DEF e, prev, parend, hlen
<1>6. CASE Fits(hlen)
  BY <1>1, <1>2, <1>3, <1>4, <1>5, <1>6, WordIsTaken
<1>7. CASE ~Fits(hlen)
  BY <1>1, <1>2, <1>3, <1>4, <1>5, <1>7, WordIsLeft
<1> QED
  BY <1>6, <1>7

----------------------------------------------------------------------------
(* The line that is shown.                                                 *)

FitsIn(l) ==
  \/ Reckoned(l) < l.linewidth
  \/ \A k \in 1..Len(l.chars) - 1 : l.chars[k] \notin Delimiters

CountsBlanks(l) ==
  l.stretched => l.spaces = Cardinality({k \in DOMAIN l.chars : l.chars[k] = Space})

BreaksWithin(l) ==
  l.hyphen =>
    /\ l.next \notin Delimiters
    /\ \A k \in 0..MinChars - 1 : l.chars[Len(l.chars) - k] \notin Delimiters

\* Where the characters of a set are in a string, and in the text.
Those(s, P) == {j \in DOMAIN s : s[j] \in P}
ThoseIn(P, b, d) == {k \in b..d : At(k) \in P}

\* The characters copied are those of the text, and there are as many of any set.
LEMMA CopiedOf ==
  ASSUME textcopy \in Seq(Char), NEW b \in Nat, NEW n \in Nat, b + n <= Len(textcopy), NEW P
  PROVE  LET chars == From(textcopy, b, n)
         IN  /\ chars \in Seq(Char) /\ Len(chars) = n /\ DOMAIN chars = 1..n
             /\ \A j \in 1..n : chars[j] = At(b + j - 1)
             /\ Cardinality(Those(chars, P)) = Cardinality(ThoseIn(P, b, b + n - 1))
<1> DEFINE chars == From(textcopy, b, n)
           S == {j \in 1..n : chars[j] \in P}
           T == {k \in b..b + n - 1 : At(k) \in P}
           f == [j \in S |-> b + j - 1]
<1>1. Len(textcopy) \in Nat /\ b <= Len(textcopy)
  BY LenProperties
<1>2. /\ chars \in Seq(Char) /\ Len(chars) = n
      /\ \A j \in 1..n : chars[j] = textcopy[b + j]
  <2>1. n \in Int /\ n >= 0
    OBVIOUS
  <2>2. /\ chars \in Seq(Char)
        /\ n >= 0 /\ b + n <= Len(textcopy) => Len(chars) = n
        /\ \A j \in 1..Len(chars) : chars[j] = textcopy[b + j]
    BY <1>1, <2>1, FromIs
  <2> HIDE DEF chars
  <2>3. Len(chars) = n
    BY <2>1, <2>2
  <2> QED
    BY <2>2, <2>3
<1>3. DOMAIN chars = 1..n
  BY <1>2, LenProperties
<1>4. ASSUME NEW j \in 1..n PROVE chars[j] = At(b + j - 1)
  <2>1. b + j - 1 \in Nat /\ b + j - 1 < Len(textcopy) /\ (b + j - 1) + 1 = b + j
    BY <1>1
  <2> QED
    BY <1>2, <2>1, AtIs
<1> HIDE DEF chars
<1>5. f \in Bijection(S, T)
  <2>1. \A j \in S : b + j - 1 \in T
    BY <1>4
  <2>2. \A k \in T : k - b + 1 \in S /\ b + (k - b + 1) - 1 = k
    <3>1. ASSUME NEW k \in T PROVE k - b + 1 \in S /\ b + (k - b + 1) - 1 = k
      <4>1. k - b + 1 \in 1..n /\ b + (k - b + 1) - 1 = k
        OBVIOUS
      <4>2. chars[k - b + 1] = At(b + (k - b + 1) - 1)
        BY <1>4, <4>1
      <4> QED
        BY <4>1, <4>2
    <3> QED
      BY <3>1
  <2>3. \A i, j \in S : b + i - 1 = b + j - 1 => i = j
    OBVIOUS
  <2> QED
    BY <2>1, <2>2, <2>3 DEF Bijection, Injection, Surjection, IsInjective
<1>6. IsFiniteSet(S)
  <2>1. IsFiniteSet(1..n)
    BY FS_Interval
  <2> QED
    BY <2>1, FS_Subset
<1>7. Cardinality(T) = Cardinality(S)
  BY <1>5, <1>6, FS_Bijection DEF ExistsBijection
<1> QED
  BY <1>2, <1>3, <1>4, <1>7 DEF chars, Those, ThoseIn

\* So are their blanks and their width.
LEMMA Copied ==
  ASSUME textcopy \in Seq(Char), NEW b \in Nat, NEW n \in Nat, b + n <= Len(textcopy)
  PROVE  LET chars == From(textcopy, b, n)
         IN  /\ chars \in Seq(Char) /\ Len(chars) = n /\ DOMAIN chars = 1..n
             /\ \A j \in 1..n : chars[j] = At(b + j - 1)
             /\ Cardinality({j \in DOMAIN chars : chars[j] = Space}) = Blanks(b, b + n - 1)
             /\ Glyphs(chars) = GlyphsIn(b, b + n - 1)
<1> DEFINE chars == From(textcopy, b, n)
<1> DEFINE P == Char \ {Cr}
<1>1. /\ chars \in Seq(Char) /\ Len(chars) = n /\ DOMAIN chars = 1..n
      /\ \A j \in 1..n : chars[j] = At(b + j - 1)
      /\ Cardinality(Those(chars, {Space})) = Cardinality(ThoseIn({Space}, b, b + n - 1))
  BY CopiedOf
<1>2. Cardinality(Those(chars, P)) = Cardinality(ThoseIn(P, b, b + n - 1))
  <2> HIDE DEF P
  <2> QED
    BY CopiedOf
<1> HIDE DEF chars
<1>3. /\ Those(chars, {Space}) = {j \in DOMAIN chars : chars[j] = Space}
      /\ ThoseIn({Space}, b, b + n - 1) = {k \in b..b + n - 1 : At(k) = Space}
  BY <1>1 DEF Those, ThoseIn
<1>4. Those(chars, P) = {j \in DOMAIN chars : chars[j] # Cr}
  BY <1>1, ElementOfSeq DEF Those
<1>5. ThoseIn(P, b, b + n - 1) = {k \in b..b + n - 1 : At(k) # Cr}
  <2>1. ASSUME NEW k \in b..b + n - 1 PROVE At(k) \in Char
    <3>1. PICK m \in Nat : m = Len(textcopy)
      BY LenProperties
    <3>2. k \in Nat /\ k < m
      BY <3>1
    <3> QED
      BY <3>1, <3>2, AtIs
  <2> QED
    BY <2>1 DEF ThoseIn
<1>6. Glyphs(chars) = GlyphsIn(b, b + n - 1)
  BY <1>2, <1>4, <1>5 DEF Glyphs, GlyphsIn
<1>7. Cardinality({j \in DOMAIN chars : chars[j] = Space}) = Blanks(b, b + n - 1)
  BY <1>1, <1>3 DEF Blanks
<1> QED
  BY <1>1, <1>6, <1>7 DEF chars

\* The width of two pieces of the text, and of one.
LEMMA GlyphsSplit ==
  ASSUME NEW b \in Int, NEW a \in Int, NEW c \in Int, NEW d \in Int,
         a = c - 1, b <= c, c <= d + 1
  PROVE  /\ GlyphsIn(b, a) \in Nat /\ GlyphsIn(c, d) \in Nat /\ GlyphsIn(b, d) \in Nat
         /\ GlyphsIn(b, d) <= GlyphsIn(b, a) + GlyphsIn(c, d)
         /\ GlyphsIn(b, a) <= GlyphsIn(b, d)
         /\ GlyphsIn(c, d) <= d - c + 1
<1> DEFINE S == {k \in b..a : At(k) # Cr}
           T == {k \in c..d : At(k) # Cr}
           U == {k \in b..d : At(k) # Cr}
<1>1. IsFiniteSet(b..a) /\ IsFiniteSet(c..d) /\ IsFiniteSet(b..d)
  BY FS_Interval
<1>2. IsFiniteSet(S) /\ IsFiniteSet(T) /\ IsFiniteSet(U)
  BY <1>1, FS_Subset
<1>3. U = S \cup T /\ S \subseteq U /\ T \subseteq c..d
  OBVIOUS
<1>4. Cardinality(c..d) = d - c + 1
  <2>1. Cardinality(c..d) = IF c > d THEN 0 ELSE d - c + 1
    BY FS_Interval
  <2> QED
    BY <2>1
<1>5. Cardinality(S) <= Cardinality(U) /\ Cardinality(T) <= Cardinality(c..d)
  <2> HIDE DEF S, T, U
  <2> QED
    BY <1>1, <1>2, <1>3, FS_Subset
<1>6. Cardinality(U) <= Cardinality(S) + Cardinality(T)
  <2> HIDE DEF S, T, U
  <2>1. PICK s \in Nat, t \in Nat, i \in Nat :
          s = Cardinality(S) /\ t = Cardinality(T) /\ i = Cardinality(S \cap T)
    <3>1. IsFiniteSet(S \cap T)
      BY <1>2, FS_Subset
    <3> QED
      BY <1>2, <3>1, FS_CardinalityType
  <2>2. Cardinality(S \cup T) = s + t - i
    BY <1>2, <2>1, FS_Union
  <2> QED
    BY <1>3, <2>1, <2>2
<1>7. Cardinality(S) \in Nat /\ Cardinality(T) \in Nat /\ Cardinality(U) \in Nat
  <2> HIDE DEF S, T, U
  <2> QED
    BY <1>2, FS_CardinalityType
<1> QED
  BY <1>4, <1>5, <1>6, <1>7 DEF GlyphsIn

\* The delimiter at d, counted or not.
LEMMA GlyphsUpTo ==
  ASSUME NEW b \in Int, NEW a \in Int, NEW d \in Int, a = d - 1, b <= d
  PROVE  GlyphsIn(b, d) = GlyphsIn(b, a) + (IF At(d) = Cr THEN 0 ELSE 1)
<1> DEFINE S == {k \in b..a : At(k) # Cr}
           T == {k \in b..d : At(k) # Cr}
<1>1. IsFiniteSet(S) /\ d \notin S
  <2>1. IsFiniteSet(b..a) /\ d \notin b..a
    BY FS_Interval
  <2> QED
    BY <2>1, FS_Subset
<1>2. T = IF At(d) # Cr THEN S \cup {d} ELSE S
  <2>1. b..d = b..a \cup {d} /\ d \notin b..a
    OBVIOUS
  <2> QED
    BY <2>1
<1>3. GlyphsIn(b, a) = Cardinality(S) /\ GlyphsIn(b, d) = Cardinality(T)
  BY DEF GlyphsIn
<1> HIDE DEF S, T
<1>4. PICK c \in Nat : c = Cardinality(S)
  BY <1>1, FS_CardinalityType
<1>5. Cardinality(S \cup {d}) = c + 1
  BY <1>1, <1>4, FS_AddElement
<1> QED
  BY <1>2, <1>3, <1>4, <1>5

\* Only the word that did not fit is broken, and not behind its delimiter.
LEMMA BrokenWord ==
  ASSUME Typed, Nothing \/ WordTaken \/ WordLeft, Hyphenating, LastHyphen # 0
  PROVE  /\ WordLeft /\ At(at.lastdelim) \in Visible \cup {Space} /\ ~line.parend
         /\ LastHyphen \in Nat /\ LastHyphen >= MinChars
         /\ GlyphsIn(at.lastdelim, at.lastdelim + LastHyphen) + 1 < Linewidth - line.oldhlen
         /\ at.lastdelim + LastHyphen + MinChars <= at.curpos + 1
         /\ at.lastdelim + LastHyphen + MinChars < Len(textcopy)
         /\ \A k \in at.lastdelim + 1..at.lastdelim + LastHyphen : At(k) # Space
<1> DEFINE D == at.lastdelim
           p == at.curpos
           m == p - D - MorecharsLeft
           w == IF At(p) \in {Space, Newline, Nul} THEN m ELSE m + 1
<1>1. /\ textcopy \in Seq(Char) /\ D \in Nat /\ p \in Nat /\ at.lastbreak \in Nat
      /\ Len(textcopy) \in Nat /\ line.oldhlen \in Nat /\ line.parend \in BOOLEAN
      /\ Linewidth - line.oldhlen \in Int /\ MinChars \in Nat \ {0}
  BY LenProperties, LinewidthIs, MinCharsAssumption DEF Typed
<1>2. D + 1 <= Len(textcopy) /\ At(D) # Nul /\ ~line.parend
  BY <1>1, AtIs DEF Hyphenating
<1>3. MorecharsLeft = IF At(D) = Space THEN 0 ELSE 1
  BY <1>2 DEF MorecharsLeft
<1>4. m \in Int /\ w \in Int /\ w <= m + 1 /\ Hyphenword = From(textcopy, D + 1, w)
  BY <1>1, <1>3 DEF Hyphenword
<1>5. /\ Hyphenword \in Seq(Char) /\ Len(Hyphenword) \in Nat
      /\ w <= 0 => Len(Hyphenword) = 0
      /\ w >= 0 => Len(Hyphenword) <= w
      /\ Len(Hyphenword) <= Len(textcopy) - (D + 1)
  <2>1. PICK k \in Nat : k = D + 1
    BY <1>1
  <2>2. PICK v \in Int : v = w
    BY <1>4
  <2>3. k <= Len(textcopy) /\ Hyphenword = From(textcopy, k, v)
    BY <1>2, <1>4, <2>1, <2>2
  <2>4. /\ From(textcopy, k, v) \in Seq(Char)
        /\ v <= 0 => Len(From(textcopy, k, v)) = 0
        /\ v >= 0 /\ k + v <= Len(textcopy) => Len(From(textcopy, k, v)) = v
        /\ k + v > Len(textcopy) => Len(From(textcopy, k, v)) = Len(textcopy) - k
    <3>1. textcopy \in Seq(Char) /\ k <= Len(textcopy)
      BY <1>1, <2>3
    <3> QED
      BY <3>1, FromIs, Zenon
  <2>5. PICK l \in Nat : l = Len(Hyphenword)
    BY <2>3, <2>4, LenProperties
  <2>6. /\ v <= 0 => l = 0
        /\ v >= 0 /\ k + v <= Len(textcopy) => l = v
        /\ k + v > Len(textcopy) => l = Len(textcopy) - k
    BY <2>3, <2>4, <2>5
  <2> HIDE DEF w
  <2>7. (v >= 0 => l <= v) /\ l <= Len(textcopy) - k
    BY <1>1, <2>3, <2>6
  <2> QED
    BY <2>1, <2>2, <2>3, <2>4, <2>5, <2>6, <2>7
<1>6. /\ LastHyphen \in MinChars..Len(Hyphenword) - MinChars
      /\ Len(Hyphenword) > 2 * MinChars
      /\ \E lead, i \in Nat :
           /\ LastHyphen = lead + i + 1
           /\ HyphenWidth(lead, i) < Linewidth - line.oldhlen
  BY <1>5, LastHyphenIs
<1>7. w > 2
  <2>1. Len(Hyphenword) > 2 * MinChars
    BY <1>6
  <2> HIDE DEF w
  <2> QED
    BY <1>1, <1>4, <1>5, <2>1
<1>8. WordLeft
  <2>1. CASE Nothing
    BY <1>1, <1>3, <1>4, <1>7, <2>1 DEF Nothing, AtLineStart
  <2>2. CASE WordTaken
    BY <1>1, <1>2, <1>3, <1>4, <1>7, <2>2 DEF WordTaken
  <2> QED
    BY <2>1, <2>2
<1>9. At(D) \in Visible \cup {Space}
  BY <1>2, <1>8 DEF WordLeft, Taken
<1>10. /\ LastHyphen \in Nat /\ D + LastHyphen + MinChars <= p + 1
       /\ D + LastHyphen + MinChars < Len(textcopy)
       /\ At(p) \in {Space, Newline, Nul} => D + LastHyphen + MinChars <= p
  <2>1. PICK l \in Nat : l = Len(Hyphenword)
    BY <1>5
  <2>2. PICK hp \in Nat : hp = LastHyphen /\ hp + MinChars <= l
    BY <1>1, <1>6, <2>1
  <2>3. l <= w /\ l <= Len(textcopy) - (D + 1)
    <3> HIDE DEF w
    <3>1. w >= 0
      BY <1>4, <1>7
    <3> QED
      BY <1>5, <2>1, <3>1
  <2>4. m <= p - D
    <3>1. PICK c \in {0, 1} : MorecharsLeft = c
      BY <1>3, Zenon
    <3>2. p - D - c <= p - D
      BY <1>1
    <3> QED
      BY <3>1, <3>2
  <2>5. w <= p - D + 1 /\ (At(p) \in {Space, Newline, Nul} => w <= p - D)
    BY <1>1, <1>4, <2>4
  <2> HIDE DEF w, m, D, p
  <2>6. /\ D + hp + MinChars <= p + 1
        /\ D + hp + MinChars < Len(textcopy)
        /\ At(p) \in {Space, Newline, Nul} => D + hp + MinChars <= p
    BY <1>1, <1>4, <2>2, <2>3, <2>5
  <2> QED
    BY <2>2, <2>6
<1>11. ASSUME NEW k \in D + 1..D + LastHyphen PROVE At(k) # Space
  <2>1. CASE k < p
    <3>1. k \in D + 1..p - 1
      BY <1>1, <1>10, <2>1
    <3> QED
      BY <1>8, <3>1 DEF WordLeft, Delimiters
  <2>2. CASE k = p
    <3>1. At(p) \notin {Space, Newline, Nul}
      BY <1>1, <1>10, <2>2
    <3> QED
      BY <2>2, <3>1
  <2>3. k <= p
    BY <1>1, <1>10
  <2> QED
    BY <1>1, <1>10, <2>1, <2>2, <2>3
<1>12. GlyphsIn(D, D + LastHyphen) + 1 < Linewidth - line.oldhlen
  <2>1. PICK lead \in Nat, i \in Nat :
          LastHyphen = lead + i + 1 /\ HyphenWidth(lead, i) < Linewidth - line.oldhlen
    BY <1>6
  <2> DEFINE piece == SubSeq(Hyphenword, lead + 1, lead + i + 1)
             q == D + 1 + lead
  <2>2. PICK l \in Nat, m1 \in Nat :
          l = Len(Hyphenword) /\ m1 = Len(textcopy) /\ lead + i + 1 <= l /\ l <= m1 - (D + 1)
    BY <1>1, <1>5, <1>6, <2>1
  <2>3. /\ piece \in Seq(Char) /\ Len(piece) = i + 1
        /\ \A j \in 1..i + 1 : piece[j] = Hyphenword[lead + j]
    <3>1. lead + 1 \in 1..l + 1 /\ lead + i + 1 \in (lead + 1) - 1..l
      BY <2>2
    <3>2. /\ (lead + i + 1) - (lead + 1) + 1 = i + 1
          /\ \A j \in 1..i + 1 : (lead + 1) + j - 1 = lead + j
      BY <2>2
    <3> QED
      BY <1>5, <2>2, <3>1, <3>2, SubSeqProperties
  <2>4. /\ From(textcopy, q, i + 1) \in Seq(Char) /\ Len(From(textcopy, q, i + 1)) = i + 1
        /\ \A j \in 1..i + 1 : From(textcopy, q, i + 1)[j] = At(q + j - 1)
        /\ Glyphs(From(textcopy, q, i + 1)) = GlyphsIn(q, q + (i + 1) - 1)
    <3>1. q \in Nat /\ i + 1 \in Nat /\ q + (i + 1) <= Len(textcopy)
      BY <1>1, <2>2
    <3> QED
      BY <1>1, <3>1, Copied
  <2>5. ASSUME NEW j \in 1..i + 1 PROVE piece[j] = From(textcopy, q, i + 1)[j]
    <3>1. Hyphenword[lead + j] = textcopy[D + 1 + (lead + j)]
      <4>1. PICK k \in Nat : k = D + 1 /\ k <= Len(textcopy)
        BY <1>1, <1>2
      <4>2. \A x \in 1..Len(From(textcopy, k, w)) : From(textcopy, k, w)[x] = textcopy[k + x]
        <5>1. PICK x \in Int : x = w
          BY <1>4
        <5>2. textcopy \in Seq(Char) /\ k <= Len(textcopy)
          BY <1>1, <4>1
        <5>3. \A y \in 1..Len(From(textcopy, k, x)) : From(textcopy, k, x)[y] = textcopy[k + y]
          BY <5>2, FromIs
        <5> HIDE DEF w
        <5> QED
          BY <5>1, <5>3
      <4>3. lead + j \in 1..l
        BY <2>2
      <4> HIDE DEF w
      <4> QED
        BY <1>4, <2>2, <4>1, <4>2, <4>3
    <3>2. q + j - 1 \in Nat /\ q + j - 1 < m1 /\ (q + j - 1) + 1 = D + 1 + (lead + j)
      <4>1. PICK x \in Nat : x = D
        BY <1>1
      <4>2. q = x + 1 + lead /\ lead + i + 1 <= m1 - (x + 1)
        BY <2>2, <4>1
      <4> HIDE DEF q
      <4>3. j \in Int /\ 1 <= j /\ j <= i + 1
        OBVIOUS
      <4>4. q + j - 1 \in Nat /\ q + j - 1 < m1 /\ (q + j - 1) + 1 = x + 1 + (lead + j)
        BY <4>2, <4>3
      <4> QED
        BY <4>1, <4>4
    <3>3. At(q + j - 1) = textcopy[D + 1 + (lead + j)]
      BY <1>1, <2>2, <3>2, AtIs
    <3> QED
      BY <2>3, <2>4, <3>1, <3>3
  <2>6. piece = From(textcopy, q, i + 1)
    <3>1. PICK u \in Seq(Char), v \in Seq(Char) : u = piece /\ v = From(textcopy, q, i + 1)
      BY <2>3, <2>4
    <3>2. Len(u) = Len(v) /\ \A j \in 1..Len(u) : u[j] = v[j]
      BY <2>3, <2>4, <2>5, <3>1
    <3>3. u = v
      BY <3>2, SeqEqual
    <3> QED
      BY <3>1, <3>3
  <2>7. Glyphs(piece) = GlyphsIn(q, D + LastHyphen)
    <3>1. q + (i + 1) - 1 = D + LastHyphen
      BY <1>1, <2>1
    <3> QED
      BY <2>4, <2>6, <3>1
  <2>8. HyphenWidth(lead, i) = (IF At(D) = Cr THEN 0 ELSE 1) + lead + Glyphs(piece) + 1
    BY DEF HyphenWidth
  <2>9. /\ GlyphsIn(D, D + LastHyphen) <= GlyphsIn(D, D) + GlyphsIn(D + 1, D + LastHyphen)
        /\ GlyphsIn(D, D + LastHyphen) \in Nat /\ GlyphsIn(D, D) \in Nat
        /\ GlyphsIn(D + 1, D + LastHyphen) \in Nat
    <3>1. PICK a \in Int, c \in Int, d \in Int :
            /\ a = D /\ c = D + 1 /\ d = D + LastHyphen
            /\ a = c - 1 /\ a <= c /\ c <= d + 1
      BY <1>1, <2>1
    <3>2. /\ GlyphsIn(a, d) <= GlyphsIn(a, a) + GlyphsIn(c, d)
          /\ GlyphsIn(a, d) \in Nat /\ GlyphsIn(a, a) \in Nat /\ GlyphsIn(c, d) \in Nat
      BY <3>1, GlyphsSplit, Zenon
    <3> QED
      BY <3>1, <3>2
  <2>10. /\ GlyphsIn(D + 1, D + LastHyphen)
              <= GlyphsIn(D + 1, D + lead) + GlyphsIn(q, D + LastHyphen)
         /\ GlyphsIn(D + 1, D + lead) \in Nat /\ GlyphsIn(q, D + LastHyphen) \in Nat
    <3>1. /\ D + 1 \in Int /\ q \in Int /\ D + LastHyphen \in Int /\ D + lead \in Int
          /\ D + 1 <= q /\ q <= (D + LastHyphen) + 1 /\ D + lead = q - 1
      <4>1. PICK x \in Nat, y \in Nat : x = D /\ y = LastHyphen /\ y = lead + i + 1
        BY <1>1, <2>1
      <4> HIDE DEF D
      <4> QED
        BY <4>1
    <3> QED
      BY <3>1, GlyphsSplit, Zenon
  <2>11. GlyphsIn(D + 1, D + lead) <= lead
    <3>1. PICK a \in Int, c \in Int, d \in Int :
            /\ a = D /\ c = D + 1 /\ d = D + lead
            /\ a = c - 1 /\ a <= c /\ c <= d + 1 /\ d - c + 1 = lead
      BY <1>1
    <3>2. GlyphsIn(c, d) <= d - c + 1
      BY <3>1, GlyphsSplit, Zenon
    <3> QED
      BY <3>1, <3>2
  <2>12. GlyphsIn(D, D) = IF At(D) = Cr THEN 0 ELSE 1
    <3>0. PICK a \in Int : a = D - 1 /\ D \in Int /\ D <= D
      BY <1>1
    <3>1. GlyphsIn(D, D) = GlyphsIn(D, a) + (IF At(D) = Cr THEN 0 ELSE 1)
      BY <3>0, GlyphsUpTo, Zenon
    <3>2. {k \in D..a : At(k) # Cr} = {}
      BY <3>0
    <3>3. GlyphsIn(D, a) = 0
      BY <3>2, FS_EmptySet, Zenon DEF GlyphsIn
    <3> QED
      BY <3>1, <3>3
  <2>13. PICK g \in Int : g = Linewidth - line.oldhlen
    BY <1>1
  <2> HIDE DEF piece, q
  <2> QED
    BY <2>1, <2>7, <2>8, <2>9, <2>10, <2>11, <2>12, <2>13
<1> QED
  BY <1>1, <1>2, <1>6, <1>8, <1>9, <1>10, <1>11, <1>12

\* The delimiter at d, counted or not.
LEMMA BlanksUpTo ==
  ASSUME textcopy \in Seq(Char), NEW b \in Nat, NEW d \in Nat, b <= d
  PROVE  /\ Blanks(b, d) \in Nat
         /\ \A e \in Int : e = d - 1 => Blanks(b, e) \in Nat
         /\ \A e \in Int : e = d - 1 /\ At(d) # Space => Blanks(b, e) = Blanks(b, d)
         /\ \A e \in Int : e = d - 1 /\ At(d) = Space => Blanks(b, e) = Blanks(b, d) - 1
<1> SUFFICES ASSUME NEW e \in Int, e = d - 1
             PROVE  /\ Blanks(b, d) \in Nat /\ Blanks(b, e) \in Nat
                    /\ At(d) # Space => Blanks(b, e) = Blanks(b, d)
                    /\ At(d) = Space => Blanks(b, e) = Blanks(b, d) - 1
  <2>1. d - 1 \in Int
    OBVIOUS
  <2> QED
    BY <2>1
<1> DEFINE S == {k \in b..e : At(k) = Space}
           T == {k \in b..d : At(k) = Space}
<1>1. IsFiniteSet(S) /\ d \notin S
  <2>1. IsFiniteSet(b..e)
    BY FS_Interval
  <2> QED
    BY <2>1, FS_Subset
<1>2. T = IF At(d) = Space THEN S \cup {d} ELSE S
  <2>1. b..d = b..e \cup {d} /\ d \notin b..e
    OBVIOUS
  <2> QED
    BY <2>1
<1>3. Blanks(b, e) = Cardinality(S) /\ Blanks(b, d) = Cardinality(T)
  BY DEF Blanks
<1> HIDE DEF S, T
<1>4. PICK c \in Nat : c = Cardinality(S)
  BY <1>1, FS_CardinalityType
<1>5. Cardinality(S \cup {d}) = c + 1
  BY <1>1, <1>4, FS_AddElement
<1> QED
  BY <1>2, <1>3, <1>4, <1>5

\* The width of a line that is not broken within a word, as far as it is
\* reckoned with.
Measured(s) == Glyphs(s) + (IF s # <<>> /\ Last(s) = SoftHyphen THEN -1 ELSE 0)

\* What is copied of the words that were taken, if none is broken.
LEMMA TakenIs ==
  ASSUME Typed, Taken
  PROVE  LET n == at.lastdelim - at.lastbreak + MorecharsLeft
             chars == From(textcopy, at.lastbreak, n)
         IN  /\ n \in Int /\ at.lastbreak + n <= Len(textcopy)
             /\ n <= at.lastdelim - at.lastbreak + 1
             /\ WidthTaken(FALSE) \in Nat
             /\ GlyphsIn(at.lastbreak, at.lastdelim - 1) <= WidthTaken(FALSE)
             /\ n >= 0 => /\ Measured(chars) \in Int
                          /\ Measured(chars) <= WidthTaken(line.parend)
                          /\ Measured(chars) <= WidthTaken(FALSE)
             /\ n >= 0 /\ ~line.parend => SpacesLeft = Blanks(at.lastbreak, at.lastbreak + n - 1)
<1> DEFINE b == at.lastbreak
           D == at.lastdelim
<1>1. /\ textcopy \in Seq(Char) /\ D \in Nat /\ b \in Nat /\ Len(textcopy) \in Nat
      /\ line.parend \in BOOLEAN /\ line.spaces \in Nat
  BY LenProperties DEF Typed
<1>2. /\ b <= D /\ D <= Len(textcopy) /\ At(D) \in Visible \cup {Space, Nul}
      /\ line.spaces = Blanks(b, D)
  BY DEF Taken
<1>3. At(D) \in Visible => D < Len(textcopy)
  BY <1>1, <1>2, AtIs, DelimitersAre
<1>4. /\ line.parend => MorecharsLeft = -1 /\ Morechars(line.parend, At(D)) = -1
      /\ ~line.parend => MorecharsLeft = IF At(D) \in Visible THEN 1 ELSE 0
  BY <1>2, DelimitersAre DEF MorecharsLeft, Morechars
<1>5. PICK more \in {-1, 0, 1} : more = MorecharsLeft
  BY DEF MorecharsLeft
<1>6. PICK vis \in {0, 1} : vis = Morechars(FALSE, At(D))
  BY DEF Morechars
<1>7. /\ D + more <= Len(textcopy) /\ D + vis <= Len(textcopy)
      /\ vis = 1 <=> At(D) = Dash
  <2>1. vis = 1 <=> At(D) = Dash
    BY <1>6 DEF Morechars
  <2>2. Dash \in Visible
    BY DEF Visible
  <2> QED
    BY <1>1, <1>2, <1>3, <1>4, <1>5, <2>1, <2>2
<1>8. ASSUME NEW v \in Nat, b + v <= Len(textcopy)
      PROVE  /\ StringWidth(b, v) = GlyphsIn(b, b + v - 1)
             /\ Glyphs(From(textcopy, b, v)) = GlyphsIn(b, b + v - 1)
             /\ Len(From(textcopy, b, v)) = v
             /\ \A j \in 1..v : From(textcopy, b, v)[j] = At(b + j - 1)
             /\ GlyphsIn(b, b + v - 1) \in Nat
  <2>1. /\ From(textcopy, b, v) \in Seq(Char)
        /\ Glyphs(From(textcopy, b, v)) = GlyphsIn(b, b + v - 1)
        /\ Len(From(textcopy, b, v)) = v
        /\ \A j \in 1..v : From(textcopy, b, v)[j] = At(b + j - 1)
    BY <1>1, <1>8, Copied
  <2>2. StringWidth(b, v) = Glyphs(From(textcopy, b, v))
    BY DEF StringWidth
  <2> QED
    BY <2>1, <2>2, GlyphsAre
<1>9. PICK n \in Int : n = D - b + more
  BY <1>1
<1>10. b + n <= Len(textcopy) /\ n <= D - b + 1
  BY <1>1, <1>5, <1>7, <1>9
<1>11. WidthTaken(FALSE) = GlyphsIn(b, D + vis - 1) /\ WidthTaken(FALSE) \in Nat
  <2>1. PICK v \in Nat : v = D - b + vis
    BY <1>1, <1>2
  <2>2. b + v <= Len(textcopy) /\ b + v - 1 = D + vis - 1
    BY <1>1, <1>7, <2>1
  <2>3. WidthTaken(FALSE) = StringWidth(b, v)
    BY <1>6, <2>1 DEF WidthTaken
  <2> QED
    BY <1>8, <2>2, <2>3
<1>12. \A d \in Int : b <= d + 1 /\ d <= D - 1 => GlyphsIn(b, d) <= WidthTaken(FALSE)
  <2> SUFFICES ASSUME NEW d \in Int, b <= d + 1, d <= D - 1
               PROVE  GlyphsIn(b, d) <= WidthTaken(FALSE)
    OBVIOUS
  <2>1. PICK c \in Int, e \in Int :
          b \in Int /\ c = d + 1 /\ e = D + vis - 1 /\ b <= c /\ c <= e + 1 /\ d = c - 1
    BY <1>1
  <2>2. GlyphsIn(b, d) <= GlyphsIn(b, e)
    BY <2>1, GlyphsSplit, Zenon
  <2> QED
    BY <1>11, <2>1, <2>2
<1>13. GlyphsIn(b, D - 1) <= WidthTaken(FALSE)
  <2>1. PICK e \in Int : e = D - 1 /\ b <= e + 1 /\ e <= D - 1
    BY <1>1, <1>2
  <2>2. GlyphsIn(b, e) <= WidthTaken(FALSE)
    BY <1>12, <2>1, Zenon
  <2> QED
    BY <2>1, <2>2
<1> DEFINE chars == From(textcopy, b, n)
<1>14. ASSUME n >= 0
       PROVE  /\ Glyphs(chars) = GlyphsIn(b, b + n - 1) /\ Glyphs(chars) \in Nat
              /\ Len(chars) = n /\ (n > 0 => chars[n] = At(b + n - 1))
              /\ Measured(chars) \in Int /\ Measured(chars) <= Glyphs(chars)
              /\ n > 0 /\ At(b + n - 1) = SoftHyphen => Measured(chars) = Glyphs(chars) - 1
  <2>1. PICK v \in Nat : v = n
    BY <1>14
  <2>2. /\ Glyphs(chars) = GlyphsIn(b, b + n - 1) /\ Glyphs(chars) \in Nat
        /\ Len(chars) = n /\ (n > 0 => chars[n] = At(b + n - 1))
    BY <1>8, <1>10, <2>1
  <2>3. n > 0 => chars # <<>> /\ Last(chars) = At(b + n - 1)
    BY <2>2 DEF Last
  <2> HIDE DEF chars
  <2> QED
    BY <2>2, <2>3 DEF Measured
<1>15. ASSUME n >= 0
       PROVE  Measured(chars) <= WidthTaken(line.parend) /\ Measured(chars) <= WidthTaken(FALSE)
  <2> HIDE DEF chars
  <2>1. CASE line.parend
    <3>1. n = D - b - 1 /\ b + n - 1 = D - 2 /\ b <= (D - 2) + 1 /\ D - 2 <= D - 1
      BY <1>1, <1>4, <1>5, <1>9, <1>15, <2>1
    <3>2. WidthTaken(line.parend) = StringWidth(b, n)
      BY <1>4, <1>5, <1>9, <2>1 DEF WidthTaken
    <3>3. WidthTaken(line.parend) = GlyphsIn(b, b + n - 1)
      <4>1. n \in Nat
        BY <1>15
      <4> QED
        BY <1>8, <1>10, <3>2, <4>1
    <3>4. GlyphsIn(b, D - 2) <= WidthTaken(FALSE)
      <4>1. PICK e \in Int : e = D - 2 /\ b <= e + 1 /\ e <= D - 1
        BY <1>1, <3>1
      <4>2. GlyphsIn(b, e) <= WidthTaken(FALSE)
        BY <1>12, <4>1, Zenon
      <4> QED
        BY <4>1, <4>2
    <3>5. Glyphs(chars) = WidthTaken(line.parend) /\ Glyphs(chars) <= WidthTaken(FALSE)
      BY <1>14, <1>15, <3>1, <3>3, <3>4
    <3>6. PICK g \in Nat, x \in Int : g = Glyphs(chars) /\ x = Measured(chars)
      BY <1>14, <1>15
    <3>7. PICK y \in Nat : y = WidthTaken(FALSE)
      BY <1>11
    <3>8. x <= g
      BY <1>14, <1>15, <3>6
    <3>9. g <= y
      BY <3>5, <3>6, <3>7
    <3>10. x <= y
      BY <3>8, <3>9
    <3>11. Measured(chars) <= WidthTaken(line.parend)
      BY <3>5, <3>6, <3>8
    <3>12. Measured(chars) <= WidthTaken(FALSE)
      BY <3>6, <3>7, <3>10
    <3> QED
      BY <3>11, <3>12
  <2>2. CASE ~line.parend
    <3>1. WidthTaken(line.parend) = WidthTaken(FALSE)
      BY <1>1, <2>2
    <3>2. CASE At(D) \in {Space, Nul, Dash}
      <4>1. more = vis
        BY <1>4, <1>5, <1>7, <2>2, <3>2, CharactersDiffer, DelimitersAre DEF Visible
      <4>2. b + n - 1 = D + vis - 1
        <5>1. PICK x \in Nat, y \in Nat : x = b /\ y = D
          BY <1>1
        <5>2. n = y - x + vis
          BY <1>9, <4>1, <5>1
        <5> QED
          BY <5>1, <5>2
      <4> QED
        BY <1>11, <1>14, <1>15, <3>1, <4>2
    <3>3. CASE At(D) \in {Cr, SoftHyphen}
      <4>1. more = 1 /\ vis = 0
        BY <1>4, <1>5, <1>7, <2>2, <3>3, CharactersDiffer DEF Visible
      <4>2. b + n - 1 = D /\ n > 0 /\ D + vis - 1 = D - 1
        BY <1>1, <1>2, <1>9, <4>1
      <4>3. GlyphsIn(b, D) = GlyphsIn(b, D - 1) + (IF At(D) = Cr THEN 0 ELSE 1)
        <5>1. PICK e \in Int : e = D - 1 /\ b \in Int /\ D \in Int /\ b <= D
          BY <1>1, <1>2
        <5>2. GlyphsIn(b, D) = GlyphsIn(b, e) + (IF At(D) = Cr THEN 0 ELSE 1)
          BY <5>1, GlyphsUpTo, Zenon
        <5> QED
          BY <5>1, <5>2
      <4>4. Glyphs(chars) = GlyphsIn(b, D) /\ WidthTaken(FALSE) = GlyphsIn(b, D - 1)
        BY <1>11, <1>14, <1>15, <4>2
      <4>5. CASE At(D) = Cr
        <5>1. PICK g \in Nat, x \in Int, y \in Nat :
                /\ g = Glyphs(chars) /\ x = Measured(chars) /\ x <= g
                /\ y = GlyphsIn(b, D - 1) /\ y = WidthTaken(FALSE)
          BY <1>11, <1>14, <1>15, <4>4
        <5>2. g = y
          BY <4>3, <4>4, <4>5, <5>1
        <5> QED
          BY <3>1, <5>1, <5>2
      <4>6. CASE At(D) = SoftHyphen
        <5>1. Measured(chars) = Glyphs(chars) - 1
          BY <1>14, <1>15, <4>2, <4>6
        <5>2. PICK y \in Nat : y = WidthTaken(FALSE)
          BY <1>11
        <5>3. Glyphs(chars) = y + 1
          BY <4>3, <4>4, <4>6, <5>2, CharactersDiffer
        <5>4. Measured(chars) = y
          BY <5>1, <5>3
        <5>5. y <= y
          OBVIOUS
        <5>6. Measured(chars) <= WidthTaken(FALSE)
          BY <5>2, <5>4, <5>5, Zenon
        <5> QED
          BY <3>1, <5>6, Zenon
      <4> QED
        BY <3>3, <4>5, <4>6
    <3> QED
      BY <1>2, <3>2, <3>3 DEF Visible
  <2> QED
    BY <2>1, <2>2
<1>16. ASSUME n >= 0, ~line.parend PROVE SpacesLeft = Blanks(b, b + n - 1)
  <2>1. PICK e \in Int : e = D - 1
    BY <1>1
  <2>2. /\ At(D) # Space => Blanks(b, e) = Blanks(b, D)
        /\ At(D) = Space => Blanks(b, e) = Blanks(b, D) - 1
    <3>1. /\ \A k \in Int : k = D - 1 /\ At(D) # Space => Blanks(b, k) = Blanks(b, D)
          /\ \A k \in Int : k = D - 1 /\ At(D) = Space => Blanks(b, k) = Blanks(b, D) - 1
      BY <1>1, <1>2, BlanksUpTo, Zenon
    <3> QED
      BY <2>1, <3>1, Zenon
  <2>3. b + n - 1 = IF At(D) \in Visible THEN D ELSE e
    BY <1>1, <1>4, <1>5, <1>9, <1>16, <2>1
  <2>4. SpacesLeft = IF At(D) = Space THEN Blanks(b, D) - 1 ELSE Blanks(b, D)
    BY <1>2 DEF SpacesLeft
  <2> QED
    BY <1>2, <2>2, <2>3, <2>4, DelimitersAre
<1> HIDE DEF chars
<1>17. /\ chars = From(textcopy, b, D - b + MorecharsLeft)
       /\ n = D - b + MorecharsLeft
  BY <1>5, <1>9 DEF chars
<1> QED
  BY <1>10, <1>11, <1>13, <1>14, <1>15, <1>16, <1>17

\* A line that ends at a delimiter.
LEMMA WholeLine ==
  ASSUME Typed, Nothing \/ WordTaken \/ WordLeft, ~Collecting,
         NEW n \in Nat, n = at.lastdelim - at.lastbreak + MorecharsLeft
  PROVE  LET chars == From(textcopy, at.lastbreak, n)
         IN  /\ chars \in Seq(Char)
             /\ \/ Measured(chars) < Linewidth
                \/ \A k \in 1..Len(chars) - 1 : chars[k] \notin Delimiters
             /\ Linewidth > 0 /\ ~line.parend
                  => SpacesLeft = Cardinality({k \in DOMAIN chars : chars[k] = Space})
<1> DEFINE b == at.lastbreak
           D == at.lastdelim
           chars == From(textcopy, b, n)
<1>1. /\ textcopy \in Seq(Char) /\ D \in Nat /\ b \in Nat /\ Len(textcopy) \in Nat
      /\ at.curpos \in Nat /\ line.parend \in BOOLEAN /\ line.hlen \in Nat
      /\ line.oldhlen \in Nat /\ Linewidth \in Int
  BY LenProperties, LinewidthIs DEF Typed
<1>2. b + n <= Len(textcopy)
  <2>1. CASE Nothing
    <3>1. MorecharsLeft \in {-1, 0, 1}
      BY DEF MorecharsLeft
    <3>2. D <= b /\ b < Len(textcopy)
      BY <1>1, <2>1 DEF Nothing, AtLineStart
    <3> QED
      BY <1>1, <3>1, <3>2
  <2>2. CASE Taken
    BY <1>1, <2>2, TakenIs
  <2> QED
    BY <2>1, <2>2 DEF WordTaken, WordLeft
<1>3. /\ chars \in Seq(Char) /\ Len(chars) = n /\ DOMAIN chars = 1..n
      /\ \A j \in 1..n : chars[j] = At(b + j - 1)
      /\ Cardinality({j \in DOMAIN chars : chars[j] = Space}) = Blanks(b, b + n - 1)
  BY <1>1, <1>2, Copied
<1> HIDE DEF chars
<1> SUFFICES /\ Measured(chars) < Linewidth \/ \A k \in 1..n - 1 : chars[k] \notin Delimiters
             /\ Linewidth > 0 /\ ~line.parend => SpacesLeft = Blanks(b, b + n - 1)
  BY <1>3 DEF chars
<1>4. CASE Nothing
  <2>1. ~(line.hlen < Linewidth)
    BY <1>1, <1>4, AtIs DEF Nothing, Collecting
  <2>2. Linewidth <= 0
    BY <1>1, <1>4, <2>1 DEF Nothing
  <2>3. n <= 1
    <3>1. MorecharsLeft \in {-1, 0, 1}
      BY DEF MorecharsLeft
    <3>2. D <= b
      BY <1>1, <1>4 DEF Nothing, AtLineStart
    <3> QED
      BY <1>1, <3>1, <3>2
  <2>4. 1..n - 1 = {}
    BY <2>3
  <2> QED
    BY <1>1, <2>2, <2>4
<1>5. CASE Taken /\ ~Nothing
  <2>1. /\ n <= D - b + 1 /\ Measured(chars) \in Int /\ WidthTaken(FALSE) \in Nat
        /\ Measured(chars) <= WidthTaken(line.parend)
        /\ Measured(chars) <= WidthTaken(FALSE)
        /\ ~line.parend => SpacesLeft = Blanks(b, b + n - 1)
    <3>1. n >= 0
      OBVIOUS
    <3> QED
      BY <1>5, <3>1, TakenIs DEF chars
  <2>2. CASE Measured(chars) < Linewidth
    BY <2>1, <2>2
  <2>3. CASE ~(Measured(chars) < Linewidth)
    <3>1. WordTaken
      <4>1. ASSUME WordLeft PROVE FALSE
        <5>1. PICK width \in Nat, lw \in Int : width = WidthTaken(FALSE) /\ lw = Linewidth
          BY <1>1, <2>1
        <5>2. Measured(chars) <= width /\ width < lw /\ ~(Measured(chars) < lw)
          BY <2>1, <2>3, <4>1, <5>1 DEF WordLeft
        <5> QED
          BY <2>1, <5>2
      <4> QED
        BY <1>5, <4>1
    <3>2. \A k \in b..D - 1 : At(k) \notin Delimiters
      <4>1. PICK width \in Nat, lw \in Int : width = line.hlen /\ lw = Linewidth
        BY <1>1
      <4>2. ~(width < lw)
        <5>1. Measured(chars) <= width
          BY <2>1, <3>1, <4>1 DEF WordTaken
        <5> QED
          BY <2>1, <2>3, <4>1, <5>1
      <4> QED
        BY <3>1, <4>1, <4>2 DEF WordTaken
    <3>3. ASSUME NEW j \in 1..n - 1 PROVE chars[j] \notin Delimiters
      <4>1. j \in 1..n /\ b + j - 1 \in b..D - 1
        BY <1>1, <2>1
      <4> QED
        BY <1>3, <3>2, <4>1
    <3> QED
      BY <2>1, <3>3
  <2> QED
    BY <2>2, <2>3
<1> QED
  BY <1>4, <1>5 DEF WordTaken, WordLeft

\* A line that ends with a hyphen.
LEMMA BrokenLine ==
  ASSUME Typed, Nothing \/ WordTaken \/ WordLeft, Hyphenating, LastHyphen # 0,
         NEW n \in Int, n = at.lastdelim + LastHyphen - at.lastbreak + 1
  PROVE  LET chars == From(textcopy, at.lastbreak, n)
         IN  /\ n \in Nat /\ chars \in Seq(Char) /\ Len(chars) = n
             /\ Glyphs(chars) \in Nat /\ Glyphs(chars) + 1 < Linewidth
             /\ line.spaces = Cardinality({k \in DOMAIN chars : chars[k] = Space})
             /\ MinChars >= 3 =>
                  /\ At(at.lastdelim + LastHyphen + 1) \notin Delimiters
                  /\ \A k \in 0..MinChars - 1 : chars[n - k] \notin Delimiters
<1> DEFINE b == at.lastbreak
           D == at.lastdelim
           p == at.curpos
           chars == From(textcopy, b, n)
<1>1. /\ textcopy \in Seq(Char) /\ D \in Nat /\ b \in Nat /\ p \in Nat
      /\ Len(textcopy) \in Nat /\ line.oldhlen \in Nat /\ Linewidth \in Int
      /\ MinChars \in Nat \ {0}
  BY LenProperties, LinewidthIs, MinCharsAssumption DEF Typed
<1>2. PICK hp \in Nat : hp = LastHyphen
  BY BrokenWord, Zenon
<1>3. /\ WordLeft /\ At(D) \in Visible \cup {Space} /\ ~line.parend
      /\ hp >= MinChars /\ GlyphsIn(D, D + hp) + 1 < Linewidth - line.oldhlen
      /\ D + hp + MinChars <= p + 1 /\ D + hp + MinChars < Len(textcopy)
      /\ \A k \in D + 1..D + hp : At(k) # Space
  BY <1>2, BrokenWord
<1>4. /\ Taken /\ b <= D /\ line.spaces = Blanks(b, D)
      /\ line.oldhlen = WidthTaken(FALSE) /\ GlyphsIn(b, D - 1) <= line.oldhlen
  BY <1>3, TakenIs DEF WordLeft, Taken
<1>5. n = D + hp - b + 1
  BY <1>2
<1> HIDE DEF D, b, p
<1>6. n \in Nat /\ b + n <= Len(textcopy) /\ b + n - 1 = D + hp
  <2>1. D + hp + MinChars < Len(textcopy) /\ b <= D
    BY <1>3, <1>4
  <2> QED
    BY <1>1, <1>5, <2>1
<1>7. /\ chars \in Seq(Char) /\ Len(chars) = n /\ DOMAIN chars = 1..n
      /\ \A j \in 1..n : chars[j] = At(b + j - 1)
      /\ Cardinality({j \in DOMAIN chars : chars[j] = Space}) = Blanks(b, b + n - 1)
      /\ Glyphs(chars) = GlyphsIn(b, b + n - 1)
  BY <1>1, <1>6, Copied
<1>8. Blanks(b, b + n - 1) = Blanks(b, D)
  <2>1. b + n - 1 = D + hp
    BY <1>1, <1>5
  <2>2. {k \in b..D + hp : At(k) = Space} = {k \in b..D : At(k) = Space}
    BY <1>1, <1>3
  <2> QED
    BY <2>1, <2>2 DEF Blanks
<1>9. ASSUME MinChars >= 3, NEW k \in D + 1..D + hp + 1 PROVE At(k) \notin Delimiters
  <2>1. k \in D + 1..p - 1
    BY <1>1, <1>3, <1>9
  <2> QED
    BY <1>3, <2>1 DEF WordLeft, D, p
<1>10. ASSUME MinChars >= 3, NEW k \in 0..MinChars - 1 PROVE chars[n - k] \notin Delimiters
  <2>1. PICK j \in Int : j = n - k
    OBVIOUS
  <2>2. j \in 1..n /\ b + j - 1 \in D + 1..D + hp + 1
    BY <1>1, <1>3, <1>4, <1>5, <2>1
  <2>3. At(b + j - 1) \notin Delimiters
    BY <1>9, <1>10, <2>2
  <2> QED
    BY <1>7, <2>1, <2>2, <2>3
<1>11. MinChars >= 3 => At(D + hp + 1) \notin Delimiters
  BY <1>1, <1>9
<1> HIDE DEF chars
<1>12. Glyphs(chars) \in Nat /\ Glyphs(chars) + 1 < Linewidth
  <2>1. /\ GlyphsIn(b, D + hp) <= GlyphsIn(b, D - 1) + GlyphsIn(D, D + hp)
        /\ GlyphsIn(b, D + hp) \in Nat /\ GlyphsIn(b, D - 1) \in Nat
        /\ GlyphsIn(D, D + hp) \in Nat
    <3>1. /\ D + hp \in Int /\ D - 1 \in Int /\ D \in Int /\ b \in Int
          /\ b <= D /\ D <= (D + hp) + 1 /\ D - 1 = D - 1
      BY <1>1, <1>4
    <3> QED
      BY <3>1, GlyphsSplit, Zenon
  <2>2. PICK lw \in Int, old \in Nat : lw = Linewidth /\ old = line.oldhlen
    BY <1>1
  <2>3. GlyphsIn(D, D + hp) + 1 < lw - old /\ GlyphsIn(b, D - 1) <= old
    BY <1>3, <1>4, <2>2
  <2>4. Glyphs(chars) = GlyphsIn(b, D + hp)
    BY <1>6, <1>7
  <2> QED
    BY <2>1, <2>2, <2>3, <2>4
<1> QED
  BY <1>2, <1>4, <1>6, <1>7, <1>8, <1>10, <1>11, <1>12 DEF chars, b, D

\* The same of a line that is broken within a word, or not.
MeasuredLine(s, broken) == IF broken THEN Glyphs(s) + 1 ELSE Measured(s)

\* A line of n characters, the last hp of them those of a broken word.
Shows(hp, n, spaces) ==
  LET chars == From(textcopy, at.lastbreak, n)
  IN  /\ hp \in Nat /\ spaces \in Int /\ chars \in Seq(Char)
      /\ \/ MeasuredLine(chars, hp > 0) < Linewidth
         \/ \A k \in 1..Len(chars) - 1 : chars[k] \notin Delimiters
      /\ Linewidth > 0 /\ ~line.parend
           => spaces = Cardinality({k \in DOMAIN chars : chars[k] = Space})
      /\ MinChars >= 3 /\ hp > 0
           => /\ At(at.lastdelim + hp + 1) \notin Delimiters
              /\ \A k \in 0..MinChars - 1 : chars[Len(chars) - k] \notin Delimiters
      /\ hp > 0 => at.lastdelim + hp < Len(textcopy)

LEMMA ShownIs ==
  ASSUME Typed, Nothing \/ WordTaken \/ WordLeft, ~Collecting,
         NEW hp, hp = IF Hyphenating THEN LastHyphen ELSE 0,
         NEW n, n = (at.lastdelim + hp) - at.lastbreak + (IF hp > 0 THEN 1 ELSE MorecharsLeft),
         ~(n < 0),
         NEW spaces,
         spaces = IF hp > 0 /\ At(at.lastdelim) = Space THEN SpacesLeft + 1 ELSE SpacesLeft
  PROVE  Shows(hp, n, spaces)
<1> DEFINE chars == From(textcopy, at.lastbreak, n)
<1>1. /\ at.lastdelim \in Nat /\ at.lastbreak \in Nat /\ line.spaces \in Nat
      /\ textcopy \in Seq(Char) /\ MinChars \in Nat \ {0}
  BY MinCharsAssumption DEF Typed
<1>2. SpacesLeft \in Int /\ MorecharsLeft \in Int
  BY <1>1 DEF SpacesLeft, MorecharsLeft
<1>3. CASE hp = 0
  <2>1. ~(hp > 0) /\ hp \in Nat /\ spaces = SpacesLeft
    BY <1>3
  <2>2. n \in Nat /\ n = at.lastdelim - at.lastbreak + MorecharsLeft
    BY <1>1, <1>2, <1>3, <2>1
  <2>3. /\ chars \in Seq(Char)
        /\ \/ Measured(chars) < Linewidth
           \/ \A k \in 1..Len(chars) - 1 : chars[k] \notin Delimiters
        /\ Linewidth > 0 /\ ~line.parend
             => SpacesLeft = Cardinality({k \in DOMAIN chars : chars[k] = Space})
    BY <2>2, WholeLine
  <2>4. MeasuredLine(chars, hp > 0) = Measured(chars)
    BY <2>1 DEF MeasuredLine
  <2> HIDE DEF chars
  <2> QED
    BY <1>2, <2>1, <2>3, <2>4 DEF chars, Shows
<1>4. CASE hp # 0
  <2>1. Hyphenating /\ LastHyphen # 0 /\ hp = LastHyphen
    BY <1>4
  <2>2. /\ hp \in Nat /\ At(at.lastdelim) \in Visible \cup {Space}
        /\ at.lastdelim + hp + MinChars < Len(textcopy)
    BY <2>1, BrokenWord
  <2>3. /\ hp > 0 /\ n \in Int /\ n = at.lastdelim + hp - at.lastbreak + 1
        /\ at.lastdelim + hp < Len(textcopy)
    <3>1. hp > 0
      BY <1>4, <2>2
    <3> QED
      BY <1>1, <2>2, <3>1, LenProperties
  <2>4. spaces = line.spaces
    <3>1. At(at.lastdelim) = Space => spaces = line.spaces - 1 + 1
      BY <2>3 DEF SpacesLeft
    <3>2. At(at.lastdelim) # Space => spaces = line.spaces
      BY <2>3 DEF SpacesLeft
    <3> QED
      BY <1>1, <3>1, <3>2
  <2>5. /\ n \in Nat /\ chars \in Seq(Char) /\ Len(chars) = n
        /\ Glyphs(chars) + 1 < Linewidth
        /\ line.spaces = Cardinality({k \in DOMAIN chars : chars[k] = Space})
        /\ MinChars >= 3 =>
             /\ At(at.lastdelim + hp + 1) \notin Delimiters
             /\ \A k \in 0..MinChars - 1 : chars[n - k] \notin Delimiters
    BY <2>1, <2>3, BrokenLine
  <2> HIDE DEF chars
  <2>6. MeasuredLine(chars, hp > 0) < Linewidth
    BY <2>3, <2>5 DEF MeasuredLine
  <2>7. spaces \in Int
    BY <1>1, <2>4
  <2> QED
    BY <2>2, <2>3, <2>4, <2>5, <2>6, <2>7 DEF chars, Shows
<1> QED
  BY <1>3, <1>4

LEMMA EndLineShows ==
  ASSUME Typed, Nothing \/ WordTaken \/ WordLeft, EndLine, pc' # "crashed"
  PROVE  /\ Typed' /\ BetweenLines' /\ pc' = "outer"
         /\ \E l \in ShownLine :
              /\ out' = Append(out, l)
              /\ FitsIn(l)
              /\ Linewidth > 0 => CountsBlanks(l)
              /\ MinChars >= 3 => BreaksWithin(l)
<1> DEFINE hp == IF Hyphenating THEN LastHyphen ELSE 0
           spaces == IF hp > 0 /\ At(at.lastdelim) = Space THEN SpacesLeft + 1 ELSE SpacesLeft
           d == at.lastdelim + hp
           n == d - at.lastbreak + (IF hp > 0 THEN 1 ELSE MorecharsLeft)
<1>0. /\ hp = IF Hyphenating THEN LastHyphen ELSE 0
      /\ d = at.lastdelim + hp
      /\ n = (at.lastdelim + hp) - at.lastbreak + (IF hp > 0 THEN 1 ELSE MorecharsLeft)
      /\ spaces = IF hp > 0 /\ At(at.lastdelim) = Space THEN SpacesLeft + 1 ELSE SpacesLeft
  <2> HIDE DEF hp
  <2>1. n = (at.lastdelim + hp) - at.lastbreak + (IF hp > 0 THEN 1 ELSE MorecharsLeft)
    BY Zenon
  <2>2. spaces = IF hp > 0 /\ At(at.lastdelim) = Space THEN SpacesLeft + 1 ELSE SpacesLeft
    BY Zenon
  <2>3. d = at.lastdelim + hp
    BY Zenon
  <2>4. hp = IF Hyphenating THEN LastHyphen ELSE 0
    BY Zenon DEF hp
  <2> HIDE DEF n, spaces, d
  <2> QED
    BY <2>1, <2>2, <2>3, <2>4, Zenon
<1>1. /\ ~(n < 0)
      /\ out' = Append(out,
           [chars |-> From(textcopy, at.lastbreak, n), hyphen |-> hp > 0,
            spaces |-> spaces, stretched |-> Stretch(spaces, d),
            linewidth |-> Linewidth, next |-> At(d + 1)])
      /\ at' = [lastdelim |-> d, lastbreak |-> d + 1,
                curpos |-> IF At(d) # Nul THEN d + 1 ELSE at.curpos]
      /\ ypos' = ypos - 1
      /\ par' = IF line.parend
                THEN [parlinecounter |-> 0, parcounter |-> par.parcounter + 1]
                ELSE [par EXCEPT !.parlinecounter = @ + 1]
      /\ pc' = "outer"
  BY Zenon DEF EndLine
<1> HIDE DEF hp, spaces, d, n
<1>2. ~Collecting /\ UNCHANGED <<all, box, textcopy, line, ret>>
  BY DEF EndLine
<1>3. /\ at.lastdelim \in Nat /\ at.curpos \in Nat /\ textcopy \in Seq(Char)
      /\ ypos \in Int /\ Linewidth \in Int
  BY LinewidthIs DEF Typed
<1> DEFINE chars == From(textcopy, at.lastbreak, n)
<1>4. /\ hp \in Nat /\ spaces \in Int /\ chars \in Seq(Char)
      /\ \/ MeasuredLine(chars, hp > 0) < Linewidth
         \/ \A k \in 1..Len(chars) - 1 : chars[k] \notin Delimiters
      /\ Linewidth > 0 /\ ~line.parend
           => spaces = Cardinality({k \in DOMAIN chars : chars[k] = Space})
      /\ MinChars >= 3 /\ hp > 0
           => /\ At(d + 1) \notin Delimiters
              /\ \A k \in 0..MinChars - 1 : chars[Len(chars) - k] \notin Delimiters
      /\ hp > 0 => d < Len(textcopy)
  <2>1. /\ hp \in Nat /\ spaces \in Int /\ chars \in Seq(Char)
        /\ \/ MeasuredLine(chars, hp > 0) < Linewidth
           \/ \A k \in 1..Len(chars) - 1 : chars[k] \notin Delimiters
        /\ Linewidth > 0 /\ ~line.parend
             => spaces = Cardinality({k \in DOMAIN chars : chars[k] = Space})
        /\ MinChars >= 3 /\ hp > 0
             => /\ At(at.lastdelim + hp + 1) \notin Delimiters
                /\ \A k \in 0..MinChars - 1 : chars[Len(chars) - k] \notin Delimiters
        /\ hp > 0 => at.lastdelim + hp < Len(textcopy)
    <3>1. ~(n < 0)
      BY <1>1
    <3>2. Shows(hp, n, spaces)
      BY <1>0, <1>2, <3>1, ShownIs, Zenon
    <3> QED
      BY <3>2, Zenon DEF Shows
  <2>2. at.lastdelim + hp = d
    BY <1>0
  <2> HIDE DEF chars
  <2> QED
    BY <2>1, <2>2, Zenon
<1> HIDE DEF chars
<1>5. d \in Nat /\ At(d + 1) \in Char \cup {Nul} /\ (At(d) = Nul <=> d >= Len(textcopy))
  <2>1. d \in Nat
    BY <1>0, <1>3, <1>4
  <2>2. PICK k \in Nat : k = d + 1
    BY <2>1
  <2> QED
    BY <1>3, <2>1, <2>2, AtIs
<1>6. PICK l \in ShownLine :
        /\ out' = Append(out, l) /\ l.chars = chars /\ l.hyphen = (hp > 0)
        /\ l.spaces = spaces /\ l.stretched = Stretch(spaces, d)
        /\ l.linewidth = Linewidth /\ l.next = At(d + 1)
  <2>1. PICK hyphen \in BOOLEAN : hyphen = (hp > 0)
    <3>1. hp \in Nat
      BY <1>4
    <3>2. (hp > 0) \in BOOLEAN
      BY <3>1
    <3> QED
      BY <3>2, Zenon
  <2>2. PICK stretched \in BOOLEAN : stretched = Stretch(spaces, d)
    BY Zenon DEF Stretch
  <2>3. out' = Append(out, [chars |-> chars, hyphen |-> hyphen, spaces |-> spaces,
                            stretched |-> stretched, linewidth |-> Linewidth,
                            next |-> At(d + 1)])
    BY <1>1, <2>1, <2>2, Zenon DEF chars
  <2>4. [chars |-> chars, hyphen |-> hyphen, spaces |-> spaces, stretched |-> stretched,
         linewidth |-> Linewidth, next |-> At(d + 1)] \in ShownLine
    BY <1>3, <1>4, <1>5 DEF ShownLine
  <2> QED
    BY <2>1, <2>2, <2>3, <2>4
<1>7. FitsIn(l)
  <2>1. Reckoned(l) = MeasuredLine(chars, hp > 0)
    BY <1>6 DEF Reckoned, MeasuredLine, Measured
  <2> QED
    BY <1>4, <1>6, <2>1 DEF FitsIn
<1>8. Linewidth > 0 => CountsBlanks(l)
  <2>1. l.stretched => ~line.parend
    BY <1>6 DEF Stretch
  <2> QED
    BY <1>4, <1>6, <2>1 DEF CountsBlanks
<1>9. MinChars >= 3 => BreaksWithin(l)
  BY <1>4, <1>6 DEF BreaksWithin
<1>10. /\ at' \in [curpos : Nat, lastbreak : Nat, lastdelim : Nat]
       /\ at'.lastdelim = d /\ at'.lastbreak = d + 1
       /\ at'.curpos = IF At(d) # Nul THEN d + 1 ELSE at.curpos
  BY <1>1, <1>3, <1>5
<1>11. Typed'
  <2>1. par' \in [parlinecounter : Nat, parcounter : Nat]
    <3>1. par \in [parlinecounter : Nat, parcounter : Nat]
      BY DEF Typed
    <3>2. CASE line.parend
      <4>1. par' = [parlinecounter |-> 0, parcounter |-> par.parcounter + 1]
        BY <1>1, <3>2
      <4> QED
        BY <3>1, <4>1
    <3>3. CASE ~line.parend
      <4>1. par' = [par EXCEPT !.parlinecounter = @ + 1]
        BY <1>1, <3>3
      <4> QED
        BY <3>1, <4>1
    <3> QED
      BY <3>2, <3>3
  <2>2. out' \in Seq(ShownLine)
    BY <1>6, AppendProperties DEF Typed
  <2>3. ShownLine' = ShownLine
    BY DEF ShownLine
  <2>4. ypos' \in Int
    BY <1>1, <1>3
  <2> QED
    BY <1>1, <1>2, <1>10, <2>1, <2>2, <2>3, <2>4 DEF Typed
<1>12. BetweenLines'
  <2>1. Len(textcopy) \in Nat
    BY <1>3, LenProperties
  <2>2. CASE At(d) # Nul
    BY <1>2, <1>5, <1>10, <2>1, <2>2 DEF BetweenLines, AtLineStart
  <2>3. CASE At(d) = Nul
    <3>1. hp = 0 /\ d = at.lastdelim /\ d >= Len(textcopy)
      <4>1. hp \in Nat /\ (hp > 0 => d < Len(textcopy))
        BY <1>4
      <4> QED
        BY <1>0, <1>3, <1>5, <2>1, <2>3, <4>1
    <3>2. ~Nothing /\ ~WordLeft
      <4>1. PICK D \in Nat, b \in Nat, p \in Nat, m \in Nat :
              D = at.lastdelim /\ b = at.lastbreak /\ p = at.curpos /\ m = Len(textcopy)
        BY <1>3, <2>1 DEF Typed
      <4>2. D >= m
        BY <3>1, <4>1
      <4>3. ASSUME Nothing PROVE FALSE
        <5>1. p < m /\ p = b /\ D <= b
          BY <4>1, <4>3 DEF Nothing, AtLineStart
        <5> QED
          BY <4>2, <5>1
      <4>4. ASSUME WordLeft PROVE FALSE
        <5>1. D < p /\ p <= m
          BY <4>1, <4>4 DEF WordLeft
        <5> QED
          BY <4>2, <5>1
      <4> QED
        BY <4>3, <4>4
    <3>3. WordTaken
      BY <3>2
    <3>4. at.curpos = Len(textcopy)
      BY <1>3, <2>1, <2>3, <3>1, <3>3 DEF WordTaken, Taken
    <3> QED
      BY <1>2, <1>10, <2>1, <2>3, <3>4 DEF BetweenLines
  <2> QED
    BY <2>2, <2>3
<1> QED
  BY <1>1, <1>6, <1>7, <1>8, <1>9, <1>11, <1>12

----------------------------------------------------------------------------
(* Every step.                                                             *)

\* The texts of two calls: a new one, and the rest of one.
LEMMA EnterKeeps ==
  ASSUME Typed, NEW t \in Seq(Char), Enter(t), UNCHANGED <<box, out, ret>>,
         all' \in Seq(Char), Len(t) <= Len(all')
  PROVE  Typed' /\ BetweenLines' /\ pc' = "outer"
<1>1. /\ textcopy' = t /\ pc' = "outer"
      /\ at' = [curpos |-> 0, lastbreak |-> 0, lastdelim |-> 0]
      /\ line' = NoLine /\ par' = [parlinecounter |-> 0, parcounter |-> 0]
      /\ ypos' = box.height - 1
  BY DEF Enter
<1>2. box.height - 1 \in Int
  BY DEF Typed, Box
<1>3. Typed'
  BY <1>1, <1>2 DEF Typed, NoLine, ShownLine
<1>4. BetweenLines'
  BY <1>1, LenProperties DEF BetweenLines, AtLineStart
<1> QED
  BY <1>1, <1>3, <1>4

LEMMA LineInit == Init => LineInv
<1> SUFFICES ASSUME Init PROVE LineInv
  OBVIOUS
<1>1. box \in Box
  BY BoxesAssumption DEF Init
<1>2. << >> \in Seq(Char) /\ << >> \in Seq(ShownLine) /\ Len(<< >>) = 0
  OBVIOUS
<1> QED
  BY <1>1, <1>2 DEF Init, LineInv, Typed, NoLine, ShownLine

LEMMA LineStep == LineInv /\ [Next]_vars => LineInv'
<1> SUFFICES ASSUME LineInv, [Next]_vars PROVE LineInv'
  OBVIOUS
<1>1. /\ Typed /\ textcopy \in Seq(Char) /\ all \in Seq(Char) /\ at.curpos \in Nat
      /\ Len(textcopy) \in Nat /\ Len(all) \in Nat /\ Len(textcopy) <= Len(all)
  BY LenProperties DEF LineInv, Typed
<1>2. ASSUME NEW t \in Texts, PS_show_boxed(t) PROVE LineInv'
  <2>1. t \in Seq(Char) /\ all' = t /\ Enter(t) /\ UNCHANGED <<box, out, ret>>
    BY <1>2, TextOfChar DEF PS_show_boxed
  <2>2. Len(t) <= Len(t)
    BY <2>1, LenProperties
  <2> QED
    BY <1>1, <2>1, <2>2, EnterKeeps DEF LineInv
<1>3. CASE Continue
  <2> DEFINE t == SubSeq(all, Len(all) - ret + 1, Len(all))
  <2>1. /\ pc = "returned" /\ ret > 0 /\ Enter(t) /\ UNCHANGED <<all, box, out, ret>>
    BY <1>3 DEF Continue
  <2>2. ret \in 1..Len(all)
    <3>1. ret \in Nat
      BY <1>1 DEF Typed
    <3>2. ret <= Len(all)
      BY <2>1 DEF LineInv
    <3> QED
      BY <1>1, <2>1, <3>1, <3>2
  <2>3. t \in Seq(Char) /\ Len(t) <= Len(all)
    <3>1. PICK m \in 1..Len(all), n \in Nat : m = Len(all) - ret + 1 /\ n = Len(all)
      <4>1. Len(all) - ret + 1 \in 1..Len(all)
        BY <1>1, <2>2
      <4> QED
        BY <1>1, <4>1
    <3>2. /\ SubSeq(all, m, n) \in Seq(Char)
          /\ Len(SubSeq(all, m, n)) = IF m <= n THEN n - m + 1 ELSE 0
      BY <1>1, <3>1, SubSeqProperties
    <3>3. (IF m <= n THEN n - m + 1 ELSE 0) <= n
      BY <3>1
    <3> QED
      BY <3>1, <3>2, <3>3
  <2> HIDE DEF t
  <2> QED
    BY <1>1, <2>1, <2>3, EnterKeeps DEF LineInv
<1>4. CASE StartLine
  <2>1. /\ pc = "outer" /\ At(at.curpos) # Nul
        /\ line' = [NoLine EXCEPT !.prevchar = line.prevchar] /\ pc' = "inner"
        /\ UNCHANGED <<all, box, textcopy, at, par, ypos, out, ret>>
    BY <1>4 DEF StartLine
  <2>2. line.prevchar \in Char \cup {Nul}
    BY DEF LineInv, Typed
  <2>3. Typed'
    BY <2>1, <2>2 DEF LineInv, Typed, NoLine, ShownLine
  <2>4. at.curpos < Len(textcopy) /\ AtLineStart
    BY <1>1, <2>1, AtIs DEF LineInv, BetweenLines
  <2>5. Nothing'
    BY <2>1, <2>4 DEF Nothing, AtLineStart, NoLine
  <2> QED
    BY <2>1, <2>3, <2>5 DEF LineInv
<1>5. CASE NextWord
  <2>1. Nothing \/ WordTaken
    <3>1. Nothing \/ WordTaken \/ WordLeft
      BY <1>5 DEF LineInv, NextWord
    <3>2. ~WordLeft
      <4>1. line.hlen \in Nat /\ Linewidth \in Int
        BY <1>1, LinewidthIs DEF Typed
      <4> QED
        <5>1. PICK h \in Nat, w \in Int : h = line.hlen /\ w = Linewidth
          BY <4>1
        <5>2. h < w
          BY <1>5, <5>1 DEF NextWord, Collecting
        <5>3. WordLeft => h >= w
          BY <5>1 DEF WordLeft
        <5> QED
          BY <5>2, <5>3
    <3> QED
      BY <3>1, <3>2
  <2>2. Typed' /\ (WordTaken' \/ WordLeft') /\ pc' = "inner"
    BY <1>1, <1>5, <2>1, NextWordKeeps
  <2> QED
    BY <2>2 DEF LineInv
<1>6. CASE EndLine
  <2>1. Nothing \/ WordTaken \/ WordLeft
    BY <1>6 DEF LineInv, EndLine
  <2>2. CASE pc' # "crashed"
    <3>1. Typed' /\ BetweenLines' /\ pc' = "outer"
      BY <1>1, <1>6, <2>1, <2>2, EndLineShows
    <3> QED
      BY <3>1 DEF LineInv
  <2>3. CASE pc' = "crashed"
    <3>1. UNCHANGED <<all, box, textcopy, line, ret>>
      BY <1>6 DEF EndLine
    <3>2. UNCHANGED <<at, par, ypos, out>>
      BY <1>6, <2>3 DEF EndLine
    <3>3. Typed'
      BY <1>1, <2>3, <3>1, <3>2 DEF Typed, ShownLine
    <3> QED
      BY <2>3, <3>3 DEF LineInv
  <2> QED
    BY <2>2, <2>3
<1>7. CASE Return
  <2>1. /\ pc = "outer" /\ pc' = "returned"
        /\ ret' = IF at.curpos = Len(textcopy) THEN 0 ELSE Len(textcopy) - at.curpos
        /\ UNCHANGED <<all, box, textcopy, at, line, par, ypos, out>>
    BY <1>7 DEF Return
  <2>2. at.curpos <= Len(textcopy)
    BY <2>1 DEF LineInv, BetweenLines
  <2>3. ret' \in Nat /\ ret' <= Len(all)
    BY <1>1, <2>1, <2>2
  <2>4. Typed'
    BY <1>1, <2>1, <2>3 DEF Typed, ShownLine
  <2> QED
    BY <2>1, <2>3, <2>4 DEF LineInv
<1>8. CASE UNCHANGED vars
  BY <1>8 DEF vars, LineInv, Typed, BetweenLines, AtLineStart, Nothing, WordTaken,
              WordLeft, Taken, WidthTaken, StringWidth, Glyphs, Blanks, At, Linewidth, Doindent,
              Morechars, ShownLine, Delimiters
<1> QED
  BY <1>2, <1>3, <1>4, <1>5, <1>6, <1>7, <1>8 DEF Next, Step

\* Every line that is shown is one of words that were collected.
LEMMA LinesShown ==
  ASSUME LineInv, [Next]_vars
  PROVE  \/ UNCHANGED out
         \/ /\ pc = "inner"
            /\ \E l \in ShownLine :
                 /\ out' = Append(out, l)
                 /\ FitsIn(l)
                 /\ Linewidth > 0 => CountsBlanks(l)
                 /\ MinChars >= 3 => BreaksWithin(l)
<1>1. CASE EndLine
  <2>1. Typed /\ (Nothing \/ WordTaken \/ WordLeft) /\ pc = "inner"
    BY <1>1 DEF LineInv, EndLine
  <2>2. CASE pc' # "crashed"
    BY <1>1, <2>1, <2>2, EndLineShows
  <2>3. CASE pc' = "crashed"
    BY <1>1, <2>3 DEF EndLine
  <2> QED
    BY <2>2, <2>3
<1>2. CASE ~EndLine
  BY <1>2 DEF Next, Step, PS_show_boxed, Continue, StartLine, NextWord, Return, vars
<1> QED
  BY <1>1, <1>2

LEMMA ToSetOfAppend ==
  ASSUME out \in Seq(ShownLine), NEW l \in ShownLine, out' = Append(out, l)
  PROVE  \A k \in ToSet(out)' : k \in ToSet(out) \/ k = l
<1>1. /\ Append(out, l) \in Seq(ShownLine) /\ Len(Append(out, l)) = Len(out) + 1
      /\ \A i \in 1..Len(out) : Append(out, l)[i] = out[i]
      /\ Append(out, l)[Len(out) + 1] = l
  BY AppendProperties
<1>2. Len(out) \in Nat /\ DOMAIN out = 1..Len(out) /\ DOMAIN out' = 1..Len(out) + 1
  BY <1>1, LenProperties
<1> SUFFICES ASSUME NEW i \in 1..Len(out) + 1
             PROVE  out'[i] \in ToSet(out) \/ out'[i] = l
  BY <1>2 DEF ToSet
<1>3. i \in 1..Len(out) \/ i = Len(out) + 1
  BY <1>2
<1> QED
  BY <1>1, <1>2, <1>3 DEF ToSet

----------------------------------------------------------------------------
(* What is seen of a text.                                                 *)

\* A function of numbers that is given by its first value and by what each
\* value makes of the one before it.
Recurs(f, n, first, next) ==
  \A k \in 0..n : f[k] = IF k = 0 THEN first ELSE next[<<k, f[k - 1]>>]

LEMMA RecursionExists ==
  ASSUME NEW n \in Nat, NEW V, NEW first \in V, NEW next \in [(1..n) \X V -> V]
  PROVE  \E f \in [0..n -> V] : Recurs(f, n, first, next)
<1> DEFINE Missing == {m \in 0..n : ~\E f \in [0..n -> V] : Recurs(f, m, first, next)}
<1> SUFFICES ASSUME Missing # {} PROVE FALSE
  <2>1. n \in 0..n
    OBVIOUS
  <2>2. n \notin Missing => \E f \in [0..n -> V] : Recurs(f, n, first, next)
    BY <2>1
  <2> QED
    BY <2>2
<1>1. PICK m \in Missing : \A k \in Missing : m <= k
  <2> HIDE DEF Missing
  <2>1. Missing \in SUBSET Nat
    BY DEF Missing
  <2> QED
    BY <2>1, LeastNumber
<1>2. m \in 0..n /\ ~\E f \in [0..n -> V] : Recurs(f, m, first, next)
  BY <1>1
<1>3. CASE m = 0
  <2> DEFINE f == [k \in 0..n |-> first]
  <2>1. f \in [0..n -> V] /\ \A k \in 0..m : k = 0 /\ f[k] = first
    BY <1>3
  <2> HIDE DEF f
  <2>2. Recurs(f, m, first, next)
    BY <2>1 DEF Recurs
  <2> QED
    BY <1>2, <2>1, <2>2
<1>4. CASE m # 0
  <2>1. PICK l \in 0..n : l = m - 1
    BY <1>2, <1>4
  <2>2. l \notin Missing
    <3> HIDE DEF Missing
    <3> QED
      BY <1>1, <1>2, <2>1
  <2>3. PICK f \in [0..n -> V] : Recurs(f, l, first, next)
    BY <2>2
  <2> DEFINE v == next[<<m, f[l]>>]
             g == [f EXCEPT ![m] = v]
  <2>4. v \in V
    <3>1. <<m, f[l]>> \in (1..n) \X V
      BY <1>2, <1>4
    <3> QED
      BY <3>1
  <2>5. g \in [0..n -> V] /\ g[m] = v /\ \A k \in 0..n : k # m => g[k] = f[k]
    BY <1>2, <2>4
  <2> HIDE DEF g
  <2>6. ASSUME NEW k \in 0..m PROVE g[k] = IF k = 0 THEN first ELSE next[<<k, g[k - 1]>>]
    <3>1. CASE k = m
      <4>1. g[k - 1] = f[l] /\ k # 0
        BY <1>2, <1>4, <2>1, <2>5, <3>1
      <4> QED
        BY <2>5, <3>1, <4>1
    <3>2. CASE k # m
      <4>1. k \in 0..l /\ k \in 0..n
        BY <1>2, <2>1, <3>2
      <4>2. f[k] = IF k = 0 THEN first ELSE next[<<k, f[k - 1]>>]
        BY <2>3, <4>1 DEF Recurs
      <4>3. k # 0 => k - 1 \in 0..n /\ k - 1 # m
        BY <1>2, <2>1, <4>1
      <4> QED
        BY <2>5, <3>2, <4>1, <4>2, <4>3
    <3> QED
      BY <3>1, <3>2
  <2>7. Recurs(g, m, first, next)
    BY <2>6 DEF Recurs
  <2> QED
    BY <1>2, <2>5, <2>7
<1> QED
  BY <1>3, <1>4

\* f[k] is what is seen of the first k characters of s.
Inks(f, s) ==
  /\ f \in [0..Len(s) -> Seq(Char)] /\ f[0] = <<>>
  /\ \A k \in 1..Len(s) :
       f[k] = IF s[k] \in Blank THEN f[k - 1] ELSE Append(f[k - 1], s[k])

LEMMA InkIs ==
  ASSUME NEW s \in Seq(Char)
  PROVE  \E f : Inks(f, s) /\ Ink(s) = f[Len(s)]
<1> DEFINE L == Len(s)
           V == Seq(Char)
           next == [p \in (1..L) \X V |->
                      IF s[p[1]] \in Blank THEN p[2] ELSE Append(p[2], s[p[1]])]
           ink == CHOOSE f : f = [k \in 0..L |->
                    IF k = 0 THEN <<>> ELSE IF s[k] \in Blank THEN f[k - 1]
                                       ELSE Append(f[k - 1], s[k])]
<1>1. L \in Nat /\ << >> \in V
  OBVIOUS
<1>2. ASSUME NEW k \in 1..L, NEW v \in V
      PROVE  /\ next[<<k, v>>] = IF s[k] \in Blank THEN v ELSE Append(v, s[k])
             /\ next[<<k, v>>] \in V
  <2>1. s[k] \in Char
    BY ElementOfSeq
  <2>2. Append(v, s[k]) \in V
    BY <2>1
  <2>3. next[<<k, v>>] = IF s[k] \in Blank THEN v ELSE Append(v, s[k])
    OBVIOUS
  <2> QED
    BY <2>2, <2>3
<1>3. next \in [(1..L) \X V -> V]
  <2>1. \A p \in (1..L) \X V : p[1] \in 1..L /\ p[2] \in V /\ p = <<p[1], p[2]>>
    OBVIOUS
  <2>2. next = [p \in (1..L) \X V |-> next[p]]
    OBVIOUS
  <2> HIDE DEF next
  <2>3. ASSUME NEW p \in (1..L) \X V PROVE next[p] \in V
    BY <1>2, <2>1
  <2> QED
    BY <2>2, <2>3
<1> HIDE DEF next
<1>4. PICK f \in [0..L -> V] : Recurs(f, L, <<>>, next)
  BY <1>1, <1>3, RecursionExists
<1>5. ASSUME NEW k \in 0..L
      PROVE  f[k] = IF k = 0 THEN <<>> ELSE IF s[k] \in Blank THEN f[k - 1]
                                       ELSE Append(f[k - 1], s[k])
  <2>1. f[k] = IF k = 0 THEN <<>> ELSE next[<<k, f[k - 1]>>]
    BY <1>4 DEF Recurs
  <2>2. k # 0 => k \in 1..L /\ f[k - 1] \in V
    BY <1>1
  <2> QED
    BY <1>2, <2>1, <2>2
<1>6. f = [k \in 0..L |-> IF k = 0 THEN <<>> ELSE IF s[k] \in Blank THEN f[k - 1]
                                       ELSE Append(f[k - 1], s[k])]
  BY <1>4, <1>5
<1>7. ink = [k \in 0..L |-> IF k = 0 THEN <<>> ELSE IF s[k] \in Blank THEN ink[k - 1]
                                       ELSE Append(ink[k - 1], s[k])]
  BY <1>6
<1>8. Ink(s) = ink[L]
  BY Zenon DEF Ink, Blank
<1> HIDE DEF ink
\* There is only one such function.
<1>9. \A k \in 0..L : ink[k] = f[k]
  <2> DEFINE Wrong == {k \in 0..L : ink[k] # f[k]}
  <2> SUFFICES ASSUME Wrong # {} PROVE FALSE
    OBVIOUS
  <2>1. PICK m \in Wrong : \A k \in Wrong : m <= k
    <3> HIDE DEF Wrong
    <3>1. Wrong \in SUBSET Nat
      BY DEF Wrong
    <3> QED
      BY <3>1, LeastNumber
  <2>2. m # 0
    <3>1. 0 \in 0..L
      BY <1>1
    <3> QED
      BY <1>5, <1>7, <2>1, <3>1
  <2>3. m - 1 \in 0..L /\ m - 1 \notin Wrong
    <3>1. m \in 0..L
      OBVIOUS
    <3> HIDE DEF Wrong
    <3> QED
      BY <1>1, <2>1, <2>2, <3>1
  <2>4. ink[m - 1] = f[m - 1]
    BY <2>3
  <2> QED
    BY <1>5, <1>7, <2>2, <2>4
<1>10. Inks(f, s)
  <2>1. 0 \in 0..L /\ \A k \in 1..L : k \in 0..L /\ k # 0
    BY <1>1
  <2> QED
    BY <1>4, <1>5, <2>1 DEF Inks
<1>11. L \in 0..L
  BY <1>1
<1> QED
  BY <1>8, <1>9, <1>10, <1>11

\* What is seen of n characters depends on these only: of s from i on and of t
\* from j on.
SameInk(s, f, i, t, g, j, n) ==
  /\ s \in Seq(Char) /\ t \in Seq(Char) /\ Inks(f, s) /\ Inks(g, t)
  /\ i \in Nat /\ j \in Nat /\ n \in Nat
  /\ i + n <= Len(s) /\ j + n <= Len(t) /\ f[i] = g[j]
  /\ \A k \in 1..n : Alike(s[i + k], t[j + k])

LEMMA InkAgrees ==
  ASSUME NEW s, NEW f, NEW i, NEW t, NEW g, NEW j, NEW n, SameInk(s, f, i, t, g, j, n)
  PROVE  f[i + n] = g[j + n]
<1>0. /\ s \in Seq(Char) /\ t \in Seq(Char) /\ Inks(f, s) /\ Inks(g, t)
      /\ i \in Nat /\ j \in Nat /\ n \in Nat
      /\ i + n <= Len(s) /\ j + n <= Len(t) /\ f[i] = g[j]
  BY DEF SameInk
<1> DEFINE Wrong == {k \in 0..n : f[i + k] # g[j + k]}
<1> SUFFICES ASSUME Wrong # {} PROVE FALSE
  <2>1. n \in 0..n
    BY <1>0
  <2> QED
    BY <2>1
<1>1. PICK m \in Wrong : \A k \in Wrong : m <= k
  <2> HIDE DEF Wrong
  <2>1. Wrong \in SUBSET Nat
    BY DEF Wrong
  <2> QED
    BY <2>1, LeastNumber
<1>2. m \in 0..n /\ f[i + m] # g[j + m]
  BY <1>1
<1>3. m # 0
  BY <1>0, <1>2
<1>4. m - 1 \in 0..n /\ m - 1 \notin Wrong
  <2> HIDE DEF Wrong
  <2> QED
    BY <1>0, <1>1, <1>2, <1>3
<1>5. f[i + (m - 1)] = g[j + (m - 1)]
  BY <1>4
<1>6. PICK a \in 1..Len(s), b \in 1..Len(t) :
        a = i + m /\ b = j + m /\ a - 1 = i + (m - 1) /\ b - 1 = j + (m - 1)
  <2>1. i + m \in 1..Len(s) /\ j + m \in 1..Len(t)
    BY <1>0, <1>2, <1>3, LenProperties
  <2>2. i + m - 1 = i + (m - 1) /\ j + m - 1 = j + (m - 1)
    BY <1>0, <1>2
  <2>3. PICK a \in 1..Len(s) : a = i + m
    BY <2>1
  <2>4. PICK b \in 1..Len(t) : b = j + m
    BY <2>1
  <2> QED
    BY <1>0, <1>2, <2>2, <2>3, <2>4
<1>7. Alike(s[a], t[b])
  <2>1. m \in 1..n
    BY <1>0, <1>2, <1>3
  <2> QED
    BY <1>6, <2>1 DEF SameInk
<1>8. /\ f[a] = IF s[a] \in Blank THEN f[a - 1] ELSE Append(f[a - 1], s[a])
      /\ g[b] = IF t[b] \in Blank THEN g[b - 1] ELSE Append(g[b - 1], t[b])
  BY <1>0 DEF Inks
<1>9. f[a - 1] = g[b - 1] /\ f[a] # g[b]
  BY <1>2, <1>5, <1>6
<1> QED
  BY <1>7, <1>8, <1>9, Zenon DEF Alike

\* What is seen of the beginning of the text.
LEMMA InkOfPrefix ==
  ASSUME NEW s \in Seq(Char), NEW f, Inks(f, s), NEW n \in 0..Len(s)
  PROVE  Ink(SubSeq(s, 1, n)) = f[n]
<1> DEFINE t == SubSeq(s, 1, n)
<1>1. t \in Seq(Char) /\ Len(t) = n /\ \A k \in 1..n : t[k] = s[k]
  <2>1. Len(s) \in Nat /\ n \in Nat /\ n <= Len(s)
    BY LenProperties
  <2> QED
    BY <2>1
<1> HIDE DEF t
<1>2. PICK g : Inks(g, t) /\ Ink(t) = g[n]
  BY <1>1, InkIs
<1>3. g[0] = f[0]
  BY <1>2 DEF Inks
<1>4. PICK z \in Nat, l \in Nat : z = 0 /\ l = n
  OBVIOUS
<1>5. z + l <= Len(t) /\ z + l <= Len(s) /\ z + l = n /\ g[z] = f[z]
  BY <1>1, <1>3, <1>4, LenProperties
<1>6. SameInk(t, g, z, s, f, z, l)
  <2>1. \A k \in 1..l : z + k = k /\ k \in 1..n
    BY <1>4
  <2> QED
    BY <1>1, <1>2, <1>4, <1>5, <2>1 DEF Alike, SameInk
<1>7. g[z + l] = f[z + l]
  BY <1>6, InkAgrees
<1> QED
  BY <1>2, <1>5, <1>7 DEF t

\* What is copied from the text is seen behind what has been seen of it.
LEMMA InkAppended ==
  ASSUME NEW a \in Seq(Char), NEW s \in Seq(Char), NEW t \in Seq(Char),
         NEW m \in Nat, m + Len(t) <= Len(a),
         Ink(s) = Ink(SubSeq(a, 1, m)),
         \A k \in 1..Len(t) : Alike(t[k], a[m + k])
  PROVE  Ink(s \o t) = Ink(SubSeq(a, 1, m + Len(t)))
<1>1. PICK i \in Nat, n \in Nat : i = Len(s) /\ n = Len(t)
  BY LenProperties
<1>2. /\ s \o t \in Seq(Char) /\ Len(s \o t) = i + n
      /\ \A k \in 1..i : (s \o t)[k] = s[k]
      /\ \A k \in 1..n : (s \o t)[i + k] = t[k]
  BY <1>1
<1>3. PICK u \in Seq(Char) : u = s \o t
  BY <1>2
<1>4. PICK f : Inks(f, u) /\ Ink(u) = f[i + n]
  BY <1>2, <1>3, InkIs
<1>5. PICK g : Inks(g, s) /\ Ink(s) = g[i]
  BY <1>1, InkIs
<1>6. PICK h : Inks(h, a)
  BY InkIs
<1>7. m \in 0..Len(a) /\ m + n \in 0..Len(a)
  BY <1>1, LenProperties
<1>8. Ink(SubSeq(a, 1, m)) = h[m] /\ Ink(SubSeq(a, 1, m + n)) = h[m + n]
  BY <1>6, <1>7, InkOfPrefix
<1>9. f[i] = g[i]
  <2>1. PICK z \in Nat : z = 0
    OBVIOUS
  <2>2. f[z] = g[z]
    BY <1>4, <1>5, <2>1 DEF Inks
  <2>3. z + i <= Len(u) /\ z + i <= Len(s) /\ z + i = i
    BY <1>1, <1>2, <1>3, <2>1
  <2>4. SameInk(u, f, z, s, g, z, i)
    <3>1. \A k \in 1..i : z + k = k
      BY <2>1
    <3>2. \A k \in 1..i : Alike(u[z + k], s[z + k])
      BY <1>2, <1>3, <3>1 DEF Alike
    <3> QED
      BY <1>4, <1>5, <2>2, <2>3, <3>2 DEF SameInk
  <2>5. f[z + i] = g[z + i]
    BY <2>4, InkAgrees
  <2> QED
    BY <2>3, <2>5
<1>10. f[i] = h[m]
  BY <1>5, <1>8, <1>9
<1>11. i + n <= Len(u) /\ m + n <= Len(a)
  BY <1>1, <1>2, <1>3
<1>12. SameInk(u, f, i, a, h, m, n)
  <2>1. \A k \in 1..n : Alike(u[i + k], a[m + k])
    BY <1>1, <1>2, <1>3
  <2> QED
    BY <1>4, <1>6, <1>10, <1>11, <2>1 DEF SameInk
<1>13. f[i + n] = h[m + n]
  BY <1>12, InkAgrees
<1> QED
  BY <1>1, <1>3, <1>4, <1>8, <1>13

\* Blanks are not seen.
LEMMA InkSkips ==
  ASSUME NEW a \in Seq(Char), NEW m \in Nat, m < Len(a), a[m + 1] \in Blank
  PROVE  Ink(SubSeq(a, 1, m + 1)) = Ink(SubSeq(a, 1, m))
<1>1. PICK h : Inks(h, a)
  BY InkIs
<1>2. PICK n \in 1..Len(a) : n = m + 1 /\ n - 1 = m
  <2>1. m + 1 \in 1..Len(a) /\ m + 1 - 1 = m
    BY LenProperties
  <2> QED
    BY <2>1
<1>3. h[n] = h[m]
  BY <1>1, <1>2 DEF Inks
<1>4. m \in 0..Len(a) /\ n \in 0..Len(a)
  BY <1>2, LenProperties
<1>5. Ink(SubSeq(a, 1, m)) = h[m] /\ Ink(SubSeq(a, 1, n)) = h[n]
  BY <1>1, <1>4, InkOfPrefix
<1> QED
  BY <1>2, <1>3, <1>5

\* The lines shown so far, put together.
Uptos(f, lines) ==
  /\ f \in [0..Len(lines) -> Seq(Char)] /\ f[0] = <<>>
  /\ \A k \in 1..Len(lines) : f[k] = f[k - 1] \o lines[k].chars

LEMMA ShownTogether ==
  ASSUME NEW lines \in Seq(ShownLine)
  PROVE  \E f : Uptos(f, lines) /\ Shown(lines) = f[Len(lines)]
<1> DEFINE L == Len(lines)
           V == Seq(Char)
           next == [p \in (1..L) \X V |-> p[2] \o lines[p[1]].chars]
           upto == CHOOSE f : f = [k \in 0..L |->
                     IF k = 0 THEN <<>> ELSE f[k - 1] \o lines[k].chars]
<1>1. L \in Nat /\ << >> \in V
  OBVIOUS
<1>2. ASSUME NEW k \in 1..L, NEW v \in V
      PROVE  /\ next[<<k, v>>] = v \o lines[k].chars
             /\ next[<<k, v>>] \in V
  <2>1. lines[k] \in ShownLine
    BY ElementOfSeq
  <2>2. lines[k].chars \in V
    BY <2>1 DEF ShownLine
  <2>3. v \o lines[k].chars \in V
    BY <2>2
  <2>4. next[<<k, v>>] = v \o lines[k].chars
    OBVIOUS
  <2> QED
    BY <2>3, <2>4
<1>3. next \in [(1..L) \X V -> V]
  <2>1. \A p \in (1..L) \X V : p[1] \in 1..L /\ p[2] \in V /\ p = <<p[1], p[2]>>
    OBVIOUS
  <2>2. next = [p \in (1..L) \X V |-> next[p]]
    OBVIOUS
  <2> HIDE DEF next
  <2>3. ASSUME NEW p \in (1..L) \X V PROVE next[p] \in V
    BY <1>2, <2>1
  <2> QED
    BY <2>2, <2>3
<1> HIDE DEF next
<1>4. PICK f \in [0..L -> V] : Recurs(f, L, <<>>, next)
  BY <1>1, <1>3, RecursionExists
<1>5. ASSUME NEW k \in 0..L
      PROVE  f[k] = IF k = 0 THEN <<>> ELSE f[k - 1] \o lines[k].chars
  <2>1. f[k] = IF k = 0 THEN <<>> ELSE next[<<k, f[k - 1]>>]
    BY <1>4 DEF Recurs
  <2>2. k # 0 => k \in 1..L /\ f[k - 1] \in V
    BY <1>1
  <2> QED
    BY <1>2, <2>1, <2>2
<1>6. f = [k \in 0..L |-> IF k = 0 THEN <<>> ELSE f[k - 1] \o lines[k].chars]
  BY <1>4, <1>5
<1>7. upto = [k \in 0..L |-> IF k = 0 THEN <<>> ELSE upto[k - 1] \o lines[k].chars]
  BY <1>6
<1>8. Shown(lines) = upto[L]
  BY Zenon DEF Shown
<1> HIDE DEF upto
<1>9. \A k \in 0..L : upto[k] = f[k]
  <2> DEFINE Wrong == {k \in 0..L : upto[k] # f[k]}
  <2> SUFFICES ASSUME Wrong # {} PROVE FALSE
    OBVIOUS
  <2>1. PICK m \in Wrong : \A k \in Wrong : m <= k
    <3> HIDE DEF Wrong
    <3>1. Wrong \in SUBSET Nat
      BY DEF Wrong
    <3> QED
      BY <3>1, LeastNumber
  <2>2. m # 0
    <3>1. 0 \in 0..L
      BY <1>1
    <3> QED
      BY <1>5, <1>7, <2>1, <3>1
  <2>3. m - 1 \in 0..L /\ m - 1 \notin Wrong
    <3>1. m \in 0..L
      OBVIOUS
    <3> HIDE DEF Wrong
    <3> QED
      BY <1>1, <2>1, <2>2, <3>1
  <2>4. upto[m - 1] = f[m - 1]
    BY <2>3
  <2> QED
    BY <1>5, <1>7, <2>2, <2>4
<1>10. Uptos(f, lines)
  <2>1. 0 \in 0..L /\ \A k \in 1..L : k \in 0..L /\ k # 0
    BY <1>1
  <2> QED
    BY <1>4, <1>5, <2>1 DEF Uptos
<1>11. L \in 0..L
  BY <1>1
<1> QED
  BY <1>8, <1>9, <1>10, <1>11

\* One line more.
LEMMA ShownNext ==
  ASSUME NEW lines \in Seq(ShownLine), NEW l \in ShownLine
  PROVE  /\ Shown(lines) \in Seq(Char)
         /\ Shown(Append(lines, l)) = Shown(lines) \o l.chars
<1>1. PICK n \in Nat : n = Len(lines)
  BY LenProperties
<1>2. PICK more \in Seq(ShownLine) : more = Append(lines, l)
  BY AppendProperties
<1>3. /\ Len(more) = n + 1 /\ more[n + 1] = l
      /\ \A k \in 1..n : more[k] = lines[k]
  BY <1>1, <1>2, AppendProperties
<1>4. PICK f : Uptos(f, lines) /\ Shown(lines) = f[n]
  BY <1>1, ShownTogether
<1>5. PICK g : Uptos(g, more) /\ Shown(more) = g[n + 1]
  BY <1>3, ShownTogether
<1>6. \A k \in 0..n : f[k] = g[k]
  <2> DEFINE Wrong == {k \in 0..n : f[k] # g[k]}
  <2> SUFFICES ASSUME Wrong # {} PROVE FALSE
    OBVIOUS
  <2>1. PICK m \in Wrong : \A k \in Wrong : m <= k
    <3> HIDE DEF Wrong
    <3>1. Wrong \in SUBSET Nat
      BY DEF Wrong
    <3> QED
      BY <3>1, LeastNumber
  <2>2. m \in 0..n /\ f[m] # g[m]
    BY <2>1
  <2>3. m # 0
    BY <1>4, <1>5, <2>2 DEF Uptos
  <2>4. m - 1 \in 0..n /\ m - 1 \notin Wrong
    <3> HIDE DEF Wrong
    <3> QED
      BY <1>1, <2>1, <2>2, <2>3
  <2>5. f[m - 1] = g[m - 1]
    BY <2>4
  <2>6. m \in 1..Len(lines) /\ m \in 1..Len(more) /\ m \in 1..n
    BY <1>1, <1>3, <2>2, <2>3
  <2>7. f[m] = f[m - 1] \o lines[m].chars /\ g[m] = g[m - 1] \o more[m].chars
    BY <1>4, <1>5, <2>6 DEF Uptos
  <2> QED
    BY <1>3, <2>2, <2>5, <2>6, <2>7
<1>7. g[n + 1] = g[n] \o l.chars
  <2>1. PICK k \in 1..Len(more) : k = n + 1 /\ k - 1 = n
    <3>1. n + 1 \in 1..Len(more) /\ n + 1 - 1 = n
      BY <1>3
    <3> QED
      BY <3>1
  <2>2. g[k] = g[k - 1] \o more[k].chars
    BY <1>5 DEF Uptos
  <2> QED
    BY <1>3, <2>1, <2>2
<1>8. n \in 0..n /\ n \in 0..Len(lines)
  BY <1>1
<1>9. Shown(lines) \in Seq(Char)
  BY <1>4, <1>8 DEF Uptos
<1> QED
  BY <1>2, <1>4, <1>5, <1>6, <1>7, <1>8, <1>9

LEMMA NothingShown == Shown(<<>>) = <<>>
<1>1. << >> \in Seq(ShownLine) /\ Len(<< >>) = 0
  OBVIOUS
<1>2. PICK f : Uptos(f, <<>>) /\ Shown(<<>>) = f[0]
  BY <1>1, ShownTogether
<1> QED
  BY <1>2 DEF Uptos

----------------------------------------------------------------------------
(* Nothing is lost, and nothing shown twice.                               *)

\* What the calls before this one have shown ends where its text begins.
Before == Len(all) - Len(textcopy)

SeenUpTo(k) == Ink(Shown(out)) = Ink(SubSeq(all, 1, Before + k))

\* What PS_show_boxed leaves out is a blank: that of a paragraph and the one
\* before it.
Paragraph ==
  /\ line.parend =>
       /\ ~line.firstword /\ At(at.lastdelim) = Space
       /\ at.lastdelim > at.lastbreak => At(at.lastdelim - 1) = Space
  /\ ~line.firstword /\ line.prevchar = Newline /\ line.hlen < Linewidth
       => At(at.lastdelim) = Space

KeptInv ==
  /\ pc = "idle" => out = <<>>
  /\ \A k \in 1..Len(textcopy) : Alike(textcopy[k], all[Before + k])
  /\ pc = "outer" => SeenUpTo(at.curpos)
  /\ pc = "inner" => SeenUpTo(at.lastbreak) /\ Paragraph
  /\ pc = "returned" => /\ SeenUpTo(at.curpos) /\ at.curpos <= Len(textcopy)
                        /\ ret = Len(textcopy) - at.curpos

\* n characters of the text are shown, and the c behind them are blanks.
Reaches(n, c) ==
  /\ n \in Nat /\ c \in {0, 1, 2}
  /\ at.lastbreak + n + c <= Len(textcopy)
  /\ \A k \in 1..c : At(at.lastbreak + n + k - 1) = Space

\* How far a line reaches that ends at a delimiter.
LEMMA LineReaches ==
  ASSUME Typed, Nothing \/ WordTaken \/ WordLeft, Paragraph,
         NEW n \in Nat, n = at.lastdelim - at.lastbreak + MorecharsLeft
  PROVE  \E c \in {0, 1, 2} :
           /\ Reaches(n, c)
           /\ at.lastbreak + n + c = IF At(at.lastdelim) # Nul THEN at.lastdelim + 1
                                                             ELSE at.curpos
<1>1. PICK b \in Nat, D \in Nat, p \in Nat, m \in Nat :
        /\ b = at.lastbreak /\ D = at.lastdelim /\ p = at.curpos
        /\ m = Len(textcopy) /\ textcopy \in Seq(Char)
  BY LenProperties DEF Typed
<1>2. At(D) = Nul <=> D >= m
  BY <1>1, AtIs
<1>3. CASE Nothing
  <2>1. /\ D <= b /\ b <= D + 1 /\ b < m /\ At(D) # Nul
        /\ ~line.parend
    BY <1>1, <1>2, <1>3 DEF Nothing, AtLineStart
  <2>2. MorecharsLeft = IF At(D) = Space THEN 0 ELSE 1
    BY <1>1, <2>1 DEF MorecharsLeft
  <2>3. CASE At(D) = Space
    <3>1. D = b /\ n = 0
      BY <1>1, <2>1, <2>2, <2>3
    <3>2. b + n + 1 <= m /\ \A k \in 1..1 : b + n + k - 1 = b
      BY <1>1, <2>1, <3>1
    <3>3. Reaches(n, 1)
      BY <1>1, <2>3, <3>1, <3>2 DEF Reaches
    <3> QED
      BY <1>1, <2>1, <3>1, <3>3
  <2>4. CASE At(D) # Space
    <3>1. n = D - b + 1 /\ b + n = D + 1 /\ b + n <= m /\ b + n + 0 = b + n
      BY <1>1, <2>1, <2>2, <2>4
    <3>2. Reaches(n, 0)
      BY <1>1, <3>1 DEF Reaches
    <3> QED
      BY <1>1, <2>1, <3>1, <3>2
  <2> QED
    BY <2>3, <2>4
<1>4. CASE Taken /\ line.parend
  <2>1. /\ MorecharsLeft = -1 /\ At(D) = Space /\ b <= D /\ D <= m
    BY <1>1, <1>4 DEF MorecharsLeft, Paragraph, Taken
  <2>2. D < m /\ At(D) # Nul
    BY <1>1, <1>2, <2>1, CharactersDiffer
  <2>3. n = D - b - 1 /\ D > b
    BY <1>1, <2>1
  <2>4. At(D - 1) = Space
    BY <1>1, <1>4, <2>3 DEF Paragraph
  <2>5. b + n + 2 = D + 1 /\ b + n + 2 <= m
    BY <1>1, <2>2, <2>3
  <2>6. \A k \in 1..2 : b + n + k - 1 = IF k = 1 THEN D - 1 ELSE D
    BY <1>1, <2>3
  <2>7. \A k \in 1..2 : At(b + n + k - 1) = Space
    BY <2>1, <2>4, <2>6
  <2>8. Reaches(n, 2)
    BY <1>1, <2>5, <2>7 DEF Reaches
  <2> QED
    BY <1>1, <2>2, <2>5, <2>8
<1>5. CASE Taken /\ ~line.parend
  <2>1. b <= D /\ D <= m /\ At(D) \in Visible \cup {Space, Nul}
    BY <1>1, <1>5 DEF Taken
  <2>2. MorecharsLeft = IF At(D) \in Visible THEN 1 ELSE 0
    BY <1>1, <1>5, <2>1, DelimitersAre DEF MorecharsLeft
  <2>3. CASE At(D) \in Visible
    <3>1. At(D) # Nul /\ n = D - b + 1
      BY <1>1, <2>2, <2>3, DelimitersAre
    <3>2. b + n = D + 1 /\ b + n + 0 = b + n /\ b + n <= m
      BY <1>1, <1>2, <2>1, <3>1
    <3>3. Reaches(n, 0)
      BY <1>1, <3>2 DEF Reaches
    <3> QED
      BY <1>1, <3>1, <3>2, <3>3
  <2>4. CASE At(D) = Space
    <3>1. At(D) # Nul /\ n = D - b
      BY <1>1, <2>2, <2>4, CharactersDiffer, DelimitersAre
    <3>2. b + n + 1 = D + 1 /\ b + n + 1 <= m /\ \A k \in 1..1 : b + n + k - 1 = D
      BY <1>1, <1>2, <2>1, <3>1
    <3>3. Reaches(n, 1)
      BY <1>1, <2>4, <3>2 DEF Reaches
    <3> QED
      BY <1>1, <3>1, <3>2, <3>3
  <2>5. CASE At(D) = Nul
    <3>1. D = m /\ n = D - b
      BY <1>1, <1>2, <2>1, <2>2, <2>5, DelimitersAre
    <3>2. p = m
      <4>1. WordTaken => p = D
        BY <1>1, <2>5 DEF WordTaken
      <4>2. WordLeft => D < p /\ p <= m
        BY <1>1 DEF WordLeft
      <4>3. Nothing => p < m /\ p = b /\ D <= b
        BY <1>1 DEF Nothing, AtLineStart
      <4> QED
        BY <1>1, <2>1, <3>1, <4>1, <4>2, <4>3
    <3>3. b + n + 0 = p /\ b + n + 0 <= m
      BY <1>1, <3>1, <3>2
    <3>4. Reaches(n, 0)
      BY <1>1, <3>3 DEF Reaches
    <3> QED
      BY <1>1, <2>5, <3>3, <3>4
  <2> QED
    BY <2>1, <2>3, <2>4, <2>5
<1> QED
  BY <1>3, <1>4, <1>5 DEF WordTaken, WordLeft

\* How far a line reaches that ends within a word.
LEMMA BrokenReaches ==
  ASSUME Typed, Nothing \/ WordTaken \/ WordLeft, Hyphenating, LastHyphen # 0,
         NEW n \in Int, n = at.lastdelim + LastHyphen - at.lastbreak + 1
  PROVE  /\ Reaches(n, 0)
         /\ at.lastbreak + n + 0 = at.lastdelim + LastHyphen + 1
         /\ At(at.lastdelim + LastHyphen) # Nul
<1>1. PICK b \in Nat, D \in Nat, m \in Nat :
        b = at.lastbreak /\ D = at.lastdelim /\ m = Len(textcopy) /\ textcopy \in Seq(Char)
  BY LenProperties DEF Typed
<1>2. PICK hp \in Nat : hp = LastHyphen /\ hp >= 1
  <2>1. LastHyphen \in Nat
    BY BrokenWord, Zenon
  <2> QED
    BY <2>1
<1>3. D + hp + MinChars < m /\ b <= D
  BY <1>1, <1>2, BrokenWord DEF WordLeft, Taken
<1>4. D + hp < m /\ n \in Nat /\ b + n + 0 = D + hp + 1
  <2>1. MinChars \in Nat
    BY MinCharsAssumption
  <2>2. n = D + hp - b + 1
    BY <1>1, <1>2
  <2>3. PICK low \in Nat : low = MinChars /\ D + hp + low < m
    BY <1>3, <2>1
  <2> QED
    BY <1>2, <1>3, <2>2, <2>3
<1>5. At(D + hp) # Nul
  <2>1. PICK k \in Nat : k = D + hp
    BY <1>1
  <2> QED
    BY <1>1, <1>4, <2>1, AtIs
<1>6. Reaches(n, 0)
  <2>1. at.lastbreak + n + 0 <= Len(textcopy)
    BY <1>1, <1>4
  <2> QED
    BY <1>4, <2>1 DEF Reaches
<1> QED
  BY <1>1, <1>2, <1>4, <1>5, <1>6

\* The line that is shown joins what was shown before.
LEMMA LineJoins ==
  ASSUME Typed, \A k \in 1..Len(textcopy) : Alike(textcopy[k], all[Before + k]),
         SeenUpTo(at.lastbreak),
         NEW n, NEW c, Reaches(n, c),
         NEW l \in ShownLine, l.chars = From(textcopy, at.lastbreak, n),
         NEW k \in Nat, k = at.lastbreak + n + c
  PROVE  Ink(Shown(Append(out, l))) = Ink(SubSeq(all, 1, Before + k))
<1> DEFINE chars == From(textcopy, at.lastbreak, n)
<1>0. /\ textcopy \in Seq(Char) /\ all \in Seq(Char) /\ out \in Seq(ShownLine)
      /\ at.lastbreak \in Nat
  BY DEF Typed
<1>1. PICK b \in Nat, m \in Nat, w \in Nat :
        b = at.lastbreak /\ m = Len(textcopy) /\ w = Len(all) /\ m <= w
  BY <1>0, LenProperties DEF Typed
<1>2. n \in Nat /\ c \in Nat /\ c \in {0, 1, 2} /\ b + n + c <= m
  BY <1>1 DEF Reaches
<1>3. PICK o \in Nat : o = Before /\ o + m = w
  <2>1. w - m \in Nat /\ (w - m) + m = w
    BY <1>1
  <2>2. Before = w - m
    BY <1>1 DEF Before
  <2> QED
    BY <2>1, <2>2
<1>4. /\ chars \in Seq(Char) /\ Len(chars) = n
      /\ \A i \in 1..n : chars[i] = At(b + i - 1)
  <2>1. b + n <= Len(textcopy)
    BY <1>1, <1>2
  <2> HIDE DEF chars
  <2>2. chars = From(textcopy, b, n)
    BY <1>1 DEF chars
  <2> QED
    BY <1>0, <1>2, <2>1, <2>2, Copied
<1> HIDE DEF chars
<1>5. ASSUME NEW i \in 1..m PROVE Alike(At(i - 1), all[o + i])
  <2>1. PICK j \in Nat : j = i - 1 /\ j < m /\ j + 1 = i
    OBVIOUS
  <2>2. At(j) = textcopy[i]
    BY <1>0, <1>1, <2>1, AtIs
  <2> QED
    BY <1>1, <1>3, <2>1, <2>2
<1>6. PICK q \in Nat : q = o + b
  OBVIOUS
<1>7. ASSUME NEW i \in 1..n PROVE Alike(chars[i], all[q + i])
  <2>1. PICK j \in 1..m : j = b + i /\ o + j = q + i /\ j - 1 = b + i - 1
    <3>1. b + i \in 1..m /\ o + (b + i) = q + i
      BY <1>2, <1>6
    <3> QED
      BY <3>1
  <2>2. Alike(At(j - 1), all[o + j])
    BY <1>5
  <2> QED
    BY <1>4, <2>1, <2>2
<1>8. Ink(Shown(out) \o chars) = Ink(SubSeq(all, 1, q + n))
  <2>1. Shown(out) \in Seq(Char)
    BY <1>0, <1>7, ShownNext
  <2>2. Ink(Shown(out)) = Ink(SubSeq(all, 1, q))
    BY <1>1, <1>3, <1>6 DEF SeenUpTo
  <2>3. q + n <= w
    BY <1>2, <1>3, <1>6
  <2>4. PICK s \in Seq(Char), t \in Seq(Char) : s = Shown(out) /\ t = chars
    BY <1>4, <2>1
  <2>5. /\ q + Len(t) <= Len(all) /\ Ink(s) = Ink(SubSeq(all, 1, q))
        /\ \A i \in 1..Len(t) : Alike(t[i], all[q + i])
    BY <1>1, <1>4, <1>7, <2>2, <2>3, <2>4
  <2>6. Ink(s \o t) = Ink(SubSeq(all, 1, q + Len(t)))
    BY <1>0, <2>5, InkAppended
  <2> QED
    BY <1>4, <2>4, <2>6
<1>9. Shown(Append(out, l)) = Shown(out) \o chars
  <2>1. l.chars = chars
    BY DEF chars
  <2> QED
    BY <1>0, <2>1, ShownNext
<1>10. ASSUME NEW i \in 1..c
       PROVE  Ink(SubSeq(all, 1, q + n + i)) = Ink(SubSeq(all, 1, q + n + i - 1))
  <2>1. PICK r \in Nat : r = q + n + i - 1 /\ r + 1 = q + n + i
    <3>1. q + n + i - 1 \in Nat /\ (q + n + i - 1) + 1 = q + n + i
      BY <1>2
    <3> QED
      BY <3>1
  <2>2. PICK j \in 1..m : j = b + n + i /\ o + j = r + 1 /\ j - 1 = b + n + i - 1
    <3>1. b + n + i \in 1..m /\ o + (b + n + i) = r + 1
      BY <1>2, <1>6, <2>1
    <3> QED
      BY <1>2, <3>1
  <2>3. Alike(At(j - 1), all[o + j])
    BY <1>5
  <2>4. At(j - 1) = Space
    BY <1>1, <2>2 DEF Reaches
  <2>5. all[r + 1] \in Blank
    BY <2>2, <2>3, <2>4 DEF Alike, Blank
  <2>6. r < Len(all)
    <3>1. r < w
      BY <1>3, <2>2
    <3> QED
      BY <1>1, <3>1
  <2>7. Ink(SubSeq(all, 1, r + 1)) = Ink(SubSeq(all, 1, r))
    BY <1>0, <2>5, <2>6, InkSkips
  <2> QED
    BY <2>1, <2>7
<1>11. Ink(SubSeq(all, 1, q + n + c)) = Ink(SubSeq(all, 1, q + n))
  <2>1. CASE c = 0
    <3>1. q + n + c = q + n
      BY <1>2, <2>1
    <3> QED
      BY <3>1
  <2>2. CASE c = 1
    <3>1. 1 \in 1..c /\ q + n + 1 - 1 = q + n
      BY <1>2, <2>2
    <3>2. Ink(SubSeq(all, 1, q + n + 1)) = Ink(SubSeq(all, 1, q + n + 1 - 1))
      BY <1>10, <3>1
    <3> QED
      BY <2>2, <3>1, <3>2
  <2>3. CASE c = 2
    <3>1. 1 \in 1..c /\ 2 \in 1..c /\ q + n + 1 - 1 = q + n /\ q + n + 2 - 1 = q + n + 1
      BY <1>2, <2>3
    <3>2. Ink(SubSeq(all, 1, q + n + 1)) = Ink(SubSeq(all, 1, q + n + 1 - 1))
      BY <1>10, <3>1
    <3>3. Ink(SubSeq(all, 1, q + n + 2)) = Ink(SubSeq(all, 1, q + n + 2 - 1))
      BY <1>10, <3>1
    <3> QED
      BY <2>3, <3>1, <3>2, <3>3
  <2> QED
    BY <1>2, <2>1, <2>2, <2>3
<1>12. Before + k = q + n + c
  <2>1. k = b + n + c
    BY <1>1
  <2>2. o + k = q + n + c
    BY <1>2, <1>6, <2>1
  <2> QED
    BY <1>3, <2>2
<1> QED
  BY <1>8, <1>9, <1>11, <1>12

\* A round of EndLine.
LEMMA EndLineKeeps ==
  ASSUME Typed, Nothing \/ WordTaken \/ WordLeft, KeptInv, EndLine, pc' # "crashed"
  PROVE  KeptInv'
<1> DEFINE hp == IF Hyphenating THEN LastHyphen ELSE 0
           spaces == IF hp > 0 /\ At(at.lastdelim) = Space THEN SpacesLeft + 1 ELSE SpacesLeft
           d == at.lastdelim + hp
           n == d - at.lastbreak + (IF hp > 0 THEN 1 ELSE MorecharsLeft)
           l == [chars |-> From(textcopy, at.lastbreak, n), hyphen |-> hp > 0,
                 spaces |-> spaces, stretched |-> Stretch(spaces, d),
                 linewidth |-> Linewidth, next |-> At(d + 1)]
<1>1. /\ ~(n < 0)
      /\ out' = Append(out, l)
      /\ at' = [lastdelim |-> d, lastbreak |-> d + 1,
                curpos |-> IF At(d) # Nul THEN d + 1 ELSE at.curpos]
      /\ pc' = "outer" /\ pc = "inner"
  BY Zenon DEF EndLine
<1>2. ~Collecting /\ UNCHANGED <<all, box, textcopy, line, ret>>
  BY DEF EndLine
<1>3. /\ d = at.lastdelim + hp
      /\ n = d - at.lastbreak + (IF hp > 0 THEN 1 ELSE MorecharsLeft)
      /\ l.chars = From(textcopy, at.lastbreak, n)
      /\ hp = IF Hyphenating THEN LastHyphen ELSE 0
  <2> HIDE DEF hp, n, d
  <2>1. l.chars = From(textcopy, at.lastbreak, n)
    OBVIOUS
  <2>2. d = at.lastdelim + hp
    BY Zenon DEF d
  <2>3. n = d - at.lastbreak + (IF hp > 0 THEN 1 ELSE MorecharsLeft)
    BY Zenon DEF n
  <2>4. hp = IF Hyphenating THEN LastHyphen ELSE 0
    BY Zenon DEF hp
  <2> QED
    BY <2>1, <2>2, <2>3, <2>4, Zenon
<1> HIDE DEF hp, spaces, d, n, l
<1>4. at.lastdelim \in Nat /\ at.lastbreak \in Nat /\ MorecharsLeft \in Int
  BY DEF Typed, MorecharsLeft
<1>5. \E c \in {0, 1, 2} : /\ Reaches(n, c)
                           /\ at.lastbreak + n + c = IF At(d) # Nul THEN d + 1 ELSE at.curpos
  <2>1. CASE hp = 0
    <3>1. d = at.lastdelim /\ n \in Nat /\ n = at.lastdelim - at.lastbreak + MorecharsLeft
      BY <1>1, <1>3, <1>4, <2>1
    <3>2. Paragraph
      BY <1>1 DEF KeptInv
    <3> QED
      BY <3>1, <3>2, LineReaches
  <2>2. CASE hp # 0
    <3>1. Hyphenating /\ LastHyphen # 0 /\ hp = LastHyphen
      BY <1>3, <2>2
    <3>2. LastHyphen \in Nat
      BY <3>1, BrokenWord, Zenon
    <3>3. n \in Int /\ n = at.lastdelim + LastHyphen - at.lastbreak + 1
      BY <1>3, <1>4, <2>2, <3>1, <3>2
    <3>4. /\ Reaches(n, 0)
          /\ at.lastbreak + n + 0 = at.lastdelim + LastHyphen + 1
          /\ At(at.lastdelim + LastHyphen) # Nul
      BY <3>1, <3>3, BrokenReaches
    <3>5. at.lastdelim + LastHyphen = d
      BY <1>3, <3>1
    <3> QED
      BY <3>4, <3>5
  <2> QED
    BY <2>1, <2>2
<1>6. PICK c \in {0, 1, 2} : /\ Reaches(n, c)
                             /\ at.lastbreak + n + c = IF At(d) # Nul THEN d + 1 ELSE at.curpos
  BY <1>5
<1>7. l \in ShownLine
  <2>1. PICK x \in ShownLine : out' = Append(out, x)
    BY EndLineShows
  <2>2. out \in Seq(ShownLine)
    BY DEF Typed
  <2>3. l = x
    <3>1. out'[Len(out) + 1] = l
      BY <1>1, <2>2 DEF Append
    <3>2. out'[Len(out) + 1] = x
      BY <2>1, <2>2, AppendProperties
    <3> QED
      BY <3>1, <3>2
  <2> QED
    BY <2>1, <2>3
<1>8. PICK k \in Nat : k = at.lastbreak + n + c
  <2>1. at.lastbreak + n + c \in Nat
    BY <1>4, <1>6 DEF Reaches
  <2> QED
    BY <2>1
<1>9. Ink(Shown(Append(out, l))) = Ink(SubSeq(all, 1, Before + k))
  <2>1. SeenUpTo(at.lastbreak) /\ \A i \in 1..Len(textcopy) : Alike(textcopy[i], all[Before + i])
    BY <1>1 DEF KeptInv
  <2> QED
    BY <1>3, <1>6, <1>7, <1>8, <2>1, LineJoins
<1>10. at'.curpos = k
  BY <1>1, <1>6, <1>8
<1>11. Before' = Before
  BY <1>2 DEF Before
<1>12. SeenUpTo(at.curpos)'
  BY <1>1, <1>2, <1>9, <1>10, <1>11 DEF SeenUpTo
<1> QED
  BY <1>1, <1>2, <1>11, <1>12 DEF KeptInv, Alike, Blank

\* A round of NextWord keeps what is known of the ends of paragraphs.
LEMMA TakenParagraph ==
  ASSUME Typed, Nothing \/ WordTaken, NextWord, Paragraph,
         NEW e \in Nat, NEW parend \in BOOLEAN, NEW hlen \in Nat, NEW prev,
         at.curpos <= e, e <= Len(textcopy), At(e) \in Delimiters,
         \A j \in at.curpos..e - 1 : At(j) \notin Delimiters,
         prev = IF e > at.curpos THEN At(e - 1) ELSE line.prevchar,
         parend => prev = Newline /\ At(e) = Newline,
         line' = [line EXCEPT !.lineend = box.linebreak /\ At(e) = Newline, !.parend = parend,
                              !.oldhlen = line.hlen, !.hlen = hlen,
                              !.prevchar = At(e), !.firstword = FALSE,
                              !.spaces = IF At(e) \in {Space, Newline} THEN @ + 1 ELSE @],
         at' = [at EXCEPT !.lastdelim = e, !.curpos = IF At(e) = Nul THEN e ELSE e + 1],
         textcopy' = IF At(e) = Newline THEN [textcopy EXCEPT ![e + 1] = Space] ELSE textcopy
  PROVE  Paragraph'
<1>1. PICK b \in Nat, p \in Nat, D \in Nat :
        b = at.lastbreak /\ p = at.curpos /\ D = at.lastdelim /\ textcopy \in Seq(Char)
  BY DEF Typed
<1>2. /\ b <= p /\ (line.firstword => p = b) /\ line.hlen < Linewidth
      /\ ~line.firstword => p = D + 1
  BY <1>1, Collects DEF NextWord
<1>3. /\ at'.lastbreak = b /\ at'.lastdelim = e
      /\ line'.parend = parend /\ ~line'.firstword /\ line'.prevchar = At(e)
  BY <1>1 DEF Typed
<1>4. \A k \in Nat : At(k)' = IF k = e /\ At(e) = Newline THEN Space ELSE At(k)
  BY <1>1, CopyChanges
<1>5. At(e) = Newline => At(e)' = Space
  BY <1>4
<1>6. ASSUME parend, e > b PROVE At(e - 1)' = Space
  <2>1. ~(e > p)
    <3>1. ASSUME e > p PROVE FALSE
      <4>1. e - 1 \in p..e - 1 /\ prev = At(e - 1) /\ prev = Newline
        BY <1>1, <1>6, <3>1
      <4>2. At(e - 1) \notin Delimiters
        BY <1>1, <4>1
      <4> QED
        BY <4>1, <4>2 DEF Delimiters
    <3> QED
      BY <3>1
  <2>2. p = e /\ ~line.firstword /\ line.prevchar = Newline
    BY <1>1, <1>2, <1>6, <2>1
  <2>3. At(D) = Space /\ D = e - 1 /\ D # e
    BY <1>1, <1>2, <2>2 DEF Paragraph
  <2>4. At(D)' = Space
    BY <1>1, <1>4, <2>3
  <2> QED
    BY <2>3, <2>4
<1>7. /\ line'.parend => ~line'.firstword /\ At(at.lastdelim)' = Space
                         /\ (at'.lastdelim > at'.lastbreak => At(at.lastdelim - 1)' = Space)
      /\ line'.prevchar = Newline => At(at.lastdelim)' = Space
  <2>1. At(at.lastdelim)' = At(e)' /\ At(at.lastdelim - 1)' = At(e - 1)'
    BY <1>3 DEF At
  <2> QED
    BY <1>3, <1>5, <1>6, <2>1
<1> QED
  BY <1>7 DEF Paragraph

\* A word that ends a paragraph is never left: it is the delimiter behind the
\* last word, and does not count.
LEMMA LeftParagraph ==
  ASSUME Typed, Nothing \/ WordTaken, NextWord, Paragraph,
         NEW e \in Nat, NEW parend \in BOOLEAN, NEW hlen \in Nat, NEW prev,
         at.curpos <= e, e <= Len(textcopy), At(e) \in Delimiters,
         \A j \in at.curpos..e - 1 : At(j) \notin Delimiters,
         prev = IF e > at.curpos THEN At(e - 1) ELSE line.prevchar,
         parend => prev = Newline /\ At(e) = Newline,
         hlen = WidthIn(textcopy, at.lastbreak, e - at.lastbreak + Morechars(parend, At(e))),
         ~Fits(hlen)
  PROVE  ~parend
<1> SUFFICES ASSUME parend PROVE FALSE
  OBVIOUS
<1>1. PICK b \in Nat, p \in Nat, D \in Nat :
        b = at.lastbreak /\ p = at.curpos /\ D = at.lastdelim /\ textcopy \in Seq(Char)
  BY DEF Typed
<1>2. /\ line.hlen < Linewidth /\ ~line.parend /\ ~line.firstword
      /\ WordTaken /\ p = D + 1
  BY <1>1, Collects DEF NextWord, Fits
<1>3. ~(e > p)
  <2>1. ASSUME e > p PROVE FALSE
    <3>1. e - 1 \in p..e - 1 /\ prev = At(e - 1) /\ prev = Newline
      BY <1>1, <2>1
    <3>2. At(e - 1) \notin Delimiters
      BY <1>1, <3>1
    <3> QED
      BY <3>1, <3>2 DEF Delimiters
  <2> QED
    BY <2>1
<1>4. p = e /\ line.prevchar = Newline
  BY <1>1, <1>3
<1>5. At(D) = Space /\ D = e - 1
  BY <1>1, <1>2, <1>4 DEF Paragraph
<1>6. PICK n \in Int : n = D - b
  BY <1>1
<1>7. b <= D /\ D <= Len(textcopy) /\ b <= Len(textcopy)
  <2>1. PICK m \in Nat : m = Len(textcopy)
    BY <1>1, LenProperties
  <2>2. b <= D /\ D <= m
    BY <1>1, <1>2, <2>1 DEF WordTaken, Taken
  <2> QED
    BY <1>1, <2>1, <2>2
<1>8. line.hlen = WidthIn(textcopy, b, n)
  <2>1. Morechars(FALSE, At(D)) = 0 /\ line.parend = FALSE
    <3>1. line.parend \in BOOLEAN
      BY DEF Typed
    <3> QED
      BY <1>2, <1>5, <3>1, CharactersDiffer DEF Morechars
  <2>2. line.hlen = StringWidth(b, n)
    <3>1. line.hlen = WidthTaken(line.parend)
      BY <1>2, Zenon DEF WordTaken
    <3>2. WidthTaken(FALSE) = StringWidth(b, D - b + 0)
      BY <1>1, <2>1 DEF WidthTaken
    <3>3. D - b + 0 = n
      BY <1>1, <1>6
    <3> QED
      BY <2>1, <3>1, <3>2, <3>3
  <2> QED
    BY <1>1, <1>7, <2>2, StringWidthIs
<1>9. hlen = WidthIn(textcopy, b, n)
  <2>1. e - b + Morechars(parend, At(e)) = n
    BY <1>1, <1>5, <1>6 DEF Morechars
  <2> QED
    BY <1>1, <2>1
<1> QED
  BY <1>2, <1>8, <1>9 DEF Fits

LEMMA NextWordParagraph ==
  ASSUME Typed, Nothing \/ WordTaken, NextWord, Paragraph
  PROVE  /\ Paragraph'
         /\ textcopy' \in Seq(Char) /\ Len(textcopy') = Len(textcopy)
         /\ \A k \in 1..Len(textcopy) : Alike(textcopy'[k], textcopy[k])
<1> DEFINE e == WordEnd(at.curpos)
           c == At(e)
           prev == IF e > at.curpos THEN At(e - 1) ELSE line.prevchar
           parend == Treatcraspar /\ prev = Newline /\ c = Newline
           hlen == StringWidth(at.lastbreak, e - at.lastbreak + Morechars(parend, c))
<1>1. /\ e \in at.curpos..Len(textcopy) /\ c \in Delimiters
      /\ \A j \in at.curpos..e - 1 : At(j) \notin Delimiters
      /\ prev \in Char \cup {Nul} /\ hlen \in Nat
      /\ hlen = WidthIn(textcopy, at.lastbreak, e - at.lastbreak + Morechars(parend, c))
  BY NextWordIs
<1>2. parend \in BOOLEAN /\ (parend => prev = Newline /\ c = Newline)
  BY DEF Typed, Box, Treatcraspar
<1>3. e \in Nat /\ at.curpos <= e /\ e <= Len(textcopy) /\ textcopy \in Seq(Char)
  BY <1>1, LenProperties DEF Typed
<1>4. prev = IF e > at.curpos THEN At(e - 1) ELSE line.prevchar
  OBVIOUS
<1>5. IF Fits(hlen)
      THEN /\ line' = [line EXCEPT !.lineend = box.linebreak /\ c = Newline, !.parend = parend,
                                   !.oldhlen = line.hlen, !.hlen = hlen,
                                   !.prevchar = c, !.firstword = FALSE,
                                   !.spaces = IF c \in {Space, Newline} THEN @ + 1 ELSE @]
           /\ at' = [at EXCEPT !.lastdelim = e, !.curpos = IF c = Nul THEN e ELSE e + 1]
           /\ textcopy' = IF c = Newline THEN [textcopy EXCEPT ![e + 1] = Space] ELSE textcopy
      ELSE /\ line' = [line EXCEPT !.lineend = box.linebreak /\ c = Newline, !.parend = parend,
                                   !.oldhlen = line.hlen, !.hlen = hlen,
                                   !.prevchar = prev]
           /\ at' = [at EXCEPT !.curpos = e]
           /\ textcopy' = textcopy
  BY DEF NextWord
<1> HIDE DEF e, prev, parend, hlen
<1>6. CASE Fits(hlen)
  <2>1. Paragraph'
    BY <1>1, <1>2, <1>3, <1>4, <1>5, <1>6, TakenParagraph
  <2> QED
    BY <1>3, <1>5, <1>6, <2>1, CopyChanges
<1>7. CASE ~Fits(hlen)
  <2>1. ~parend
    BY <1>1, <1>2, <1>3, <1>4, <1>7, LeftParagraph
  <2>2. line'.hlen = hlen /\ line'.parend = parend
    BY <1>5, <1>7 DEF Typed
  <2>3. ~line.firstword /\ ~(hlen < Linewidth)
    BY <1>7 DEF Fits
  <2>4. Linewidth' = Linewidth
    BY DEF NextWord, Linewidth, Doindent
  <2>5. Paragraph'
    BY <2>1, <2>2, <2>3, <2>4 DEF Paragraph
  <2> QED
    BY <1>3, <1>5, <1>7, <2>5 DEF Alike
<1> QED
  BY <1>6, <1>7

LEMMA AlikeTwice ==
  ASSUME NEW c, NEW d, NEW e, Alike(c, d), Alike(d, e)
  PROVE  Alike(c, e)
BY DEF Alike

\* The texts of two calls: a new one, and the rest of one.
LEMMA EnterSeen ==
  ASSUME NEW o \in Nat, all' \in Seq(Char), o <= Len(all)', Enter(SubSeq(all, o + 1, Len(all))'),
         Ink(Shown(out))' = Ink(SubSeq(all', 1, o))
  PROVE  KeptInv'
<1>1. PICK w \in Nat, a \in Seq(Char) : a = all' /\ w = Len(a) /\ o <= w
  BY LenProperties
<1>2. /\ textcopy' = SubSeq(a, o + 1, w) /\ pc' = "outer"
      /\ at'.curpos = 0
  BY <1>1 DEF Enter
<1>3. /\ Len(SubSeq(a, o + 1, w)) = w - o
      /\ \A k \in 1..w - o : SubSeq(a, o + 1, w)[k] = a[o + k]
  BY <1>1
<1>4. Before' = o
  <2>1. Before' = w - (w - o)
    BY <1>1, <1>2, <1>3 DEF Before
  <2> QED
    BY <1>1, <2>1
<1>5. \A k \in 1..Len(textcopy') : Alike(textcopy'[k], all'[Before' + k])
  BY <1>1, <1>2, <1>3, <1>4 DEF Alike
<1>6. SeenUpTo(at.curpos)'
  <2>1. Before' + at'.curpos = o
    BY <1>2, <1>4
  <2> QED
    BY <2>1 DEF SeenUpTo
<1> QED
  BY <1>2, <1>5, <1>6 DEF KeptInv, Alike, Blank

LEMMA KeptInit == Init => KeptInv
<1> SUFFICES ASSUME Init PROVE KeptInv
  OBVIOUS
<1>1. Len(textcopy) = 0 /\ 1..Len(textcopy) = {}
  BY DEF Init
<1> QED
  BY <1>1 DEF Init, KeptInv

LEMMA KeptStep == LineInv /\ KeptInv /\ [Next]_vars => KeptInv'
<1> SUFFICES ASSUME LineInv, KeptInv, [Next]_vars PROVE KeptInv'
  OBVIOUS
<1>1. /\ Typed /\ textcopy \in Seq(Char) /\ all \in Seq(Char) /\ at.curpos \in Nat
      /\ Len(textcopy) \in Nat /\ Len(all) \in Nat /\ Len(textcopy) <= Len(all)
      /\ ret \in Nat
  BY LenProperties DEF LineInv, Typed
<1>2. ASSUME NEW t \in Texts, PS_show_boxed(t) PROVE KeptInv'
  <2>1. t \in Seq(Char) /\ all' = t /\ Enter(t) /\ out' = out /\ out = <<>>
    BY <1>2, TextOfChar DEF PS_show_boxed, KeptInv
  <2>2. PICK o \in Nat : o = 0
    OBVIOUS
  <2>3. SubSeq(t, o + 1, Len(t)) = t /\ SubSeq(t, 1, o) = <<>> /\ o <= Len(t)
    BY <2>1, <2>2
  <2>4. Shown(out') = <<>>
    BY <2>1, NothingShown
  <2> QED
    BY <2>1, <2>3, <2>4, EnterSeen
<1>3. CASE Continue
  <2>1. /\ pc = "returned" /\ ret > 0 /\ UNCHANGED <<all, box, out, ret>>
        /\ Enter(SubSeq(all, Len(all) - ret + 1, Len(all)))
    BY <1>3 DEF Continue
  <2>2. SeenUpTo(at.curpos) /\ at.curpos <= Len(textcopy) /\ ret = Len(textcopy) - at.curpos
    BY <2>1 DEF KeptInv
  <2>3. PICK o \in Nat : o = Len(all) - ret /\ o <= Len(all) /\ o = Before + at.curpos
    <3>1. Len(all) - ret = Before + at.curpos /\ Len(all) - ret \in Nat
      BY <1>1, <2>2 DEF Before
    <3> QED
      BY <1>1, <3>1
  <2>4. Ink(Shown(out)) = Ink(SubSeq(all, 1, o))
    BY <2>2, <2>3 DEF SeenUpTo
  <2> QED
    BY <1>1, <2>1, <2>3, <2>4, EnterSeen
<1>4. CASE StartLine
  <2>1. /\ pc = "outer" /\ At(at.curpos) # Nul
        /\ line' = [NoLine EXCEPT !.prevchar = line.prevchar] /\ pc' = "inner"
        /\ UNCHANGED <<all, box, textcopy, at, par, ypos, out, ret>>
    BY <1>4 DEF StartLine
  <2>2. at.curpos = at.lastbreak
    BY <1>1, <2>1, AtIs DEF LineInv, BetweenLines, AtLineStart
  <2>3. SeenUpTo(at.lastbreak)'
    BY <2>1, <2>2 DEF KeptInv, SeenUpTo, Before
  <2>4. Paragraph'
    BY <2>1 DEF Paragraph, NoLine
  <2> QED
    BY <2>1, <2>3, <2>4 DEF KeptInv, Before, Alike, Blank
<1>5. CASE NextWord
  <2>1. /\ pc = "inner" /\ pc' = "inner" /\ SeenUpTo(at.lastbreak) /\ Paragraph
        /\ UNCHANGED <<all, box, par, ypos, out, ret>>
    BY <1>5 DEF NextWord, KeptInv
  <2>2. Nothing \/ WordTaken
    <3>1. Nothing \/ WordTaken \/ WordLeft
      BY <1>5 DEF LineInv, NextWord
    <3>2. PICK h \in Nat, w \in Int : h = line.hlen /\ w = Linewidth
      BY <1>1, LinewidthIs DEF Typed
    <3>3. h < w /\ (WordLeft => h >= w)
      BY <1>5, <3>2 DEF NextWord, Collecting, WordLeft
    <3> QED
      BY <3>1, <3>2, <3>3
  <2>3. /\ Paragraph'
        /\ textcopy' \in Seq(Char) /\ Len(textcopy') = Len(textcopy)
        /\ \A k \in 1..Len(textcopy) : Alike(textcopy'[k], textcopy[k])
    BY <1>1, <1>5, <2>1, <2>2, NextWordParagraph
  <2>4. at'.lastbreak = at.lastbreak
    BY <1>1, <1>5 DEF NextWord, Typed
  <2>5. Before' = Before
    BY <2>1, <2>3 DEF Before
  <2>6. SeenUpTo(at.lastbreak)'
    BY <2>1, <2>4, <2>5 DEF SeenUpTo
  <2>7. \A k \in 1..Len(textcopy') : Alike(textcopy'[k], all'[Before' + k])
    BY <2>1, <2>3, <2>5, AlikeTwice DEF KeptInv
  <2> QED
    BY <2>1, <2>3, <2>6, <2>7 DEF KeptInv, Alike, Blank
<1>6. CASE EndLine
  <2>1. Nothing \/ WordTaken \/ WordLeft
    BY <1>6 DEF LineInv, EndLine
  <2>2. CASE pc' # "crashed"
    BY <1>1, <1>6, <2>1, <2>2, EndLineKeeps
  <2>3. CASE pc' = "crashed"
    BY <1>6, <2>3 DEF EndLine, KeptInv, Before, Alike, Blank
  <2> QED
    BY <2>2, <2>3
<1>7. CASE Return
  <2>1. /\ pc = "outer" /\ pc' = "returned"
        /\ ret' = IF at.curpos = Len(textcopy) THEN 0 ELSE Len(textcopy) - at.curpos
        /\ UNCHANGED <<all, box, textcopy, at, line, par, ypos, out>>
    BY <1>7 DEF Return
  <2>2. at.curpos <= Len(textcopy)
    BY <2>1 DEF LineInv, BetweenLines
  <2>3. ret' = Len(textcopy) - at.curpos
    BY <1>1, <2>1
  <2>4. SeenUpTo(at.curpos)'
    BY <2>1 DEF KeptInv, SeenUpTo, Before
  <2> QED
    BY <2>1, <2>2, <2>3, <2>4 DEF KeptInv, Before, Alike, Blank
<1>8. CASE UNCHANGED vars
  BY <1>8 DEF vars, KeptInv, SeenUpTo, Before, Paragraph, At, Linewidth, Doindent, Alike, Blank
<1> QED
  BY <1>2, <1>3, <1>4, <1>5, <1>6, <1>7, <1>8 DEF Next, Step

----------------------------------------------------------------------------
(* Theorems.                                                               *)

\* Whatever is shown, the words of a line lie between its beginning, the last
\* delimiter and the position, and its width and blanks are as counted.
THEOREM LineInvariance == Spec => []LineInv
  BY LineInit, LineStep, PTL DEF Spec

\* A line of more than one word is not wider than the box, the hyphen included,
\* unless by a soft hyphen of the text that it is broken at: whatever the text,
\* the box, the letters and the breaks within words are.
THEOREM LinesAreFit == Spec => []LinesFit
<1>1. Init => LinesFit
  BY DEF Init, LinesFit, ToSet
<1>2. LinesFit /\ LineInv /\ [Next]_vars => LinesFit'
  <2> SUFFICES ASSUME LinesFit, LineInv, [Next]_vars PROVE LinesFit'
    OBVIOUS
  <2>1. \A l \in ToSet(out) : FitsIn(l)
    BY DEF LinesFit, FitsIn
  <2>2. CASE UNCHANGED out
    BY <2>2 DEF LinesFit, Delimiters, Reckoned, Glyphs
  <2>3. CASE ~UNCHANGED out
    <3>1. PICK l \in ShownLine : out' = Append(out, l) /\ FitsIn(l)
      BY <2>3, LinesShown
    <3>2. \A k \in ToSet(out)' : FitsIn(k)
      BY <2>1, <3>1, ToSetOfAppend DEF LineInv, Typed
    <3> QED
      BY <3>2 DEF LinesFit, FitsIn
  <2> QED
    BY <2>2, <2>3
<1> QED
  BY <1>1, <1>2, LineInvariance, PTL DEF Spec

\* A hyphen is put within a word: if no fewer characters than the code's own
\* value of hyphenminchars are kept on either side.
THEOREM HyphensAreWithin ==
  ASSUME MinChars >= 3
  PROVE  Spec => []HyphenWithin
<1>1. Init => HyphenWithin
  BY DEF Init, HyphenWithin, ToSet
<1>2. HyphenWithin /\ LineInv /\ [Next]_vars => HyphenWithin'
  <2> SUFFICES ASSUME HyphenWithin, LineInv, [Next]_vars PROVE HyphenWithin'
    OBVIOUS
  <2>1. \A l \in ToSet(out) : BreaksWithin(l)
    BY DEF HyphenWithin, BreaksWithin
  <2>2. CASE UNCHANGED out
    BY <2>2 DEF HyphenWithin, Delimiters
  <2>3. CASE ~UNCHANGED out
    <3>1. PICK l \in ShownLine : out' = Append(out, l) /\ BreaksWithin(l)
      BY <2>3, LinesShown
    <3>2. \A k \in ToSet(out)' : BreaksWithin(k)
      BY <2>1, <3>1, ToSetOfAppend DEF LineInv, Typed
    <3> QED
      BY <3>2 DEF HyphenWithin, BreaksWithin
  <2> QED
    BY <2>2, <2>3
<1> QED
  BY <1>1, <1>2, LineInvariance, PTL DEF Spec

\* A line that is being collected has a width.
Wide == pc # "idle" => box.width > box.parindent

LEMMA WideStep ==
  ASSUME "wide" \in BoxedRules, Wide, [Next]_vars
  PROVE  Wide'
<1>1. ASSUME NEW t \in Texts, PS_show_boxed(t) PROVE Wide'
  BY <1>1 DEF PS_show_boxed, Allowed, Rule, Wide
<1>2. ASSUME pc # "idle", UNCHANGED box PROVE Wide'
  BY <1>2 DEF Wide
<1>3. ASSUME Continue \/ Step PROVE pc # "idle" /\ UNCHANGED box
  BY <1>3 DEF Continue, Step, StartLine, NextWord, EndLine, Return
<1>4. ASSUME UNCHANGED vars PROVE Wide'
  BY <1>4 DEF vars, Wide
<1> QED
  BY <1>1, <1>2, <1>3, <1>4 DEF Next

\* What is left over of a line is divided by the number of blanks shown in it,
\* in boxes that are wider than the indent.
THEOREM BlanksAreRight ==
  ASSUME "wide" \in BoxedRules
  PROVE  Spec => []SpacesCounted
<1>1. Init => SpacesCounted /\ Wide
  BY DEF Init, SpacesCounted, ToSet, Wide
<1>2. SpacesCounted /\ Wide /\ LineInv /\ [Next]_vars => SpacesCounted' /\ Wide'
  <2> SUFFICES ASSUME SpacesCounted, Wide, LineInv, [Next]_vars PROVE SpacesCounted'
    BY WideStep
  <2>1. \A l \in ToSet(out) : CountsBlanks(l)
    BY DEF SpacesCounted, CountsBlanks
  <2>2. CASE UNCHANGED out
    BY <2>2 DEF SpacesCounted
  <2>3. CASE ~UNCHANGED out
    <3>1. Linewidth > 0
      <4>1. box.width > box.parindent
        BY <2>3, LinesShown DEF Wide
      <4>2. box.width \in Nat /\ box.parindent \in Nat
        BY DEF LineInv, Typed, Box
      <4> QED
        BY <4>1, <4>2 DEF Linewidth
    <3>2. PICK l \in ShownLine : out' = Append(out, l) /\ CountsBlanks(l)
      BY <2>3, <3>1, LinesShown
    <3>3. \A k \in ToSet(out)' : CountsBlanks(k)
      BY <2>1, <3>2, ToSetOfAppend DEF LineInv, Typed
    <3> QED
      BY <3>3 DEF SpacesCounted, CountsBlanks
  <2> QED
    BY <2>2, <2>3
<1> QED
  BY <1>1, <1>2, LineInvariance, PTL DEF Spec

\* Nothing of a text is lost or shown twice, in the call and in what it
\* returns: whatever the text, the box, the letters and the breaks are.
THEOREM NothingLost == Spec => []TextKept
<1>1. KeptInv => TextKept
  BY DEF KeptInv, TextKept, SeenUpTo, Before
<1> QED
  BY <1>1, KeptInit, KeptStep, LineInvariance, PTL DEF Spec

=============================================================================
