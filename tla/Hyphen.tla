------------------------------- MODULE Hyphen -------------------------------
(***************************************************************************)
(* Hyphenation (src/hyphen.c and PS_hyphenate).  A dictionary is a set of   *)
(* patterns: letters with a digit before, between and behind them.  Every   *)
(* pattern that occurs in the word raises the digits at its place, and a    *)
(* word may be broken where the digit is odd in the end.  The code finds    *)
(* the patterns by an automaton whose states are the prefixes of patterns.  *)
(*                                                                         *)
(* Words are sequences of letters.  A digit stands behind the letter of the *)
(* same number; digit 0 of a pattern stands before its first letter.        *)
(***************************************************************************)
EXTENDS Integers, Sequences, FiniteSets, SequencesExt, FiniteSetsExt

CONSTANTS
  Letters, Other,   \* isalpha, and a character that is not
  Lines,            \* lines of dictionaries: [word, pattern]
  MaxLines,         \* bound: lines of a dictionary
  Texts,            \* what PS_hyphenate is called with
  MinChars          \* the value hyphenminchars

Dot == "."          \* written around the word and in patterns for its ends

ASSUME OtherAssumption ==
  Other \notin Letters /\ Dot \notin Letters \cup {Other} /\ "-1" \notin Letters
ASSUME LinesAssumption == \A l \in Lines :
  /\ l.word \in Seq(Letters \cup {Dot}) /\ l.word # <<>>
  /\ l.pattern \in [0..Len(l.word) -> 0..9]
  /\ l.word[1] = Dot => l.pattern[0] = 0
ASSUME TextsAssumption == Texts \subseteq Seq(Letters \cup {Other})
ASSUME MinCharsAssumption == MinChars \in Nat \ {0}

VARIABLES
  dict,      \* states, and match: the patterns by the state they end in
  text,      \* what is hyphenated, without the characters before its first letter
  prep,      \* prep_word: its letters between dots
  i,         \* the number of characters copied, then of letters of prep read
  state,     \* the state of the automaton, None for -1
  hyphens,   \* the digits so far, in the end the result
  pc

vars == <<dict, text, prep, i, state, hyphens, pc>>

None == <<"-1">>

NoDict == [states |-> {<<>>}, match |-> <<>>]

\* hnj_get_state and hnj_add_trans make a state of every prefix; a transition
\* leads to the state that is longer by the letter read.
AddLine(d, l) ==
  [states |-> d.states \cup Prefixes(l.word),
   match |-> [w \in DOMAIN d.match \cup {l.word} |->
                IF w = l.word THEN l.pattern ELSE d.match[w]]]

\* Mutant: the letters are taken off at the wrong end.
SuffixFront(w, n) == SubSeq(w, 1, Len(w) - n)

\* The suffix of w without its first n letters.
Suffix(w, n) == SubSeq(w, n + 1, Len(w))

\* Mutant: what falls back forgets one letter, state or not.
FallbackShort(d, w) == IF Len(w) < 2 THEN None ELSE Suffix(w, 1)

\* Mutant: the search begins with the state itself.
FallbackItself(d, w) ==
  LET shorter == {n \in 0..Len(w) - 1 : Suffix(w, n) \in d.states}
  IN  IF shorter = {} THEN None ELSE Suffix(w, Min(shorter))

\* The longest suffix that is a state and neither w nor empty.
Fallback(d, w) ==
  LET shorter == {n \in 1..Len(w) - 1 : Suffix(w, n) \in d.states}
  IN  IF shorter = {} THEN None ELSE Suffix(w, Min(shorter))

----------------------------------------------------------------------------
Init ==
  /\ dict = NoDict
  /\ text = <<>> /\ prep = <<>> /\ i = 0 /\ state = <<>> /\ hyphens = <<>>
  /\ pc = "loading"

\* hnj_hyphen_load.
Load(l) ==
  /\ pc = "loading"
  /\ Cardinality(DOMAIN dict.match) < MaxLines
  /\ dict' = AddLine(dict, l)
  /\ UNCHANGED <<text, prep, i, state, hyphens, pc>>

IsLetter(c) == c \in Letters

\* The characters before the first letter, which PS_hyphenate passes over.
Leading(t) == CHOOSE k \in 0..Len(t) :
  /\ \A j \in 1..k : ~IsLetter(t[j])
  /\ k < Len(t) => IsLetter(t[k + 1])

\* Start hnj_hyphen_hyphenate, if the word is long enough.
Hyphenate(t) ==
  /\ pc = "loading"
  /\ Len(t) - Leading(t) > 2 * MinChars
  /\ text' = Suffix(t, Leading(t))
  /\ prep' = <<Dot>>
  /\ pc' = "copying"
  /\ UNCHANGED <<dict, i, state, hyphens>>

\* Only letters are copied to prep_word.
CopyLetter ==
  /\ pc = "copying" /\ i < Len(text)
  /\ prep' = IF IsLetter(text[i + 1]) THEN Append(prep, text[i + 1]) ELSE prep
  /\ i' = i + 1
  /\ UNCHANGED <<dict, text, state, hyphens, pc>>

StartReading ==
  /\ pc = "copying" /\ i = Len(text)
  /\ prep' = Append(prep, Dot)
  /\ hyphens' = [q \in 0..Len(prep') |-> 0]
  /\ i' = 0 /\ pc' = "reading"
  /\ UNCHANGED <<dict, text, state>>

Reading == pc = "reading" /\ i < Len(prep)

\* Mutant: the digits are placed one letter late.
RaiseLate(d, w, n, h) ==
  IF w \notin DOMAIN d.match THEN h
  ELSE [q \in DOMAIN h |->
          IF q \in n - Len(w) + 1..n
          THEN Max({h[q], d.match[w][q - n + Len(w) - 1]}) ELSE h[q]]

\* Raise the digits by the pattern of state w, which ends with letter n of prep.
Raise(d, w, n, h) ==
  IF w \notin DOMAIN d.match THEN h
  ELSE [q \in DOMAIN h |->
          IF q \in n - Len(w)..n
          THEN Max({h[q], d.match[w][q - n + Len(w)]}) ELSE h[q]]

Onto == Append(state, prep[i + 1])

Transition ==
  /\ Reading
  /\ state # None /\ Onto \in dict.states
  /\ state' = Onto
  /\ hyphens' = Raise(dict, Onto, i + 1, hyphens)
  /\ i' = i + 1
  /\ UNCHANGED <<dict, text, prep, pc>>

FallBack ==
  /\ Reading
  /\ state # None /\ Onto \notin dict.states
  /\ state' = Fallback(dict, state)
  /\ UNCHANGED <<dict, text, prep, i, hyphens, pc>>

\* try_next_letter: the letter at hand is passed over.
Restart ==
  /\ Reading
  /\ state = None
  /\ state' = <<>>
  /\ i' = i + 1
  /\ UNCHANGED <<dict, text, prep, hyphens, pc>>

\* Mutant: the digits are not moved.
Unmoved(h, m, n) ==
  [j \in 0..n - 1 |-> IF j \in 1..m - 3 THEN h[j + 1] ELSE 0]

\* h are digits behind the dot and m letters: the result for n characters.
\* The digit behind letter j + 1 becomes that of character j.
Moved(h, m, n) ==
  [j \in 0..n - 1 |-> IF j \in 1..m - 3 THEN h[j + 2] ELSE 0]

Return ==
  /\ pc = "reading"
  /\ i = Len(prep)
  /\ hyphens' = Moved(hyphens, Len(prep) - 2, Len(text))
  /\ pc' = "done"
  /\ UNCHANGED <<dict, text, prep, i, state>>

Run == CopyLetter \/ StartReading \/ Transition \/ FallBack \/ Restart \/ Return

Next ==
  \/ \E l \in Lines : Load(l)
  \/ \E t \in Texts : Hyphenate(t)
  \/ Run

Spec == Init /\ [][Next]_vars

\* hnj_hyphen_hyphenate runs until it returns.
FairSpec == Spec /\ WF_vars(Run)

----------------------------------------------------------------------------
(* Properties.                                                             *)

HTypeOK ==
  /\ dict.states \subseteq Seq(Letters \cup {Dot}) /\ <<>> \in dict.states
  /\ DOMAIN dict.match \subseteq dict.states
  /\ \A w \in DOMAIN dict.match : dict.match[w] \in [0..Len(w) -> 0..9]
  /\ text \in Seq(Letters \cup {Other}) /\ prep \in Seq(Letters \cup {Dot})
  /\ i \in 0..Len(IF pc = "copying" THEN text ELSE prep)
  /\ state \in dict.states \cup {None}
  /\ \A q \in DOMAIN hyphens : hyphens[q] \in 0..9
  /\ pc \in {"loading", "copying", "reading", "done"}

\* Word w ends with letter n of prep.
EndsAt(w, n) == n >= Len(w) /\ SubSeq(prep, n - Len(w) + 1, n) = w

\* The digits the patterns of the dictionary have behind letter q of prep.
Digits(q) ==
  {dict.match[h[1]][q - h[2] + Len(h[1])] : h \in
     {o \in (DOMAIN dict.match) \X (1..Len(prep)) :
        EndsAt(o[1], o[2]) /\ q \in o[2] - Len(o[1])..o[2]}}

\* The state is what was read last: were it longer, or from elsewhere in the
\* word, a pattern would be applied where it does not occur.
StateWasRead == state # None => EndsAt(state, i)

\* Every digit stems from a pattern that occurs at its place, whatever
\* dictionary was loaded, so that a word is never broken where no pattern
\* breaks it.
Sound ==
  pc = "reading" => \A q \in DOMAIN hyphens : hyphens[q] \in Digits(q) \cup {0}

\* What the preprocessor of dictionaries sees to, and the comment in
\* hnj_hyphen_load means by a "preprocessed rule table": a pattern includes
\* those its end consists of.
Preprocessed ==
  \A s \in dict.states : \A n \in 0..Len(s) - 1 :
    Suffix(s, n) \in DOMAIN dict.match =>
      /\ s \in DOMAIN dict.match
      /\ \A k \in 0..Len(s) - n : dict.match[s][k + n] >= dict.match[Suffix(s, n)][k]

\* No letter a pattern begins with is passed over, because some state goes on
\* with it wherever the automaton is.
Dense ==
  \A s \in dict.states \ {<<>>}, c \in Letters :
    (Last(s) = Dot => s = <<Dot>>) /\ <<c>> \in dict.states =>
      \E n \in 0..Len(s) - 1 : Append(Suffix(s, n), c) \in dict.states

\* The result by definition: behind every letter but the first and the last
\* two the highest digit of any pattern that occurs there.
ByDefinition ==
  [j \in 0..Len(text) - 1 |->
     IF j \in 1..Len(text) - 3 THEN Max({0} \cup Digits(j + 2)) ELSE 0]

LettersOnly == \A j \in 1..Len(text) : IsLetter(text[j])

\* The automaton finds every pattern in the word and the digits reach the
\* caller at their places, if the dictionary is preprocessed and dense.
AsDefined ==
  pc = "done" /\ LettersOnly /\ Preprocessed /\ Dense => hyphens = ByDefinition

\* The loop over the fallback states comes to an end for every letter.
HyphenationEnds == pc = "copying" ~> pc = "done"
=============================================================================
