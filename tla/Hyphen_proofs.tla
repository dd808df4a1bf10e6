--------------------------- MODULE Hyphen_proofs ---------------------------
(***************************************************************************)
(* What Hyphen computes for every dictionary, every word and every value of *)
(* hyphenminchars: the state of the automaton is what has been read last,   *)
(* no digit is raised but by a pattern that occurs in the word there, and   *)
(* under the conditions of AsDefined every pattern that occurs is found.    *)
(***************************************************************************)
EXTENDS Hyphen, SequenceTheorems, FiniteSetTheorems, TLAPS

Char == Letters \cup {Dot}

----------------------------------------------------------------------------
(* Numbers and sequences.                                                  *)

\* A set of natural numbers that is not empty has a least one.
LEMMA Least ==
  ASSUME NEW T \in SUBSET Nat, T # {}
  PROVE  Min(T) \in T /\ \A y \in T : Min(T) <= y
<1> DEFINE Below == {0..n : n \in T}
<1>1. Below \subseteq FiniteSubsetsOf(Nat) /\ Below # {}
  <2>1. \A n \in Nat : IsFiniteSet(0..n) /\ 0..n \in SUBSET Nat
    BY FS_Interval
  <2>2. \A n \in Nat : 0..n \in FiniteSubsetsOf(Nat)
    BY <2>1 DEF FiniteSubsetsOf
  <2> QED
    BY <2>2
<1>2. PICK b \in Below : \A c \in Below : ~ (<<c, b>> \in StrictSubsetOrdering(Nat))
  <2> HIDE DEF Below
  <2> QED
    BY <1>1, FS_StrictSubsetOrderingWellFounded, WFMin
<1>3. PICK x \in T : b = 0..x
  OBVIOUS
<1>4. ASSUME NEW y \in T PROVE x <= y
  <2>1. ~ (0..y \subseteq 0..x /\ 0..y # 0..x)
    <3>1. ~ (<<0..y, b>> \in StrictSubsetOrdering(Nat))
      BY <1>2
    <3>2. 0..y \in SUBSET Nat /\ 0..x \in SUBSET Nat
      OBVIOUS
    <3> QED
      BY <1>3, <3>1, <3>2, Zenon DEF StrictSubsetOrdering
  <2>2. x \in 0..x /\ x \in Nat /\ y \in Nat
    OBVIOUS
  <2>3. CASE y < x
    <3>1. 0..y \subseteq 0..x /\ x \notin 0..y
      BY <2>2, <2>3
    <3> QED
      BY <2>1, <2>2, <3>1
  <2> QED
    BY <2>2, <2>3
<1> QED
  BY <1>4 DEF Min

\* The letters of a suffix.
LEMMA SuffixIs ==
  ASSUME NEW S, NEW w \in Seq(S), NEW n \in 0..Len(w)
  PROVE  /\ Suffix(w, n) \in Seq(S)
         /\ Len(Suffix(w, n)) = Len(w) - n
         /\ \A j \in 1..Len(w) - n : Suffix(w, n)[j] = w[j + n]
<1>1. \A j \in n + 1..Len(w) : w[j] \in S
  BY ElementOfSeq
<1>2. /\ SubSeq(w, n + 1, Len(w)) \in Seq(S)
      /\ Len(SubSeq(w, n + 1, Len(w))) = IF n + 1 <= Len(w) THEN Len(w) - (n + 1) + 1 ELSE 0
      /\ \A j \in 1..Len(w) - (n + 1) + 1 : SubSeq(w, n + 1, Len(w))[j] = w[n + 1 + j - 1]
  BY <1>1, SubSeqProperties, LenProperties
<1> QED
  BY <1>2, LenProperties DEF Suffix

\* A prefix is made of the same letters.
LEMMA PrefixIs ==
  ASSUME NEW S, NEW w \in Seq(S), NEW p \in Prefixes(w)
  PROVE  p \in Seq(S)
<1>1. PICK l \in 0..Len(w) : p = SubSeq(w, 1, l)
  BY DEF Prefixes
<1>2. \A j \in 1..l : w[j] \in S
  BY <1>1, ElementOfSeq, LenProperties
<1> QED
  BY <1>1, <1>2, SubSeqProperties, LenProperties

\* To end at letter n is to agree with the word letter by letter.
LEMMA Ends ==
  ASSUME NEW S, NEW w \in Seq(S), prep \in Seq(S), NEW n \in 0..Len(prep)
  PROVE  EndsAt(w, n) <=>
           n >= Len(w) /\ \A j \in 1..Len(w) : w[j] = prep[n - Len(w) + j]
<1> DEFINE m == n - Len(w) + 1
<1>1. Len(w) \in Nat /\ Len(prep) \in Nat
  BY LenProperties
<1>2. ASSUME n >= Len(w)
      PROVE  SubSeq(prep, m, n) = w <=> \A j \in 1..Len(w) : w[j] = prep[n - Len(w) + j]
  <2>1. \A j \in m..n : prep[j] \in S
    BY <1>1, <1>2, ElementOfSeq
  <2>2. /\ SubSeq(prep, m, n) \in Seq(S)
        /\ Len(SubSeq(prep, m, n)) = Len(w)
        /\ \A j \in 1..Len(w) : SubSeq(prep, m, n)[j] = prep[n - Len(w) + j]
    BY <1>1, <1>2, <2>1, SubSeqProperties
  <2> QED
    BY <2>2, SeqEqual
<1> QED
  BY <1>1, <1>2 DEF EndsAt

\* What ends at a letter goes on with the next.
LEMMA EndsOnto ==
  ASSUME prep \in Seq(Char), i \in 0..Len(prep) - 1, state \in Seq(Char), EndsAt(state, i)
  PROVE  Onto \in Seq(Char) /\ EndsAt(Onto, i + 1)
<1>1. Len(prep) \in Nat /\ Len(state) \in Nat /\ prep[i + 1] \in Char
  BY LenProperties, ElementOfSeq
<1>2. /\ Onto \in Seq(Char)
      /\ Len(Onto) = Len(state) + 1
      /\ \A j \in 1..Len(state) : Onto[j] = state[j]
      /\ Onto[Len(state) + 1] = prep[i + 1]
  BY <1>1, AppendProperties DEF Onto
<1>3. i >= Len(state) /\ \A j \in 1..Len(state) : state[j] = prep[i - Len(state) + j]
  BY Ends, <1>1
<1>4. \A j \in 1..Len(Onto) : Onto[j] = prep[i + 1 - Len(Onto) + j]
  BY <1>1, <1>2, <1>3
<1>5. i + 1 \in 0..Len(prep) /\ i + 1 >= Len(Onto)
  BY <1>1, <1>2, <1>3
<1>6. PICK n \in 0..Len(prep) : n = i + 1
  BY <1>5
<1>7. n >= Len(Onto) /\ \A j \in 1..Len(Onto) : Onto[j] = prep[n - Len(Onto) + j]
  BY <1>4, <1>5, <1>6
<1>8. EndsAt(Onto, n)
  BY <1>2, <1>7, Ends
<1> QED
  BY <1>2, <1>6, <1>8

\* A suffix of what ends at a letter ends there, too.
LEMMA EndsSuffix ==
  ASSUME prep \in Seq(Char), NEW n \in 0..Len(prep), NEW w \in Seq(Char), EndsAt(w, n),
         NEW k \in 0..Len(w)
  PROVE  EndsAt(Suffix(w, k), n)
<1>1. Len(prep) \in Nat /\ Len(w) \in Nat
  BY LenProperties
<1>2. n >= Len(w) /\ \A j \in 1..Len(w) : w[j] = prep[n - Len(w) + j]
  BY Ends
<1>3. /\ Suffix(w, k) \in Seq(Char)
      /\ Len(Suffix(w, k)) = Len(w) - k
      /\ \A j \in 1..Len(w) - k : Suffix(w, k)[j] = w[j + k]
  BY SuffixIs
<1>4. \A j \in 1..Len(Suffix(w, k)) : Suffix(w, k)[j] = prep[n - Len(Suffix(w, k)) + j]
  BY <1>1, <1>2, <1>3
<1>5. PICK v \in Seq(Char) : v = Suffix(w, k)
  BY <1>3
<1>6. n >= Len(v) /\ \A j \in 1..Len(v) : v[j] = prep[n - Len(v) + j]
  BY <1>1, <1>2, <1>3, <1>4, <1>5
<1>7. EndsAt(v, n)
  BY <1>6, Ends
<1> QED
  BY <1>5, <1>7

\* The state fallen back to is a state, and a suffix.
LEMMA FallsBack ==
  ASSUME NEW d, NEW w \in Seq(Char), Fallback(d, w) # None
  PROVE  /\ Fallback(d, w) \in d.states
         /\ \E k \in 0..Len(w) : Fallback(d, w) = Suffix(w, k)
<1> DEFINE shorter == {n \in 1..Len(w) - 1 : Suffix(w, n) \in d.states}
<1>1. shorter # {} /\ Fallback(d, w) = Suffix(w, Min(shorter))
  BY DEF Fallback
<1>2. shorter \in SUBSET Nat
  OBVIOUS
<1>3. Min(shorter) \in shorter
  <2> HIDE DEF shorter
  <2> QED
    BY <1>1, <1>2, Least
<1>4. PICK m \in shorter : m = Min(shorter)
  BY <1>3
<1>5. m \in 0..Len(w) /\ Suffix(w, m) \in d.states
  BY LenProperties
<1> QED
  BY <1>1, <1>4, <1>5

----------------------------------------------------------------------------
(* The inductive invariant.                                                *)

\* In each phase the variables of the next are as it begins with them.
Phases ==
  /\ pc = "loading" => i = 0 /\ prep = <<>>
  /\ pc \in {"loading", "copying"} => state = <<>> /\ hyphens = <<>>
  /\ pc = "reading" => DOMAIN hyphens = 0..Len(prep)

HInv == HTypeOK /\ StateWasRead /\ Sound /\ Phases

\* The empty word ends everywhere.
LEMMA EmptyEnds == ASSUME NEW n \in Nat PROVE EndsAt(<<>>, n)
<1>1. SubSeq(prep, n + 1, n) = <<>>
  BY SubSeqEmpty
<1> QED
  BY <1>1 DEF EndsAt

LEMMA EmptyEndsNext == ASSUME NEW n \in Nat PROVE EndsAt(<<>>, n)'
<1>1. SubSeq(prep', n + 1, n) = <<>>
  BY SubSeqEmpty
<1> QED
  BY <1>1 DEF EndsAt

LEMMA InitInv == Init => HInv
<1> SUFFICES ASSUME Init PROVE HInv
  OBVIOUS
<1>1. HTypeOK
  BY DEF Init, NoDict, HTypeOK
<1>2. StateWasRead
  BY EmptyEnds DEF Init, StateWasRead
<1> QED
  BY <1>1, <1>2 DEF Init, HInv, Sound, Phases

\* A line makes states of sequences, and digits behind each of their letters.
LEMMA LoadInv == ASSUME HInv, NEW l \in Lines, Load(l) PROVE HInv'
<1>1. /\ l.word \in Seq(Char)
      /\ l.pattern \in [0..Len(l.word) -> 0..9]
  BY LinesAssumption DEF Char
<1>2. /\ dict'.states = dict.states \cup Prefixes(l.word)
      /\ DOMAIN dict'.match = DOMAIN dict.match \cup {l.word}
      /\ \A w \in DOMAIN dict'.match :
           dict'.match[w] = IF w = l.word THEN l.pattern ELSE dict.match[w]
  BY DEF Load, AddLine
<1>3. l.word \in Prefixes(l.word)
  <2>1. SubSeq(l.word, 1, Len(l.word)) = l.word /\ Len(l.word) \in Nat
    BY <1>1, SubSeqFull, LenProperties
  <2> QED
    BY <2>1 DEF Prefixes
<1>4. Prefixes(l.word) \subseteq Seq(Char)
  BY <1>1, PrefixIs
<1>5. HTypeOK'
  BY <1>1, <1>2, <1>3, <1>4 DEF HInv, HTypeOK, Load, Char
<1> QED
  BY <1>5 DEF HInv, Load, StateWasRead, EndsAt, Sound, Phases

\* There is a first letter, or none.
LEMMA LeadingIs == ASSUME NEW t \in Texts PROVE Leading(t) \in 0..Len(t)
<1>1. t \in Seq(Letters \cup {Other}) /\ Len(t) \in Nat
  BY TextsAssumption, LenProperties
<1> DEFINE found == {k \in 0..Len(t) : k < Len(t) => IsLetter(t[k + 1])}
<1>2. Len(t) \in found /\ found \in SUBSET Nat
  BY <1>1
<1>3. Min(found) \in found /\ \A y \in found : Min(found) <= y
  <2> HIDE DEF found
  <2> QED
    BY <1>2, Least
<1>4. PICK k \in found : \A y \in found : k <= y
  BY <1>3
<1>5. \A j \in 1..k : ~IsLetter(t[j])
  <2> SUFFICES ASSUME NEW j \in 1..k PROVE ~IsLetter(t[j])
    OBVIOUS
  <2>1. j - 1 \in 0..Len(t) /\ j - 1 < k /\ j - 1 < Len(t) /\ (j - 1) + 1 = j
    BY <1>1
  <2>2. j - 1 \notin found
    BY <1>4, <2>1
  <2> QED
    BY <2>1, <2>2
<1>6. k \in 0..Len(t) /\ (k < Len(t) => IsLetter(t[k + 1]))
  OBVIOUS
<1> QED
  BY <1>5, <1>6 DEF Leading

LEMMA HyphenateInv == ASSUME HInv, NEW t \in Texts, Hyphenate(t) PROVE HInv'
<1>1. t \in Seq(Letters \cup {Other}) /\ Leading(t) \in 0..Len(t)
  BY TextsAssumption, LeadingIs
<1>2. text' \in Seq(Letters \cup {Other})
  BY <1>1, SuffixIs DEF Hyphenate
<1>3. prep' = <<Dot>> /\ prep' \in Seq(Char) /\ i' = 0
  BY DEF Hyphenate, Char, HInv, Phases
<1>4. HTypeOK'
  <2>1. i' \in 0..Len(text') /\ i' \in 0..Len(prep') /\ UNCHANGED <<dict, hyphens, state>>
    BY <1>2, <1>3, LenProperties DEF Hyphenate
  <2> QED
    BY <1>2, <1>3, <2>1 DEF HInv, HTypeOK, Hyphenate, Char
<1>5. StateWasRead'
  BY <1>3, EmptyEndsNext DEF HInv, Phases, Hyphenate, StateWasRead
<1> QED
  BY <1>4, <1>5 DEF HInv, Phases, Hyphenate, Sound

LEMMA CopyLetterInv == ASSUME HInv, CopyLetter PROVE HInv'
<1>1. /\ text \in Seq(Letters \cup {Other}) /\ prep \in Seq(Char)
      /\ i \in 0..Len(text) /\ i < Len(text) /\ Len(text) \in Nat
      /\ i + 1 \in 1..Len(text)
  BY LenProperties DEF HInv, HTypeOK, CopyLetter, Char
<1>2. prep' \in Seq(Char)
  BY <1>1, AppendProperties DEF CopyLetter, IsLetter, Char
<1>3. i' \in 0..Len(text') /\ i' \in Nat
  BY <1>1 DEF CopyLetter
<1>4. HTypeOK'
  BY <1>2, <1>3 DEF HInv, HTypeOK, CopyLetter, Char
<1>5. StateWasRead'
  BY <1>3, EmptyEndsNext DEF HInv, Phases, CopyLetter, StateWasRead
<1> QED
  BY <1>4, <1>5 DEF HInv, Phases, CopyLetter, Sound

LEMMA StartReadingInv == ASSUME HInv, StartReading PROVE HInv'
<1>1. prep' \in Seq(Char) /\ Len(prep') \in Nat
  BY AppendProperties, LenProperties DEF HInv, HTypeOK, StartReading, Char
<1>2. DOMAIN hyphens' = 0..Len(prep') /\ \A q \in 0..Len(prep') : hyphens'[q] = 0
  BY DEF StartReading
<1>3. i' = 0 /\ pc' = "reading" /\ UNCHANGED <<dict, text, state>>
  BY DEF StartReading
<1>4. HTypeOK'
  BY <1>1, <1>2, <1>3, SMTT(30) DEF HInv, HTypeOK, Char
<1>5. StateWasRead'
  BY <1>3, EmptyEndsNext DEF HInv, Phases, StartReading, StateWasRead
<1>6. Sound'
  BY <1>2, <1>3 DEF Sound
<1> QED
  BY <1>2, <1>3, <1>4, <1>5, <1>6 DEF HInv, Phases

\* Where a pattern raises a digit, it is the pattern's that counts.
LEMMA RaisedDigits ==
  ASSUME NEW d, NEW w \in Seq(Char), NEW n \in Nat, NEW h,
         \A q \in DOMAIN h : h[q] \in 0..9,
         w \in DOMAIN d.match => d.match[w] \in [0..Len(w) -> 0..9]
  PROVE  /\ DOMAIN Raise(d, w, n, h) = DOMAIN h
         /\ \A q \in DOMAIN h :
              /\ Raise(d, w, n, h)[q] \in 0..9
              /\ \/ Raise(d, w, n, h)[q] = h[q]
                 \/ /\ w \in DOMAIN d.match
                    /\ q \in n - Len(w)..n
                    /\ Raise(d, w, n, h)[q] = d.match[w][q - n + Len(w)]
<1>1. CASE w \notin DOMAIN d.match
  BY <1>1 DEF Raise
<1>2. CASE w \in DOMAIN d.match
  <2>1. Len(w) \in Nat
    BY LenProperties
  <2>2. DOMAIN Raise(d, w, n, h) = DOMAIN h
    BY <1>2 DEF Raise
  <2>3. ASSUME NEW q \in DOMAIN h
        PROVE  /\ Raise(d, w, n, h)[q] \in 0..9
               /\ \/ Raise(d, w, n, h)[q] = h[q]
                  \/ /\ q \in n - Len(w)..n
                     /\ Raise(d, w, n, h)[q] = d.match[w][q - n + Len(w)]
    <3>1. CASE q \notin n - Len(w)..n
      BY <1>2, <3>1 DEF Raise
    <3>2. CASE q \in n - Len(w)..n
      <4> DEFINE digit == d.match[w][q - n + Len(w)]
      <4>1. q - n + Len(w) \in 0..Len(w) /\ digit \in 0..9
        BY <1>2, <2>1, <3>2
      <4>2. Raise(d, w, n, h)[q] = Max({h[q], digit})
        BY <1>2, <3>2 DEF Raise
      <4>3. Max({h[q], digit}) \in {h[q], digit}
        <5> HIDE DEF digit
        <5>1. h[q] \in Int /\ digit \in Int
          BY <4>1
        <5> QED
          BY <5>1 DEF Max
      <4> QED
        BY <3>2, <4>1, <4>2, <4>3
    <3> QED
      BY <3>1, <3>2
  <2> QED
    BY <1>2, <2>2, <2>3
<1> QED
  BY <1>1, <1>2

\* The automaton goes on: the pattern of the new state occurs where it ends.
LEMMA TransitionInv == ASSUME HInv, Transition PROVE HInv'
<1>1. /\ prep \in Seq(Char) /\ Len(prep) \in Nat
      /\ i \in 0..Len(prep) - 1 /\ i + 1 \in 1..Len(prep)
      /\ state \in Seq(Char) /\ EndsAt(state, i)
      /\ pc = "reading" /\ DOMAIN hyphens = 0..Len(prep)
      /\ \A q \in DOMAIN hyphens : hyphens[q] \in 0..9
  BY LenProperties
     DEF HInv, HTypeOK, StateWasRead, Phases, Transition, Reading, Char
<1> DEFINE w == Onto
<1> PICK n \in 1..Len(prep) : n = i + 1
  BY <1>1
<1>2. w \in Seq(Char) /\ EndsAt(w, n)
  BY <1>1, EndsOnto
<1>3. w \in DOMAIN dict.match => dict.match[w] \in [0..Len(w) -> 0..9]
  BY DEF HInv, HTypeOK
<1> DEFINE raised == Raise(dict, w, n, hyphens)
<1> HIDE DEF w
<1>4. /\ DOMAIN raised = DOMAIN hyphens
      /\ \A q \in DOMAIN hyphens :
           /\ raised[q] \in 0..9
           /\ \/ raised[q] = hyphens[q]
              \/ /\ w \in DOMAIN dict.match
                 /\ q \in n - Len(w)..n
                 /\ raised[q] = dict.match[w][q - n + Len(w)]
  <2>1. n \in Nat /\ w \in Seq(Char) /\ \A q \in DOMAIN hyphens : hyphens[q] \in 0..9
    BY <1>1, <1>2
  <2> QED
    BY <1>3, <2>1, RaisedDigits
<1> HIDE DEF raised
<1>5. /\ hyphens' = raised /\ i' = n /\ state' = w /\ w \in dict.states
      /\ UNCHANGED <<dict, text, prep, pc>>
  BY DEF Transition, raised, w
<1>6. HTypeOK'
  BY <1>1, <1>4, <1>5 DEF HInv, HTypeOK
<1>7. StateWasRead'
  BY <1>2, <1>5 DEF StateWasRead, EndsAt
<1>8. Sound'
  <2>1. \A q : Digits(q)' = Digits(q)
    BY <1>5 DEF Digits, EndsAt
  <2>2. ASSUME NEW q \in DOMAIN hyphens PROVE raised[q] \in Digits(q) \cup {0}
    <3>1. CASE raised[q] = hyphens[q]
      BY <1>1, <3>1 DEF HInv, Sound
    <3>2. CASE /\ w \in DOMAIN dict.match
               /\ q \in n - Len(w)..n
               /\ raised[q] = dict.match[w][q - n + Len(w)]
      <4> DEFINE o == <<w, n>>
      <4>1. o \in (DOMAIN dict.match) \X (1..Len(prep)) /\ o[1] = w /\ o[2] = n
        BY <1>1, <3>2
      <4>2. EndsAt(o[1], o[2]) /\ q \in o[2] - Len(o[1])..o[2]
        BY <1>2, <3>2, <4>1
      <4>3. raised[q] = dict.match[o[1]][q - o[2] + Len(o[1])]
        BY <3>2, <4>1
      <4> HIDE DEF o
      <4> QED
        BY <4>1, <4>2, <4>3 DEF Digits
    <3> QED
      BY <1>4, <3>1, <3>2
  <2> QED
    BY <1>4, <1>5, <2>1, <2>2 DEF Sound
<1> QED
  BY <1>1, <1>4, <1>5, <1>6, <1>7, <1>8 DEF HInv, Phases

LEMMA FallBackInv == ASSUME HInv, FallBack PROVE HInv'
<1>1. /\ prep \in Seq(Char) /\ i \in 0..Len(prep) /\ state \in Seq(Char)
      /\ EndsAt(state, i) /\ pc = "reading"
  BY DEF HInv, HTypeOK, StateWasRead, FallBack, Reading, Char
<1>2. state' = Fallback(dict, state) /\ UNCHANGED <<dict, text, prep, i, hyphens, pc>>
  BY DEF FallBack
<1>3. state' # None => state' \in dict.states /\ EndsAt(state', i)
  BY <1>1, <1>2, FallsBack, EndsSuffix
<1>4. HTypeOK'
  BY <1>2, <1>3 DEF HInv, HTypeOK
<1>5. StateWasRead'
  BY <1>2, <1>3 DEF StateWasRead, EndsAt
<1>6. Sound'
  BY <1>2 DEF HInv, Sound, Digits, EndsAt
<1> QED
  BY <1>1, <1>2, <1>4, <1>5, <1>6 DEF HInv, Phases

LEMMA RestartInv == ASSUME HInv, Restart PROVE HInv'
<1>1. i \in 0..Len(prep) /\ i < Len(prep) /\ Len(prep) \in Nat /\ pc = "reading"
  BY LenProperties DEF HInv, HTypeOK, Restart, Reading
<1>2. state' = <<>> /\ i' = i + 1 /\ UNCHANGED <<dict, text, prep, hyphens, pc>>
  BY DEF Restart
<1>3. HTypeOK'
  <2>1. i' \in 0..Len(IF pc' = "copying" THEN text' ELSE prep') /\ state' \in dict'.states
    BY <1>1, <1>2 DEF HInv, HTypeOK
  <2> QED
    BY <1>2, <2>1 DEF HInv, HTypeOK
<1>4. StateWasRead'
  BY <1>1, <1>2, EmptyEndsNext DEF StateWasRead
<1>5. Sound'
  BY <1>2 DEF HInv, Sound, Digits, EndsAt
<1> QED
  BY <1>1, <1>2, <1>3, <1>4, <1>5 DEF HInv, Phases

LEMMA ReturnInv == ASSUME HInv, Return PROVE HInv'
<1> DEFINE m == Len(prep) - 2
           n == Len(text)
<1>1. Len(prep) \in Nat /\ n \in Nat /\ pc = "reading" /\ DOMAIN hyphens = 0..Len(prep)
  BY LenProperties DEF HInv, HTypeOK, Return, Phases
<1>2. hyphens' = Moved(hyphens, m, n) /\ pc' = "done" /\ UNCHANGED <<dict, text, prep, i, state>>
  BY DEF Return
<1>3. \A q \in DOMAIN hyphens' : hyphens'[q] \in 0..9
  <2>1. \A q \in DOMAIN hyphens : hyphens[q] \in 0..9
    BY DEF HInv, HTypeOK
  <2>2. /\ DOMAIN hyphens' = 0..n - 1
        /\ \A j \in 0..n - 1 :
             hyphens'[j] = IF j \in 1..m - 3 THEN hyphens[j + 2] ELSE 0
    BY <1>2 DEF Moved
  <2>3. \A j \in 1..m - 3 : j + 2 \in DOMAIN hyphens
    BY <1>1
  <2> SUFFICES ASSUME NEW q \in 0..n - 1 PROVE hyphens'[q] \in 0..9
    BY <2>2
  <2>4. CASE q \in 1..m - 3
    BY <2>1, <2>2, <2>3, <2>4
  <2>5. CASE q \notin 1..m - 3
    BY <2>2, <2>5
  <2> QED
    BY <2>4, <2>5
<1>4. HTypeOK'
  BY <1>1, <1>2, <1>3, SMTT(30) DEF HInv, HTypeOK
<1>5. StateWasRead'
  BY <1>2 DEF HInv, StateWasRead, EndsAt
<1> QED
  BY <1>2, <1>4, <1>5 DEF HInv, Sound, Phases

----------------------------------------------------------------------------
(* The theorems.                                                           *)

\* Every call and every step of the automaton keeps the invariant.
LEMMA HInvStep == HInv /\ [Next]_vars => HInv'
<1> SUFFICES ASSUME HInv, [Next]_vars PROVE HInv'
  OBVIOUS
<1>1. CASE UNCHANGED vars
  BY <1>1 DEF vars, HInv, HTypeOK, StateWasRead, Sound, Phases, Digits, EndsAt
<1>2. CASE Next
  BY <1>2, LoadInv, HyphenateInv, CopyLetterInv, StartReadingInv, TransitionInv,
     FallBackInv, RestartInv, ReturnInv DEF Next, Run
<1> QED
  BY <1>1, <1>2

\* The inductive invariant of the automaton.
THEOREM HyphenInvariance == Spec => []HInv
  BY InitInv, HInvStep, PTL DEF Spec

\* Type correctness: the automaton is always in a state of the dictionary, and
\* reads and raises digits within the word.
THEOREM HyphenTypeCorrect == Spec => []HTypeOK
<1>1. HInv => HTypeOK
  BY DEF HInv
<1> QED
  BY HyphenInvariance, <1>1, PTL

\* The state of the automaton is what has been read last.
THEOREM ReadsTheWord == Spec => []StateWasRead
<1>1. HInv => StateWasRead
  BY DEF HInv
<1> QED
  BY HyphenInvariance, <1>1, PTL

\* No word is broken where no pattern of the dictionary breaks it: every digit
\* stems from a pattern that occurs in the word at that place.
THEOREM NoWrongBreak == Spec => []Sound
<1>1. HInv => Sound
  BY DEF HInv
<1> QED
  BY HyphenInvariance, <1>1, PTL
----------------------------------------------------------------------------
(* Completeness: no pattern is missed if the dictionary is preprocessed and *)
(* dense.                                                                   *)

\* A prefix of a state is a state; the empty word is none of the patterns.
Closed ==
  /\ <<>> \notin DOMAIN dict.match
  /\ \A u \in Seq(Char), c \in Char : Append(u, c) \in dict.states => u \in dict.states

\* A word of letters is copied as it is, between its dots.
Copied ==
  LettersOnly =>
    /\ pc = "copying" =>
         /\ Len(prep) = i + 1 /\ prep[1] = Dot
         /\ \A j \in 1..i : prep[j + 1] = text[j]
    /\ pc \in {"reading", "done"} =>
         /\ Len(prep) = Len(text) + 2 /\ prep[1] = Dot
         /\ \A j \in 1..Len(text) : prep[j + 1] = text[j]

\* A state that ends where the automaton is and goes on with the next letter.
GoesOn(v) ==
  v \in dict.states /\ EndsAt(v, i) /\ Append(v, prep[i + 1]) \in dict.states

\* No state that goes on is longer than the automaton's; it gives up a letter
\* only if none does.
Longest ==
  pc = "reading" /\ i < Len(prep) /\ LettersOnly /\ Dense =>
    \A v : GoesOn(v) =>
      IF state = None THEN v = <<>> /\ i > 0 /\ prep[i + 1] = Dot ELSE Len(v) <= Len(state)

\* The digits of every pattern that has been come by are reached.  (A dot at
\* the end may be missed as the beginning of a word, which raises no digit that
\* is used.)
Raised ==
  pc = "reading" /\ LettersOnly /\ Dense /\ Preprocessed =>
    \A w \in DOMAIN dict.match, n \in 1..i : EndsAt(w, n) =>
      \A q \in n - Len(w)..n :
        q <= Len(prep) - 2 => dict.match[w][q - n + Len(w)] <= hyphens[q]

CInv == HInv /\ Closed /\ Copied /\ Longest /\ Raised /\ AsDefined

\* A sequence that is not empty has a last element.
LEMMA LastOff ==
  ASSUME NEW S, NEW v \in Seq(S), v # <<>>
  PROVE  \E u \in Seq(S), c \in S : v = Append(u, c)
<1>1. Len(v) \in Nat /\ DOMAIN v = 1..Len(v) /\ Len(v) # 0 /\ \A j \in 1..Len(v) : v[j] \in S
  BY LenProperties, ElementOfSeq, EmptySeq
<1>2. PICK n \in Nat : n + 1 = Len(v)
  <2>1. Len(v) - 1 \in Nat /\ (Len(v) - 1) + 1 = Len(v)
    BY <1>1
  <2> QED
    BY <2>1
<1> DEFINE u == [j \in 1..n |-> v[j]]
<1>3. u \in [1..n -> S] /\ v[n + 1] \in S
  BY <1>1, <1>2
<1>4. u \in Seq(S) /\ Len(u) = n
  <2> HIDE DEF u
  <2> QED
    BY <1>3
<1>5. \A j \in 1..n : u[j] = v[j]
  OBVIOUS
<1> HIDE DEF u
<1>6. PICK t \in Seq(S) : t = Append(u, v[n + 1])
  BY <1>3, <1>4, AppendProperties
<1>7. Len(t) = Len(v) /\ \A j \in 1..Len(v) : t[j] = v[j]
  <2>1. /\ Len(t) = n + 1 /\ t[n + 1] = v[n + 1]
        /\ \A j \in 1..n : t[j] = u[j]
    BY <1>3, <1>4, <1>6, AppendProperties
  <2> QED
    BY <1>2, <1>5, <2>1
<1>8. t = v
  BY <1>7, SeqEqual
<1> QED
  BY <1>3, <1>4, <1>6, <1>8

\* What ends at a letter, less that letter, ends at the one before.
LEMMA EndsBefore ==
  ASSUME prep \in Seq(Char), NEW n \in 0..Len(prep) - 1, NEW u \in Seq(Char), NEW c \in Char,
         EndsAt(Append(u, c), n + 1)
  PROVE  EndsAt(u, n) /\ c = prep[n + 1]
<1>1. Len(u) \in Nat /\ Len(prep) \in Nat
  BY LenProperties
<1>2. PICK w \in Seq(Char) : w = Append(u, c)
  BY AppendProperties
<1>3. Len(w) = Len(u) + 1 /\ w[Len(u) + 1] = c /\ \A j \in 1..Len(u) : w[j] = u[j]
  BY <1>2, AppendProperties
<1>4. PICK m \in 0..Len(prep) : m = n + 1
  BY <1>1
<1>5. m >= Len(w) /\ \A j \in 1..Len(w) : w[j] = prep[m - Len(w) + j]
  BY <1>2, <1>4, Ends
<1>6. c = prep[n + 1]
  <2>1. w[Len(w)] = prep[m - Len(w) + Len(w)] /\ m - Len(w) + Len(w) = n + 1
    BY <1>1, <1>3, <1>4, <1>5
  <2> QED
    BY <1>3, <2>1
<1>7. n >= Len(u) /\ \A j \in 1..Len(u) : u[j] = prep[n - Len(u) + j]
  <2>1. n >= Len(u)
    BY <1>1, <1>3, <1>4, <1>5
  <2>2. ASSUME NEW j \in 1..Len(u) PROVE u[j] = prep[n - Len(u) + j]
    <3>1. j \in 1..Len(w) /\ m - Len(w) + j = n - Len(u) + j
      BY <1>1, <1>3, <1>4
    <3> QED
      BY <1>3, <1>5, <3>1
  <2> QED
    BY <2>1, <2>2
<1>8. n \in 0..Len(prep)
  BY <1>1
<1>9. EndsAt(u, n)
  BY <1>7, <1>8, Ends
<1> QED
  BY <1>6, <1>9

\* Of two words that end at the same letter one is a suffix of the other.
LEMMA EndsWithin ==
  ASSUME prep \in Seq(Char), NEW n \in 0..Len(prep), NEW u \in Seq(Char), NEW w \in Seq(Char),
         EndsAt(u, n), EndsAt(w, n), Len(u) <= Len(w)
  PROVE  /\ Len(w) - Len(u) \in 0..Len(w) /\ u = Suffix(w, Len(w) - Len(u))
         /\ Len(u) = Len(w) => u = w
<1>1. Len(u) \in Nat /\ Len(w) \in Nat /\ Len(prep) \in Nat
  BY LenProperties
<1>2. PICK k \in 0..Len(w) : k = Len(w) - Len(u)
  <2>1. Len(w) - Len(u) \in 0..Len(w)
    BY <1>1
  <2> QED
    BY <2>1
<1>3. PICK v \in Seq(Char) : v = Suffix(w, k)
  BY SuffixIs
<1>4. Len(v) = Len(w) - k /\ \A j \in 1..Len(w) - k : v[j] = w[j + k]
  BY <1>3, SuffixIs
<1>5. \A j \in 1..Len(u) : u[j] = prep[n - Len(u) + j]
  BY Ends
<1>6. \A j \in 1..Len(w) : w[j] = prep[n - Len(w) + j]
  BY Ends
<1>7. ASSUME NEW j \in 1..Len(u) PROVE u[j] = v[j]
  <2>1. j \in 1..Len(w) - k /\ j + k \in 1..Len(w) /\ n - Len(w) + (j + k) = n - Len(u) + j
    BY <1>1, <1>2
  <2>2. w[j + k] = prep[n - Len(w) + (j + k)]
    BY <1>6, <2>1
  <2> QED
    BY <1>4, <1>5, <2>1, <2>2
<1>8. Len(u) = Len(v)
  BY <1>1, <1>2, <1>4
<1>9. u = v
  BY <1>7, <1>8, SeqEqual
<1>10. ASSUME Len(u) = Len(w) PROVE u = w
  <2>1. \A j \in 1..Len(u) : u[j] = w[j]
    BY <1>5, <1>6, <1>10
  <2> QED
    BY <1>10, <2>1, SeqEqual
<1> QED
  BY <1>2, <1>3, <1>9, <1>10

\* What ends behind the letter at hand is that letter, and behind a state that
\* goes on.
LEMMA GoesOnFrom ==
  ASSUME HInv, Closed, Reading, NEW v \in dict.states, v # <<>>, EndsAt(v, i + 1)
  PROVE  \E u \in Seq(Char) : v = Append(u, prep[i + 1]) /\ GoesOn(u)
<1>1. /\ prep \in Seq(Char) /\ i \in 0..Len(prep) - 1 /\ v \in Seq(Char)
  BY LenProperties DEF HInv, HTypeOK, Reading, Char
<1>2. PICK u \in Seq(Char), c \in Char : v = Append(u, c)
  BY <1>1, LastOff
<1>3. EndsAt(u, i) /\ c = prep[i + 1]
  BY <1>1, <1>2, EndsBefore
<1>4. u \in dict.states
  BY <1>2 DEF Closed
<1> QED
  BY <1>2, <1>3, <1>4 DEF GoesOn

\* What every step of the automaton knows.
LEMMA ReadingTypes ==
  ASSUME HInv, Copied, Reading
  PROVE  /\ prep \in Seq(Char) /\ i \in 0..Len(prep) - 1 /\ Len(prep) \in Nat /\ i \in Nat
         /\ pc = "reading" /\ i \in 0..Len(prep) /\ i < Len(prep)
         /\ prep[i + 1] \in Char
         /\ state # None => state \in Seq(Char) /\ EndsAt(state, i)
         /\ dict.states \subseteq Seq(Char) /\ <<>> \in dict.states
         /\ DOMAIN dict.match \subseteq dict.states
         /\ \A w \in DOMAIN dict.match : dict.match[w] \in [0..Len(w) -> 0..9]
         /\ DOMAIN hyphens = 0..Len(prep) /\ \A q \in DOMAIN hyphens : hyphens[q] \in 0..9
         /\ LettersOnly => /\ Len(prep) >= 2
                           /\ \A j \in 1..Len(prep) : prep[j] = Dot => j = 1 \/ j = Len(prep)
<1>1. /\ prep \in Seq(Char) /\ i \in 0..Len(prep) - 1 /\ Len(prep) \in Nat /\ pc = "reading"
      /\ text \in Seq(Letters \cup {Other}) /\ Len(text) \in Nat
  BY LenProperties DEF HInv, HTypeOK, Reading, Char
<1>2. prep[i + 1] \in Char
  <2>1. i + 1 \in 1..Len(prep)
    BY <1>1
  <2> QED
    BY <1>1, <2>1, ElementOfSeq
<1>3. state # None => state \in Seq(Char) /\ EndsAt(state, i)
  BY DEF HInv, HTypeOK, StateWasRead, Char
<1>4. /\ dict.states \subseteq Seq(Char) /\ <<>> \in dict.states
      /\ DOMAIN dict.match \subseteq dict.states
      /\ \A w \in DOMAIN dict.match : dict.match[w] \in [0..Len(w) -> 0..9]
      /\ DOMAIN hyphens = 0..Len(prep) /\ \A q \in DOMAIN hyphens : hyphens[q] \in 0..9
  BY <1>1 DEF HInv, HTypeOK, Phases, Char
<1>5. ASSUME LettersOnly
      PROVE  /\ Len(prep) >= 2
             /\ \A j \in 1..Len(prep) : prep[j] = Dot => j = 1 \/ j = Len(prep)
  <2>1. Len(prep) = Len(text) + 2 /\ \A j \in 1..Len(text) : prep[j + 1] = text[j]
    BY <1>1, <1>5 DEF Copied
  <2>2. ASSUME NEW j \in 1..Len(prep), j # 1, j # Len(prep) PROVE prep[j] # Dot
    <3>1. PICK k \in 1..Len(text) : j = k + 1
      <4>1. j - 1 \in 1..Len(text) /\ j = (j - 1) + 1
        BY <1>1, <2>1, <2>2
      <4> QED
        BY <4>1
    <3>2. prep[j] = text[k] /\ text[k] \in Letters
      BY <1>5, <2>1, <3>1 DEF LettersOnly, IsLetter
    <3> QED
      BY <3>2, OtherAssumption
  <2> QED
    BY <1>1, <2>1, <2>2
<1>6. i \in Nat /\ i \in 0..Len(prep) /\ i < Len(prep)
  BY <1>1
<1> QED
  BY <1>1, <1>2, <1>3, <1>4, <1>5, <1>6

LEMMA StartLongest == ASSUME HInv, StartReading PROVE Longest'
<1>1. prep' \in Seq(Char) /\ i' = 0 /\ state' = <<>>
  BY AppendProperties DEF HInv, HTypeOK, Phases, StartReading, Char
<1>2. ASSUME NEW v, GoesOn(v)' PROVE Len(v) <= 0
  <2>1. v \in dict'.states /\ v \in Seq(Char) /\ EndsAt(v, 0)'
    BY <1>1, <1>2 DEF GoesOn, StartReading, HInv, HTypeOK, Char
  <2> QED
    BY <1>1, <2>1, LenProperties DEF EndsAt
<1> QED
  BY <1>1, <1>2 DEF Longest, None

LEMMA TransitionLongest == ASSUME HInv, Closed, Copied, Longest, Transition PROVE Longest'
<1>1. Reading /\ state # None /\ Onto \in dict.states /\ state' = Onto /\ i' = i + 1
      /\ UNCHANGED <<dict, text, prep, pc>>
  BY DEF Transition
<1>2. /\ Len(prep) \in Nat /\ state \in Seq(Char) /\ prep[i + 1] \in Char /\ pc = "reading"
      /\ i < Len(prep)
  BY <1>1, ReadingTypes
<1>3. Len(Onto) = Len(state) + 1 /\ Len(state) \in Nat /\ Onto \in Seq(Char)
  BY <1>2, AppendProperties, LenProperties DEF Onto
<1>4. Onto # None
  <2>1. Onto[1] \in Char
    BY <1>3, ElementOfSeq
  <2> QED
    BY <2>1, OtherAssumption DEF None, Char, Dot
<1>5. ASSUME LettersOnly, Dense, NEW v, v \in dict.states, EndsAt(v, i + 1)
      PROVE  Len(v) <= Len(Onto)
  <2>1. CASE v = <<>>
    BY <1>3, <2>1
  <2>2. CASE v # <<>>
    <3>1. PICK u \in Seq(Char) : v = Append(u, prep[i + 1]) /\ GoesOn(u)
      BY <1>1, <1>5, <2>2, GoesOnFrom
    <3>2. Len(u) <= Len(state)
      BY <1>1, <1>2, <1>5, <3>1 DEF Longest
    <3>3. Len(v) = Len(u) + 1 /\ Len(u) \in Nat
      BY <1>2, <3>1, AppendProperties, LenProperties
    <3> QED
      BY <1>3, <3>2, <3>3
  <2> QED
    BY <2>1, <2>2
<1>6. (LettersOnly' <=> LettersOnly) /\ (Dense' <=> Dense)
      /\ \A v : GoesOn(v)' => v \in dict.states /\ EndsAt(v, i + 1)
  BY <1>1 DEF LettersOnly, Dense, GoesOn, EndsAt
<1> QED
  BY <1>1, <1>4, <1>5, <1>6 DEF Longest

\* A state that goes on is found by falling back, if the automaton's does not.
LEMMA FallBackLongest == ASSUME HInv, Closed, Copied, Longest, FallBack PROVE Longest'
<1>1. Reading /\ state # None /\ Onto \notin dict.states /\ state' = Fallback(dict, state)
      /\ UNCHANGED <<dict, text, prep, i, hyphens, pc>>
  BY DEF FallBack
<1>2. /\ Len(prep) \in Nat /\ state \in Seq(Char) /\ prep[i + 1] \in Char /\ pc = "reading"
      /\ i \in 0..Len(prep) /\ i < Len(prep) /\ prep \in Seq(Char) /\ i \in Nat
      /\ EndsAt(state, i) /\ dict.states \subseteq Seq(Char) /\ Len(state) \in Nat
  BY <1>1, ReadingTypes, LenProperties
<1> DEFINE shorter == {n \in 1..Len(state) - 1 : Suffix(state, n) \in dict.states}
<1>3. state' = IF shorter = {} THEN None ELSE Suffix(state, Min(shorter))
  BY <1>1 DEF Fallback
<1>4. ASSUME shorter # {}
      PROVE  /\ state' # None /\ Len(state') \in Nat
             /\ \A n \in shorter : Len(state) - n <= Len(state')
  <2>1. shorter \in SUBSET Nat
    BY <1>2
  <2>2. PICK m \in shorter : m = Min(shorter) /\ \A n \in shorter : m <= n
    <3> HIDE DEF shorter
    <3> QED
      BY <1>4, <2>1, Least
  <2>3. m \in 0..Len(state) /\ state' = Suffix(state, m) /\ m < Len(state)
    BY <1>2, <1>3, <1>4, <2>2
  <2>4. state' \in Seq(Char) /\ Len(state') = Len(state) - m
    BY <1>2, <2>3, SuffixIs
  <2>5. state' # None
    <3>1. state'[1] \in Char
      BY <1>2, <2>3, <2>4, ElementOfSeq
    <3> QED
      BY <3>1, OtherAssumption DEF None, Char, Dot
  <2>6. ASSUME NEW n \in shorter PROVE Len(state) - n <= Len(state')
    <3>1. n \in Nat /\ m <= n
      BY <2>1, <2>2
    <3> QED
      BY <1>2, <2>3, <2>4, <3>1
  <2>7. Len(state') \in Nat
    BY <2>4, LenProperties
  <2> HIDE DEF shorter
  <2> QED
    BY <2>5, <2>6, <2>7
<1>5. \A n : n \in shorter => n \in 1..Len(state) - 1 /\ Suffix(state, n) \in dict.states
  OBVIOUS
<1>6. \A n : n \in 1..Len(state) - 1 /\ Suffix(state, n) \in dict.states => n \in shorter
  OBVIOUS
<1> HIDE DEF shorter
<1>7. ASSUME LettersOnly, Dense, NEW v, GoesOn(v)
      PROVE  IF state' = None THEN v = <<>> /\ i > 0 /\ prep[i + 1] = Dot
             ELSE Len(v) <= Len(state')
  <2>1. v \in Seq(Char) /\ EndsAt(v, i) /\ Len(v) <= Len(state) /\ v # state /\ Len(v) \in Nat
        /\ Append(v, prep[i + 1]) \in dict.states
    BY <1>1, <1>2, <1>7, LenProperties DEF GoesOn, Longest, Onto
  <2>2. /\ Len(state) - Len(v) \in 0..Len(state) /\ v = Suffix(state, Len(state) - Len(v))
        /\ Len(v) # Len(state)
    BY <1>2, <2>1, EndsWithin
  <2>3. CASE v # <<>>
    <3>1. Len(v) # 0
      BY <2>1, <2>3, EmptySeq
    <3>2. PICK n \in 1..Len(state) - 1 : n = Len(state) - Len(v)
      <4>1. Len(state) - Len(v) \in 1..Len(state) - 1
        BY <1>2, <2>1, <2>2, <3>1
      <4> QED
        BY <4>1
    <3>3. n \in shorter
      BY <1>6, <1>7, <2>2, <3>2 DEF GoesOn
    <3> QED
      BY <1>2, <1>4, <2>1, <3>2, <3>3
  <2>4. CASE v = <<>>
    <3>1. CASE shorter # {}
      BY <1>4, <2>4, <3>1
    <3>2. CASE shorter = {}
      <4> DEFINE c == prep[i + 1]
      <4>1. state' = None /\ state # <<>> /\ Len(state) # 0
        BY <1>2, <1>3, <2>1, <2>2, <2>4, <3>2
      <4>2. i > 0
        BY <1>2, <4>1 DEF EndsAt
      <4>3. ASSUME c # Dot PROVE FALSE
        <5>1. c \in Letters
          BY <1>2, <4>3 DEF Char
        <5>2. Last(state) = Dot => state = <<Dot>>
          <6> SUFFICES ASSUME Last(state) = Dot PROVE state = <<Dot>>
            OBVIOUS
          <6>1. Len(state) <= i /\ \A j \in 1..Len(state) : state[j] = prep[i - Len(state) + j]
            BY <1>2, Ends
          <6>2. state[Len(state)] = prep[i]
            <7>1. Len(state) \in 1..Len(state) /\ i - Len(state) + Len(state) = i
              BY <1>2, <4>1
            <7> QED
              BY <6>1, <7>1
          <6>3. prep[i] = Dot /\ i \in 1..Len(prep)
            BY <1>2, <4>2, <6>2 DEF Last
          <6>4. i = 1
            BY <1>1, <1>2, <1>7, <6>3, ReadingTypes
          <6>5. Len(state) = 1 /\ state[1] = Dot
            <7>1. Len(state) = 1
              <8>1. Len(state) \in Nat
                BY <1>2
              <8>2. Len(state) <= i /\ Len(state) # 0
                BY <4>1, <6>1
              <8>3. Len(state) <= 1
                BY <6>4, <8>2
              <8> QED
                BY <8>1, <8>2, <8>3
            <7> QED
              BY <6>2, <6>3, <7>1
          <6> QED
            BY <1>2, <6>5
        <5>3. <<c>> \in dict.states
          <6>1. Append(<<>>, c) = <<c>>
            OBVIOUS
          <6> QED
            BY <2>1, <2>4, <6>1
        <5>4. state \in dict.states \ {<<>>}
          BY <1>1, <4>1 DEF HInv, HTypeOK
        <5>5. PICK n \in 0..Len(state) - 1 : Append(Suffix(state, n), c) \in dict.states
          BY <1>7, <5>1, <5>2, <5>3, <5>4 DEF Dense
        <5>6. n \in 0..Len(state) /\ Suffix(state, n) \in Seq(Char) /\ c \in Char
          BY <1>2, SuffixIs
        <5>7. Suffix(state, n) \in dict.states
          BY <5>5, <5>6 DEF Closed
        <5>8. n # 0
          <6>1. Suffix(state, 0) = state
            BY <1>2, SubSeqFull DEF Suffix
          <6> QED
            BY <1>1, <5>5, <6>1 DEF Onto
        <5>9. n \in shorter
          BY <1>2, <1>6, <5>7, <5>8
        <5> QED
          BY <3>2, <5>9
      <4> QED
        BY <2>4, <4>1, <4>2, <4>3
    <3> QED
      BY <3>1, <3>2
  <2> QED
    BY <2>3, <2>4
<1>8. (LettersOnly' <=> LettersOnly) /\ (Dense' <=> Dense) /\ \A v : GoesOn(v)' <=> GoesOn(v)
  BY <1>1 DEF LettersOnly, Dense, GoesOn, EndsAt
<1> QED
  BY <1>1, <1>7, <1>8 DEF Longest

LEMMA RestartLongest == ASSUME HInv, Closed, Copied, Longest, Restart PROVE Longest'
<1>1. Reading /\ state = None /\ state' = <<>> /\ i' = i + 1
      /\ UNCHANGED <<dict, text, prep, hyphens, pc>>
  BY DEF Restart
<1>2. Len(prep) \in Nat /\ i \in Nat /\ pc = "reading" /\ i < Len(prep)
  BY <1>1, ReadingTypes
<1>3. ASSUME LettersOnly, Dense, i + 1 < Len(prep), NEW v, v \in dict.states, EndsAt(v, i + 1)
      PROVE  v = <<>>
  <2> SUFFICES ASSUME v # <<>> PROVE FALSE
    OBVIOUS
  <2>1. PICK u \in Seq(Char) : v = Append(u, prep[i + 1]) /\ GoesOn(u)
    BY <1>1, <1>3, GoesOnFrom
  <2>2. i > 0 /\ prep[i + 1] = Dot
    BY <1>1, <1>2, <1>3, <2>1 DEF Longest
  <2>3. i + 1 \in 1..Len(prep) /\ i + 1 # 1 /\ i + 1 # Len(prep)
    BY <1>2, <1>3, <2>2
  <2> QED
    BY <1>1, <1>3, <2>2, <2>3, ReadingTypes
<1>4. (LettersOnly' <=> LettersOnly) /\ (Dense' <=> Dense)
      /\ \A v : GoesOn(v)' => v \in dict.states /\ EndsAt(v, i + 1)
  BY <1>1 DEF LettersOnly, Dense, GoesOn, EndsAt
<1> QED
  BY <1>1, <1>3, <1>4 DEF Longest, None

\* A digit that is raised is not lower than it was, nor than the pattern's.
LEMMA RaisedIs ==
  ASSUME NEW d, NEW w \in Seq(Char), NEW n \in Nat, NEW h,
         \A q \in DOMAIN h : h[q] \in 0..9,
         w \in DOMAIN d.match => d.match[w] \in [0..Len(w) -> 0..9]
  PROVE  \A q \in DOMAIN h :
           /\ h[q] <= Raise(d, w, n, h)[q]
           /\ w \in DOMAIN d.match /\ q \in n - Len(w)..n =>
                d.match[w][q - n + Len(w)] <= Raise(d, w, n, h)[q]
<1>1. CASE w \notin DOMAIN d.match
  BY <1>1 DEF Raise
<1>2. CASE w \in DOMAIN d.match
  <2>1. Len(w) \in Nat
    BY LenProperties
  <2> SUFFICES ASSUME NEW q \in DOMAIN h
               PROVE  /\ h[q] <= Raise(d, w, n, h)[q]
                      /\ q \in n - Len(w)..n =>
                           d.match[w][q - n + Len(w)] <= Raise(d, w, n, h)[q]
    OBVIOUS
  <2>2. CASE q \notin n - Len(w)..n
    <3>1. Raise(d, w, n, h)[q] = h[q]
      BY <1>2, <2>2 DEF Raise
    <3> QED
      BY <2>2, <3>1
  <2>3. CASE q \in n - Len(w)..n
    <3> DEFINE digit == d.match[w][q - n + Len(w)]
    <3>1. q - n + Len(w) \in 0..Len(w) /\ digit \in 0..9
      BY <1>2, <2>1, <2>3
    <3>2. Raise(d, w, n, h)[q] = Max({h[q], digit})
      BY <1>2, <2>3 DEF Raise
    <3> HIDE DEF digit
    <3>3. h[q] \in Int /\ digit \in Int
      BY <3>1
    <3>4. h[q] <= Max({h[q], digit}) /\ digit <= Max({h[q], digit})
      <4>1. \E x \in {h[q], digit} : \A y \in {h[q], digit} : x >= y
        <5>1. CASE h[q] <= digit
          BY <3>3, <5>1
        <5>2. CASE digit <= h[q]
          BY <3>3, <5>2
        <5> QED
          BY <3>3, <5>1, <5>2
      <4>2. \A y \in {h[q], digit} : Max({h[q], digit}) >= y /\ Max({h[q], digit}) \in {h[q], digit}
        BY <4>1 DEF Max
      <4> QED
        BY <3>3, <4>2
    <3> QED
      BY <3>2, <3>4 DEF digit
  <2> QED
    BY <2>2, <2>3
<1> QED
  BY <1>1, <1>2

LEMMA TransitionRaised ==
  ASSUME HInv, Closed, Copied, Longest, Raised, Transition PROVE Raised'
<1>1. Reading /\ state # None /\ state' = Onto /\ Onto \in dict.states /\ i' = i + 1
      /\ hyphens' = Raise(dict, Onto, i + 1, hyphens)
      /\ UNCHANGED <<dict, text, prep, pc>>
  BY DEF Transition
<1>2. /\ Len(prep) \in Nat /\ state \in Seq(Char) /\ EndsAt(state, i) /\ prep[i + 1] \in Char
      /\ pc = "reading" /\ i \in 0..Len(prep) - 1 /\ i \in Nat /\ i < Len(prep)
      /\ prep \in Seq(Char)
      /\ dict.states \subseteq Seq(Char) /\ DOMAIN dict.match \subseteq dict.states
      /\ \A w \in DOMAIN dict.match : dict.match[w] \in [0..Len(w) -> 0..9]
      /\ DOMAIN hyphens = 0..Len(prep) /\ \A q \in DOMAIN hyphens : hyphens[q] \in 0..9
  BY <1>1, ReadingTypes
<1> DEFINE new == Onto
           raised == Raise(dict, new, i + 1, hyphens)
<1>3. new \in Seq(Char) /\ EndsAt(new, i + 1)
  BY <1>2, EndsOnto
<1>4. Len(new) = Len(state) + 1 /\ Len(state) \in Nat /\ Len(new) \in Nat
  BY <1>2, AppendProperties, LenProperties DEF Onto
<1> HIDE DEF new
<1>5. PICK n \in 1..Len(prep) : n = i + 1
  <2>1. i + 1 \in 1..Len(prep)
    BY <1>2
  <2> QED
    BY <2>1
<1>6. /\ DOMAIN raised = DOMAIN hyphens
      /\ \A q \in DOMAIN hyphens :
           /\ hyphens[q] <= raised[q] /\ raised[q] \in 0..9
           /\ new \in DOMAIN dict.match /\ q \in n - Len(new)..n =>
                dict.match[new][q - n + Len(new)] <= raised[q]
  <2>1. n \in Nat /\ (new \in DOMAIN dict.match => dict.match[new] \in [0..Len(new) -> 0..9])
    BY <1>2
  <2> HIDE DEF raised
  <2>2. raised = Raise(dict, new, n, hyphens)
    BY <1>5 DEF raised
  <2>3. \A q \in DOMAIN hyphens : hyphens[q] \in 0..9
    BY <1>2
  <2>4. \A q \in DOMAIN hyphens :
           /\ hyphens[q] <= raised[q]
           /\ new \in DOMAIN dict.match /\ q \in n - Len(new)..n =>
                dict.match[new][q - n + Len(new)] <= raised[q]
    BY <1>3, <2>1, <2>2, <2>3, RaisedIs
  <2>5. DOMAIN raised = DOMAIN hyphens /\ \A q \in DOMAIN hyphens : raised[q] \in 0..9
    BY <1>3, <2>1, <2>2, <2>3, RaisedDigits
  <2> QED
    BY <2>4, <2>5
<1> HIDE DEF raised
<1>7. ASSUME LettersOnly, Dense, Preprocessed, NEW w \in DOMAIN dict.match, NEW p \in 1..i + 1,
             EndsAt(w, p), NEW q \in p - Len(w)..p, q <= Len(prep) - 2
      PROVE  dict.match[w][q - p + Len(w)] <= raised[q]
  <2>1. w \in Seq(Char) /\ Len(w) \in Nat /\ p \in Nat /\ w # <<>>
    BY <1>2, LenProperties DEF Closed
  <2>2. Len(w) <= p
    BY <1>7 DEF EndsAt
  <2>3. q \in 0..Len(prep) /\ q \in DOMAIN hyphens /\ q \in Int
    BY <1>2, <1>7, <2>1, <2>2
  <2>4. CASE p \in 1..i
    <3>1. dict.match[w][q - p + Len(w)] <= hyphens[q]
      BY <1>2, <1>7, <2>4 DEF Raised
    <3>2. q - p + Len(w) \in 0..Len(w)
      BY <1>7, <2>1
    <3>3. dict.match[w][q - p + Len(w)] \in 0..9
      BY <1>2, <3>2
    <3>4. hyphens[q] \in 0..9 /\ raised[q] \in 0..9 /\ hyphens[q] <= raised[q]
      BY <1>2, <1>6, <2>3
    <3>5. PICK x \in 0..9 : x = dict.match[w][q - p + Len(w)]
      BY <3>3
    <3>6. PICK y \in 0..9 : y = hyphens[q]
      BY <3>4
    <3>7. PICK z \in 0..9 : z = raised[q]
      BY <3>4
    <3>8. x <= z
      BY <3>1, <3>4, <3>5, <3>6, <3>7
    <3> QED
      BY <3>5, <3>7, <3>8
  <2>5. CASE p = n
    <3>1. PICK u \in Seq(Char) : w = Append(u, prep[i + 1]) /\ GoesOn(u)
      BY <1>1, <1>2, <1>5, <1>7, <2>1, <2>5, GoesOnFrom
    <3>2. Len(u) <= Len(state) /\ Len(w) = Len(u) + 1 /\ Len(u) \in Nat
      BY <1>1, <1>2, <1>7, <3>1, AppendProperties, LenProperties DEF Longest
    <3>3. Len(w) <= Len(new)
      BY <1>4, <3>2
    <3>4. n \in 0..Len(prep) /\ EndsAt(w, n) /\ EndsAt(new, n)
      BY <1>2, <1>3, <1>5, <1>7, <2>5
    <3>5. PICK k \in 0..Len(new) : k = Len(new) - Len(w) /\ w = Suffix(new, k)
                                   /\ (k = 0 => w = new)
      <4>1. /\ Len(new) - Len(w) \in 0..Len(new) /\ w = Suffix(new, Len(new) - Len(w))
            /\ Len(w) = Len(new) => w = new
        BY <1>2, <1>3, <2>1, <3>3, <3>4, EndsWithin
      <4>2. Len(new) - Len(w) = 0 => Len(w) = Len(new)
        BY <1>4, <2>1
      <4> QED
        BY <4>1, <4>2
    <3>6. /\ new \in DOMAIN dict.match
          /\ \A j \in 0..Len(w) : dict.match[new][j + k] >= dict.match[w][j]
      <4>1. CASE k = 0
        <5>1. w = new /\ dict.match[w] \in [0..Len(w) -> 0..9]
          BY <1>2, <3>5, <4>1
        <5>2. ASSUME NEW j \in 0..Len(w) PROVE dict.match[new][j + k] >= dict.match[w][j]
          <6>1. j + k = j
            BY <2>1, <4>1
          <6>2. dict.match[w][j] \in 0..9
            BY <5>1
          <6>3. dict.match[new][j + k] = dict.match[w][j]
            BY <5>1, <6>1
          <6>4. PICK x \in 0..9 : x = dict.match[w][j]
            BY <6>2
          <6>5. x >= x
            OBVIOUS
          <6> QED
            BY <6>3, <6>4, <6>5
        <5> QED
          BY <5>1, <5>2
      <4>2. CASE k # 0
        <5>1. k \in 0..Len(new) - 1 /\ Len(new) - k = Len(w)
          BY <1>4, <2>1, <3>5, EmptySeq
        <5>2. new \in dict.states /\ Suffix(new, k) \in DOMAIN dict.match
          BY <1>1, <3>5 DEF new
        <5>3. /\ new \in DOMAIN dict.match
              /\ \A j \in 0..Len(new) - k :
                   dict.match[new][j + k] >= dict.match[Suffix(new, k)][j]
          BY <1>7, <5>1, <5>2 DEF Preprocessed
        <5> QED
          BY <3>5, <5>1, <5>3
      <4> QED
        BY <4>1, <4>2
    <3>7. PICK j \in 0..Len(w) : j = q - p + Len(w)
      <4>1. q - p + Len(w) \in 0..Len(w)
        BY <1>7, <2>1
      <4> QED
        BY <4>1
    <3>8. q \in n - Len(new)..n /\ q - n + Len(new) = j + k
      BY <1>4, <1>7, <2>1, <2>5, <3>3, <3>5, <3>7
    <3>9. dict.match[new][j + k] <= raised[q]
      BY <1>6, <2>3, <3>6, <3>8
    <3>10. dict.match[w][j] \in 0..9 /\ dict.match[new][j + k] \in 0..9 /\ raised[q] \in 0..9
      <4>1. j + k \in 0..Len(new)
        BY <1>4, <2>1, <3>5, <3>7
      <4> QED
        BY <1>2, <1>6, <2>3, <3>6, <4>1
    <3>11. dict.match[new][j + k] >= dict.match[w][j]
      BY <3>6
    <3>12. PICK x \in 0..9 : x = dict.match[w][j]
      BY <3>10
    <3>13. PICK y \in 0..9 : y = dict.match[new][j + k]
      BY <3>10
    <3>14. PICK z \in 0..9 : z = raised[q]
      BY <3>10
    <3>15. x <= z
      <4>1. y <= z
        BY <3>9, <3>13, <3>14
      <4>2. y >= x
        BY <3>11, <3>12, <3>13
      <4> QED
        BY <4>1, <4>2
    <3> QED
      BY <3>7, <3>12, <3>14, <3>15
  <2> QED
    BY <1>2, <1>5, <2>4, <2>5
<1>8. (LettersOnly' <=> LettersOnly) /\ (Dense' <=> Dense) /\ (Preprocessed' <=> Preprocessed)
      /\ \A w, p : EndsAt(w, p)' <=> EndsAt(w, p)
  BY <1>1 DEF LettersOnly, Dense, Preprocessed, EndsAt
<1>9. hyphens' = raised
  BY <1>1 DEF raised, new
<1> QED
  BY <1>1, <1>7, <1>8, <1>9 DEF Raised

\* What the letter passed over belongs to is not a pattern.
LEMMA RestartRaised ==
  ASSUME HInv, Closed, Copied, Longest, Raised, Restart PROVE Raised'
<1>1. Reading /\ state = None /\ state' = <<>> /\ i' = i + 1
      /\ UNCHANGED <<dict, text, prep, hyphens, pc>>
  BY DEF Restart
<1>2. Len(prep) \in Nat /\ i \in Nat /\ pc = "reading" /\ i < Len(prep)
      /\ dict.states \subseteq Seq(Char) /\ DOMAIN dict.match \subseteq dict.states
  BY <1>1, ReadingTypes
<1>3. ASSUME LettersOnly, Dense, Preprocessed, NEW w \in DOMAIN dict.match, NEW p \in 1..i + 1,
             EndsAt(w, p), NEW q \in p - Len(w)..p, q <= Len(prep) - 2
      PROVE  dict.match[w][q - p + Len(w)] <= hyphens[q]
  <2>1. CASE p \in 1..i
    BY <1>2, <1>3, <2>1 DEF Raised
  <2>2. CASE p = i + 1
    <3>1. w # <<>> /\ w \in dict.states
      BY <1>2 DEF Closed
    <3>2. PICK u \in Seq(Char) : w = Append(u, prep[i + 1]) /\ GoesOn(u)
      BY <1>1, <1>3, <2>2, <3>1, GoesOnFrom
    <3>3. u = <<>> /\ i > 0 /\ prep[i + 1] = Dot
      BY <1>1, <1>2, <1>3, <3>2 DEF Longest
    <3>4. i + 1 \in 1..Len(prep) /\ i + 1 # 1
      BY <1>2, <3>3
    <3>5. i + 1 = Len(prep)
      BY <1>1, <1>3, <3>3, <3>4, ReadingTypes
    <3>6. Len(w) = 1
      BY <3>2, <3>3
    <3> QED
      BY <1>2, <1>3, <2>2, <3>5, <3>6
  <2> QED
    BY <1>2, <2>1, <2>2
<1>4. (LettersOnly' <=> LettersOnly) /\ (Dense' <=> Dense) /\ (Preprocessed' <=> Preprocessed)
      /\ \A w, p : EndsAt(w, p)' <=> EndsAt(w, p)
  BY <1>1 DEF LettersOnly, Dense, Preprocessed, EndsAt
<1> QED
  BY <1>1, <1>3, <1>4 DEF Raised

LEMMA ClosedLoad == ASSUME HInv, Closed, NEW l \in Lines, Load(l) PROVE Closed'
<1>1. l.word \in Seq(Char) /\ l.word # <<>> /\ Len(l.word) \in Nat
  BY LinesAssumption, LenProperties DEF Char
<1>2. /\ dict'.states = dict.states \cup Prefixes(l.word)
      /\ DOMAIN dict'.match = DOMAIN dict.match \cup {l.word}
  BY DEF Load, AddLine
<1>3. ASSUME NEW u \in Seq(Char), NEW c \in Char, Append(u, c) \in Prefixes(l.word)
      PROVE  u \in Prefixes(l.word)
  <2>1. PICK n \in 0..Len(l.word) : Append(u, c) = SubSeq(l.word, 1, n)
    BY <1>3 DEF Prefixes
  <2>2. \A j \in 1..Len(l.word) : l.word[j] \in Char
    BY <1>1, ElementOfSeq
  <2>3. /\ SubSeq(l.word, 1, n) \in Seq(Char) /\ Len(SubSeq(l.word, 1, n)) = n
        /\ \A j \in 1..n : SubSeq(l.word, 1, n)[j] = l.word[j]
    BY <1>1, <2>2, SubSeqProperties
  <2>4. /\ Len(Append(u, c)) = Len(u) + 1 /\ Len(u) \in Nat
        /\ \A j \in 1..Len(u) : Append(u, c)[j] = u[j]
    BY AppendProperties, LenProperties
  <2>5. PICK m \in 0..Len(l.word) : m = Len(u) /\ m + 1 = n
    BY <1>1, <2>1, <2>3, <2>4
  <2> DEFINE v == SubSeq(l.word, 1, m)
  <2>6. \A j \in 1..m : l.word[j] \in Char
    BY <1>1, <2>2
  <2>7. v \in Seq(Char) /\ Len(v) = m /\ \A j \in 1..m : v[j] = l.word[j]
    BY <1>1, <2>6, SubSeqProperties
  <2>8. \A j \in 1..m : j \in 1..n
    BY <1>1, <2>5
  <2>9. \A j \in 1..m : v[j] = u[j]
    BY <2>1, <2>3, <2>4, <2>5, <2>7, <2>8
  <2>10. v = u
    <3> HIDE DEF v
    <3> QED
      BY <2>5, <2>7, <2>9, SeqEqual
  <2> QED
    BY <2>10 DEF Prefixes
<1> QED
  BY <1>1, <1>2, <1>3 DEF Closed

LEMMA CopiedHyphenate == ASSUME HInv, NEW t \in Texts, Hyphenate(t) PROVE Copied'
<1>1. prep' = <<Dot>> /\ i' = 0 /\ pc' = "copying"
  BY DEF HInv, Phases, Hyphenate
<1>2. Len(<<Dot>>) = 1 /\ <<Dot>>[1] = Dot
  OBVIOUS
<1> QED
  BY <1>1, <1>2 DEF Copied

LEMMA CopiedCopyLetter == ASSUME HInv, Copied, CopyLetter PROVE Copied'
<1>1. /\ prep \in Seq(Char) /\ i < Len(text) /\ Len(text) \in Nat /\ i \in Nat
      /\ text \in Seq(Letters \cup {Other}) /\ pc = "copying"
  BY LenProperties DEF HInv, HTypeOK, CopyLetter, Char
<1>2. /\ prep' = IF IsLetter(text[i + 1]) THEN Append(prep, text[i + 1]) ELSE prep
      /\ i' = i + 1 /\ UNCHANGED <<text, pc>>
  BY DEF CopyLetter
<1>3. ASSUME LettersOnly
      PROVE  /\ Len(prep') = i + 2 /\ prep'[1] = Dot
             /\ \A j \in 1..i + 1 : prep'[j + 1] = text[j]
  <2>1. i + 1 \in 1..Len(text)
    BY <1>1
  <2>2. IsLetter(text[i + 1]) /\ text[i + 1] \in Char
    BY <1>3, <2>1 DEF LettersOnly, IsLetter, Char
  <2>3. /\ Len(prep) = i + 1 /\ prep[1] = Dot
        /\ \A j \in 1..i : prep[j + 1] = text[j]
    BY <1>1, <1>3 DEF Copied
  <2>4. PICK c \in Char : c = text[i + 1]
    BY <2>2
  <2>5. prep' = Append(prep, c)
    BY <1>2, <2>2, <2>4
  <2>6. /\ Len(prep') = Len(prep) + 1 /\ prep'[Len(prep) + 1] = c
        /\ \A j \in 1..Len(prep) : prep'[j] = prep[j]
    BY <1>1, <2>5, AppendProperties
  <2>7. ASSUME NEW j \in 1..i + 1 PROVE prep'[j + 1] = text[j]
    <3>1. CASE j = i + 1
      BY <1>1, <2>3, <2>4, <2>6, <3>1
    <3>2. CASE j # i + 1
      <4>1. j \in 1..i /\ j + 1 \in 1..Len(prep)
        BY <1>1, <2>3, <3>2
      <4> QED
        BY <2>3, <2>6, <4>1
    <3> QED
      BY <3>1, <3>2
  <2>8. 1 \in 1..Len(prep)
    BY <1>1, <2>3
  <2> QED
    BY <1>1, <2>3, <2>6, <2>7, <2>8
<1>4. LettersOnly' <=> LettersOnly
  BY <1>2 DEF LettersOnly
<1>5. Len(prep') = i + 2 => Len(prep') = i' + 1
  BY <1>1, <1>2
<1> QED
  BY <1>1, <1>2, <1>3, <1>4, <1>5 DEF Copied

LEMMA CopiedStartReading == ASSUME HInv, Copied, StartReading PROVE Copied'
<1>1. /\ prep \in Seq(Char) /\ i = Len(text) /\ Len(text) \in Nat /\ i \in Nat
      /\ pc = "copying" /\ Dot \in Char
  BY LenProperties DEF HInv, HTypeOK, StartReading, Char
<1>2. prep' = Append(prep, Dot) /\ UNCHANGED text /\ pc' = "reading"
  BY DEF StartReading
<1>3. ASSUME LettersOnly
      PROVE  /\ Len(prep') = Len(text) + 2 /\ prep'[1] = Dot
             /\ \A j \in 1..Len(text) : prep'[j + 1] = text[j]
  <2>1. /\ Len(prep) = i + 1 /\ prep[1] = Dot
        /\ \A j \in 1..i : prep[j + 1] = text[j]
    BY <1>1, <1>3 DEF Copied
  <2>2. /\ Len(prep') = Len(prep) + 1
        /\ \A j \in 1..Len(prep) : prep'[j] = prep[j]
    BY <1>1, <1>2, AppendProperties
  <2>3. 1 \in 1..Len(prep) /\ \A j \in 1..i : j + 1 \in 1..Len(prep)
    BY <1>1, <2>1
  <2>4. Len(prep') = Len(text) + 2
    BY <1>1, <2>1, <2>2
  <2> QED
    BY <1>1, <2>1, <2>2, <2>3, <2>4
<1>4. LettersOnly' <=> LettersOnly
  BY <1>2 DEF LettersOnly
<1> QED
  BY <1>2, <1>3, <1>4 DEF Copied

\* What is moved to the caller is, digit by digit, the highest of any pattern.
LEMMA ReturnAsDefined ==
  ASSUME HInv, Copied, Raised, Return PROVE AsDefined'
<1> DEFINE n == Len(text)
<1>1. /\ pc = "reading" /\ i = Len(prep) /\ n \in Nat /\ Len(prep) \in Nat
      /\ hyphens' = Moved(hyphens, Len(prep) - 2, n)
      /\ UNCHANGED <<dict, text, prep, i, state>>
      /\ DOMAIN hyphens = 0..Len(prep) /\ \A q \in DOMAIN hyphens : hyphens[q] \in 0..9
      /\ \A w \in DOMAIN dict.match :
           Len(w) \in Nat /\ dict.match[w] \in [0..Len(w) -> 0..9]
  BY LenProperties DEF HInv, HTypeOK, Phases, Return
<1>2. ASSUME LettersOnly, Preprocessed, Dense PROVE hyphens' = ByDefinition
  <2>1. Len(prep) = n + 2
    BY <1>1, <1>2 DEF Copied
  <2>2. ASSUME NEW j \in 1..n - 3 PROVE hyphens[j + 2] = Max({0} \cup Digits(j + 2))
    <3> DEFINE q == j + 2
               D == {0} \cup Digits(q)
    <3>1. q \in DOMAIN hyphens /\ q <= Len(prep) - 2 /\ q \in Int
      BY <1>1, <2>1
    <3>2. hyphens[q] \in D
      BY <1>1, <3>1 DEF HInv, Sound
    <3>3. ASSUME NEW x \in D PROVE x \in 0..9 /\ x <= hyphens[q]
      <4>1. CASE x = 0
        <5>1. PICK y \in 0..9 : y = hyphens[q]
          BY <1>1, <3>1
        <5> QED
          BY <4>1, <5>1
      <4>2. CASE x # 0
        <5>1. x \in Digits(q)
          BY <3>3, <4>2
        <5>2. PICK w \in DOMAIN dict.match, p \in 1..Len(prep) :
                /\ EndsAt(w, p) /\ q \in p - Len(w)..p
                /\ x = dict.match[w][q - p + Len(w)]
          <6> HIDE DEF q
          <6> QED
            BY <5>1 DEF Digits
        <5>3. dict.match[w][q - p + Len(w)] <= hyphens[q]
          <6> HIDE DEF q
          <6> QED
            BY <1>1, <1>2, <3>1, <5>2 DEF Raised
        <5>4. q - p + Len(w) \in 0..Len(w)
          BY <1>1, <3>1, <5>2
        <5>5. x \in 0..9
          BY <1>1, <5>2, <5>4
        <5> QED
          BY <5>2, <5>3, <5>5
      <4> QED
        BY <4>1, <4>2
    <3>4. hyphens[q] \in 0..9
      BY <1>1, <3>1
    <3> HIDE DEF D, q
    <3>5. PICK y \in 0..9 : y = hyphens[q]
      BY <3>4
    <3>6. y \in D /\ \A x \in D : x \in 0..9 /\ x <= y
      BY <3>2, <3>3, <3>5
    <3>7. Max(D) \in D /\ \A x \in D : x <= Max(D)
      <4>1. \E m \in D : \A x \in D : m >= x
        BY <3>6
      <4>2. Max(D) \in D /\ \A x \in D : Max(D) >= x
        BY <4>1 DEF Max
      <4>3. PICK m \in 0..9 : m = Max(D)
        BY <3>6, <4>2
      <4>4. \A x \in D : x <= m
        BY <3>6, <4>2, <4>3
      <4> QED
        BY <4>2, <4>3, <4>4
    <3>8. PICK m \in 0..9 : m = Max(D)
      BY <3>6, <3>7
    <3>9. m = y
      BY <3>6, <3>7, <3>8
    <3> QED
      BY <3>5, <3>8, <3>9 DEF D, q
  <2>3. Len(prep) - 2 = n
    BY <1>1, <2>1
  <2>4. hyphens' = [j \in 0..n - 1 |-> IF j \in 1..n - 3 THEN hyphens[j + 2] ELSE 0]
    BY <1>1, <2>3 DEF Moved
  <2>5. [j \in 0..n - 1 |-> IF j \in 1..n - 3 THEN hyphens[j + 2] ELSE 0]
          = [j \in 0..n - 1 |-> IF j \in 1..n - 3 THEN Max({0} \cup Digits(j + 2)) ELSE 0]
    BY <2>2, Zenon
  <2> QED
    BY <2>4, <2>5 DEF ByDefinition
<1>3. /\ LettersOnly' <=> LettersOnly
      /\ Preprocessed' <=> Preprocessed
      /\ Dense' <=> Dense
      /\ ByDefinition' = ByDefinition
  <2>1. \A q : Digits(q)' = Digits(q)
    BY <1>1 DEF Digits, EndsAt
  <2> QED
    BY <1>1, <2>1 DEF LettersOnly, Preprocessed, Dense, ByDefinition
<1> QED
  BY <1>2, <1>3 DEF AsDefined

LEMMA InitComplete == ASSUME Init PROVE CInv
<1>1. HInv
  BY InitInv
<1>2. Closed
  <2>1. dict.states = {<<>>} /\ DOMAIN dict.match = {}
    BY DEF Init, NoDict
  <2>2. ASSUME NEW u \in Seq(Char), NEW c \in Char PROVE Append(u, c) # <<>>
    BY AppendProperties
  <2> QED
    BY <2>1, <2>2 DEF Closed
<1> QED
  BY <1>1, <1>2 DEF Init, CInv, Copied, Longest, Raised, AsDefined

\* No pattern is missed in any step.
LEMMA StepComplete == ASSUME CInv, [Next]_vars PROVE CInv'
<1> USE DEF CInv
<1>1. CASE UNCHANGED vars
  <2>1. HInv'
    BY <1>1, HInvStep
  <2>2. Closed' /\ Copied' /\ Longest'
    BY <1>1 DEF vars, Closed, Copied, Longest, LettersOnly, GoesOn, EndsAt, Dense
  <2>3. Raised' /\ AsDefined'
    <3>1. /\ LettersOnly' <=> LettersOnly
          /\ Preprocessed' <=> Preprocessed
          /\ Dense' <=> Dense
      BY <1>1 DEF vars, LettersOnly, Preprocessed, Dense
    <3>2. \A q : Digits(q)' = Digits(q)
      BY <1>1 DEF vars, Digits, EndsAt
    <3>3. ByDefinition' = ByDefinition
      BY <1>1, <3>2 DEF vars, ByDefinition
    <3>4. Raised'
      BY <1>1, <3>1 DEF vars, Raised, EndsAt
    <3> QED
      BY <1>1, <3>1, <3>3, <3>4 DEF vars, AsDefined
  <2> QED
    BY <2>1, <2>2, <2>3
<1>2. ASSUME NEW l \in Lines, Load(l) PROVE CInv'
  <2>1. pc' = "loading" /\ HInv'
    BY <1>2, LoadInv DEF Load
  <2> QED
    BY <1>2, <2>1, ClosedLoad DEF Copied, Longest, Raised, AsDefined
<1>3. ASSUME NEW t \in Texts, Hyphenate(t) PROVE CInv'
  <2>1. pc' = "copying" /\ UNCHANGED dict /\ HInv'
    BY <1>3, HyphenateInv DEF Hyphenate
  <2> QED
    BY <1>3, <2>1, CopiedHyphenate DEF Closed, Longest, Raised, AsDefined
<1>4. CASE CopyLetter
  <2>1. pc' = "copying" /\ UNCHANGED dict /\ HInv'
    BY <1>4, CopyLetterInv DEF CopyLetter
  <2> QED
    BY <1>4, <2>1, CopiedCopyLetter DEF Closed, Longest, Raised, AsDefined
<1>5. CASE StartReading
  <2>1. pc' = "reading" /\ i' = 0 /\ UNCHANGED dict /\ HInv'
    BY <1>5, StartReadingInv DEF StartReading
  <2>2. Raised' /\ AsDefined'
    BY <2>1 DEF Raised, AsDefined
  <2> QED
    BY <1>5, <2>1, <2>2, CopiedStartReading, StartLongest DEF Closed
<1>6. CASE Transition
  <2>1. UNCHANGED <<dict, text, prep, pc>> /\ pc = "reading" /\ HInv'
    BY <1>6, TransitionInv DEF Transition, Reading
  <2>2. Closed' /\ Copied' /\ AsDefined'
    BY <2>1 DEF Closed, Copied, AsDefined, LettersOnly
  <2> QED
    BY <1>6, <2>1, <2>2, TransitionLongest, TransitionRaised
<1>7. CASE FallBack
  <2>1. UNCHANGED <<dict, text, prep, i, hyphens, pc>> /\ pc = "reading" /\ HInv'
    BY <1>7, FallBackInv DEF FallBack, Reading
  <2>2. Closed' /\ Copied' /\ AsDefined'
    BY <2>1 DEF Closed, Copied, AsDefined, LettersOnly
  <2>3. Raised'
    BY <2>1 DEF Raised, LettersOnly, Dense, Preprocessed, EndsAt
  <2> QED
    BY <1>7, <2>1, <2>2, <2>3, FallBackLongest
<1>8. CASE Restart
  <2>1. UNCHANGED <<dict, text, prep, hyphens, pc>> /\ pc = "reading" /\ HInv'
    BY <1>8, RestartInv DEF Restart, Reading
  <2>2. Closed' /\ Copied' /\ AsDefined'
    BY <2>1 DEF Closed, Copied, AsDefined, LettersOnly
  <2> QED
    BY <1>8, <2>1, <2>2, RestartLongest, RestartRaised
<1>9. CASE Return
  <2>1. UNCHANGED <<dict, text, prep>> /\ pc = "reading" /\ pc' = "done" /\ HInv'
    BY <1>9, ReturnInv DEF Return
  <2>2. Closed' /\ Copied' /\ Longest' /\ Raised'
    BY <2>1 DEF Closed, Copied, LettersOnly, Longest, Raised
  <2> QED
    BY <1>9, <2>1, <2>2, ReturnAsDefined
<1> QED
  BY <1>1, <1>2, <1>3, <1>4, <1>5, <1>6, <1>7, <1>8, <1>9 DEF Next, Run

\* The automaton with its fallback states finds every pattern of a preprocessed
\* and dense dictionary wherever it occurs in a word, and what PS_hyphenate gets
\* are, moved to the characters of the word, the digits of the definition.
THEOREM FindsAllBreaks == Spec => []AsDefined
<1>1. CInv /\ [Next]_vars => CInv'
  BY StepComplete
<1>2. CInv => AsDefined
  BY DEF CInv
<1> QED
  BY InitComplete, <1>1, <1>2, PTL DEF Spec
=============================================================================
