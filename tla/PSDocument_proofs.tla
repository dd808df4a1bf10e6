-------------------------- MODULE PSDocument_proofs --------------------------
(***************************************************************************)
(* Proofs about PSDocument, for every length of the scope stack and of     *)
(* agstates, and every program that calls the library.                     *)
(*                                                                         *)
(* A call of the library is a sequence of five kinds of steps: it writes,  *)
(* it enters a scope, it leaves one, it begins the prolog, it ends the     *)
(* prolog.  The first part shows this once for every call: whatever set of *)
(* documents is closed under the steps is closed under the calls.  The     *)
(* second part proves of the steps: scopes nest, the stack has a depth     *)
(* that the number of openings bounds, a document that is open stays       *)
(* writable, page_open and the flags of the prolog agree with the stack,   *)
(* and whatever is open, there is a way to close the document.             *)
(* Opening, closing and deleting are not made of such steps and are looked *)
(* at by themselves.                                                       *)
(*                                                                         *)
(* The third part is about the output of a program that keeps all rules    *)
(* and opens a document once.                                              *)
(***************************************************************************)
EXTENDS PSDocument, SequenceTheorems, NaturalsInduction, WellFoundedInduction, TLAPS

Pushed(stack, s) == IF Len(stack) = MaxScopes THEN stack ELSE Append(stack, s)

Popped(stack) == SubSeq(stack, 1, Len(stack) - 1)

Nested(s) == \A i \in 2..Len(s) : s[i - 1] \in Below(s[i])

\* Good is the inductive invariant behind TypeOK and ScopeNesting.  These are
\* not inductive: that a pop leaves something on the stack, and that the prolog
\* is entered where it may be, follows only from what lies at the bottom of
\* the stack and from what can be on it before the prolog has begun.
Good(d) ==
  /\ d \in PSDoc
  /\ Len(d.scopes) \in 1..MaxScopes
  /\ d.scopes[1] = "OBJECT"
  /\ Nested(d.scopes)
  /\ ~d.beginprologwritten =>
       \A i \in 1..Len(d.scopes) : d.scopes[i] \in {"OBJECT", "DOCUMENT"}
  /\ d.headerwritten => d.beginprologwritten /\ d.endprologwritten

----------------------------------------------------------------------------
(* The steps of a call.                                                    *)

\* What no step changes: where the output goes, and life, unless it is the end.
Kept(d, e) ==
  /\ e \in PSDoc
  /\ e.writeproc = d.writeproc /\ e.fp = d.fp /\ e.doc_open = d.doc_open
  /\ e.life = d.life \/ (e.life = "crashed" /\ ~HasSink(d))
  /\ e.headerwritten => d.headerwritten \/ (e.beginprologwritten /\ e.endprologwritten)

\* The flags that say where the call has got to.
SamePage(d, e) == e.page_open = d.page_open

SameProlog(d, e) ==
  /\ e.beginprologwritten = d.beginprologwritten
  /\ e.endprologwritten = d.endprologwritten

USE DEF SamePage, SameProlog

Writes(d, e) ==
  Kept(d, e) /\ e.scopes = d.scopes /\ SameProlog(d, e) /\ SamePage(d, e)

\* The scopes a call enters and leaves, other than the prolog.
Inner == Scope \ {"OBJECT", "DOCUMENT", "PROLOG"}

EntersInner(d, e) ==
  /\ Kept(d, e) /\ d.beginprologwritten /\ SameProlog(d, e)
  /\ \E s \in Inner :
       /\ ps_current_scope(d) \in Below(s)
       /\ e.scopes = Pushed(d.scopes, s)
       /\ (e.page_open <=> d.page_open \/ s = "PAGE")

BeginsProlog(d, e) ==
  /\ Kept(d, e) /\ SamePage(d, e)
  /\ ~d.beginprologwritten /\ e.beginprologwritten
  /\ e.endprologwritten = d.endprologwritten
  /\ HasSink(d) \/ e.life = "crashed"
  /\ e.scopes = Pushed(d.scopes, "PROLOG")

Leaves(d, e) ==
  /\ Kept(d, e) /\ SameProlog(d, e)
  /\ ps_current_scope(d) \in Inner
  /\ e.scopes = Popped(d.scopes)
  /\ (e.page_open <=> d.page_open /\ ps_current_scope(d) # "PAGE")

\* The end of the prolog leaves its scope, if it is the current one.
EndsProlog(d, e) ==
  /\ Kept(d, e) /\ SamePage(d, e)
  /\ Keeps("page_between", ps_check_scope(d, {"DOCUMENT", "PROLOG"}))
  /\ d.beginprologwritten /\ e.beginprologwritten
  /\ ~d.endprologwritten /\ e.endprologwritten
  /\ e.scopes = IF ps_check_scope(d, {"PROLOG"}) THEN Popped(d.scopes) ELSE d.scopes

Step(d, e) ==
  \/ Writes(d, e)
  \/ EntersInner(d, e) \/ Leaves(d, e)
  \/ BeginsProlog(d, e) \/ EndsProlog(d, e)

\* A set of documents no step leads out of.
Stable(Docs) ==
  \A d \in Docs : Good(d) /\ \A e \in PSDoc : Step(d, e) => e \in Docs

LEMMA Current ==
  ASSUME NEW d, Good(d)
  PROVE  /\ ps_current_scope(d) \in Scope
         /\ ~d.beginprologwritten => ps_current_scope(d) \in {"OBJECT", "DOCUMENT"}
  BY DEF Good, PSDoc, ps_current_scope

LEMMA WritesStays ==
  ASSUME NEW Docs, Stable(Docs), NEW d \in Docs, NEW e, Writes(d, e)
  PROVE  e \in Docs /\ Good(e)
  BY DEF Stable, Step, Writes, Kept

LEMMA EnterFrame ==
  ASSUME NEW d \in PSDoc, NEW s \in Scope
  PROVE  LET e == ps_enter_scope(d, s)
         IN  /\ Kept(d, e)
             /\ e.scopes = Pushed(d.scopes, s)
             /\ SameProlog(d, e) /\ SamePage(d, e)
<1>1. Append(d.scopes, s) \in Seq(Scope)
  BY DEF PSDoc
<1>2. CASE Len(d.scopes) = MaxScopes
  BY <1>2 DEF ps_enter_scope, Pushed, Kept
<1>3. CASE Len(d.scopes) # MaxScopes
  <2> DEFINE e == [d EXCEPT !.scopes = Append(d.scopes, s)]
  <2>1. ps_enter_scope(d, s) = e /\ Pushed(d.scopes, s) = Append(d.scopes, s)
    BY <1>3 DEF ps_enter_scope, Pushed
  <2>2. /\ Kept(d, e)
        /\ e.scopes = Append(d.scopes, s)
        /\ SameProlog(d, e) /\ SamePage(d, e)
    BY <1>1 DEF PSDoc, Kept
  <2> QED
    BY <2>1, <2>2
<1> QED
  BY <1>2, <1>3

LEMMA PushedTop ==
  ASSUME NEW d, Good(d), NEW s \in Scope, NEW e, e.scopes = Pushed(d.scopes, s)
  PROVE  ps_current_scope(e) \in {s, ps_current_scope(d)}
<1>1. CASE Len(d.scopes) = MaxScopes
  BY <1>1 DEF Pushed, ps_current_scope
<1>2. CASE Len(d.scopes) # MaxScopes
  <2>1. d.scopes \in Seq(Scope)
    BY DEF Good, PSDoc
  <2>2. e.scopes = Append(d.scopes, s)
    BY <1>2 DEF Pushed
  <2>3. e.scopes[Len(e.scopes)] = s
    BY <2>1, <2>2
  <2> QED
    BY <2>3 DEF ps_current_scope
<1> QED
  BY <1>1, <1>2

LEMMA Enter ==
  ASSUME NEW Docs, Stable(Docs), NEW d \in Docs, NEW s \in Inner, s # "PAGE",
         ps_current_scope(d) \in Below(s), d.beginprologwritten
  PROVE  ps_enter_scope(d, s) \in Docs
<1>1. Good(d) /\ d \in PSDoc /\ s \in Scope /\ d.page_open \in BOOLEAN
  BY DEF Stable, Good, Inner, PSDoc
<1> DEFINE e == ps_enter_scope(d, s)
<1>2. /\ Kept(d, e)
      /\ e.scopes = Pushed(d.scopes, s)
      /\ SameProlog(d, e) /\ SamePage(d, e)
  BY <1>1, EnterFrame
<1> HIDE DEF e
<1>3. EntersInner(d, e)
  BY <1>1, <1>2 DEF EntersInner, SamePage
<1> QED
  BY <1>2, <1>3 DEF Stable, Step, Kept, e

\* Only what is on top is left.
LEMMA LeaveFrame ==
  ASSUME NEW d, Good(d), NEW s \in Scope, s # "OBJECT"
  PROVE  LET e == ps_leave_scope(d, s)
         IN  /\ Kept(d, e)
             /\ e.scopes = IF ps_current_scope(d) = s THEN Popped(d.scopes) ELSE d.scopes
             /\ SameProlog(d, e) /\ SamePage(d, e)
<1>1. d \in PSDoc /\ d.scopes \in Seq(Scope) /\ Len(d.scopes) \in Nat
  BY DEF Good, PSDoc
<1>2. CASE ps_current_scope(d) # s
  BY <1>1, <1>2 DEF ps_leave_scope, Kept, Good
<1>3. CASE ps_current_scope(d) = s
  <2> DEFINE e == [d EXCEPT !.scopes = Popped(d.scopes)]
  <2>1. Len(d.scopes) >= 2
    BY <1>1, <1>3 DEF Good, ps_current_scope
  <2>2. Popped(d.scopes) \in Seq(Scope)
    BY <1>1, <2>1 DEF Popped
  <2>3. /\ Kept(d, e)
        /\ e.scopes = Popped(d.scopes)
        /\ SameProlog(d, e) /\ SamePage(d, e)
    BY <1>1, <2>2 DEF PSDoc, Kept
  <2>4. ps_leave_scope(d, s) = e
    BY <1>3 DEF ps_leave_scope, Popped
  <2> QED
    BY <1>3, <2>3, <2>4
<1> QED
  BY <1>2, <1>3

LEMMA Leave ==
  ASSUME NEW Docs, Stable(Docs), NEW d \in Docs, NEW s \in Inner, s # "PAGE"
  PROVE  ps_leave_scope(d, s) \in Docs
<1> DEFINE e == ps_leave_scope(d, s)
<1>1. Good(d) /\ s \in Scope /\ s # "OBJECT" /\ d.page_open \in BOOLEAN
  BY DEF Stable, Inner, Scope, Good, PSDoc
<1>2. /\ Kept(d, e)
      /\ e.scopes = IF ps_current_scope(d) = s THEN Popped(d.scopes) ELSE d.scopes
      /\ SameProlog(d, e) /\ SamePage(d, e)
  BY <1>1, LeaveFrame
<1> HIDE DEF e
<1>3. ps_current_scope(d) = s => Leaves(d, e)
  BY <1>1, <1>2 DEF Leaves
<1>4. ps_current_scope(d) # s => Writes(d, e)
  BY <1>2 DEF Writes
<1>5. Step(d, e)
  BY <1>3, <1>4 DEF Step
<1> QED
  BY <1>2, <1>5 DEF Stable, Kept, e

----------------------------------------------------------------------------
(* Output and the header.                                                  *)

LEMMA Printf ==
  ASSUME NEW d \in PSDoc, NEW newnest \in Seq(Construct)
  PROVE  LET e == ps_printf(d, newnest)
         IN  /\ Writes(d, e) /\ e.agstate = d.agstate
             /\ HasSink(d) \/ e.life = "crashed"
  BY DEF Writes, Kept, PSDoc, ps_printf

LEMMA Nest ==
  ASSUME NEW d \in PSDoc, NEW c \in Construct
  PROVE  /\ Writes(d, Opening(d, c)) /\ Opening(d, c).agstate = d.agstate
         /\ HasSink(d) \/ Opening(d, c).life = "crashed"
         /\ Writes(d, Closing(d, c)) /\ Closing(d, c).agstate = d.agstate
<1> DEFINE opened == IF d.nest = Garbled THEN Garbled ELSE Append(d.nest, c)
           closed == IF Innermost(d) = c THEN SubSeq(d.nest, 1, Len(d.nest) - 1) ELSE Garbled
<1>1. d.nest \in Seq(Construct) /\ Garbled \in Seq(Construct)
  BY DEF PSDoc, Garbled, Construct
<1>2. opened \in Seq(Construct)
  BY <1>1
<1>3. closed \in Seq(Construct)
  <2>1. CASE Innermost(d) = c
    <3>1. d.nest # <<>>
      BY <2>1 DEF Innermost, Construct
    <3>2. SubSeq(d.nest, 1, Len(d.nest) - 1) \in Seq(Construct)
      BY <1>1, <3>1
    <3> QED
      BY <2>1, <3>2
  <2>2. CASE Innermost(d) # c
    BY <2>2, <1>1
  <2> QED
    BY <2>1, <2>2
<1> HIDE DEF opened, closed
<1> QED
  BY <1>2, <1>3, Printf DEF Opening, Closing, opened, closed

\* The parts of the header that enter and leave nothing.
LEMMA HeaderParts ==
  ASSUME NEW d \in PSDoc
  PROVE  Writes(d, ps_write_ps_comments(d)) /\ Writes(d, ps_write_ps_setup(d))
<1> DEFINE p == ps_printf(d, d.nest)
<1>1. Writes(d, p)
  BY Printf DEF PSDoc
<1>2. Writes(d, [p EXCEPT !.commentswritten = TRUE])
  BY <1>1 DEF Writes, Kept, PSDoc
<1>3. Writes(d, [p EXCEPT !.setupwritten = TRUE])
  BY <1>1 DEF Writes, Kept, PSDoc
<1> QED
  BY <1>2, <1>3 DEF ps_write_ps_comments, ps_write_ps_setup

\* The scope PROLOG is entered before the flag that says so is set, but
\* within one call.
LEMMA BeginProlog ==
  ASSUME NEW Docs, Stable(Docs), NEW d \in Docs, ~d.beginprologwritten
  PROVE  /\ ps_write_ps_beginprolog(d) \in Docs
         /\ ps_write_ps_beginprolog(d).beginprologwritten
         /\ ps_write_ps_beginprolog(d).scopes = Pushed(d.scopes, "PROLOG")
<1> DEFINE x == ps_enter_scope(d, "PROLOG")
           o == Opening(x, "prolog")
           e == [o EXCEPT !.beginprologwritten = TRUE, !.phase = "prolog"]
<1>1. d \in PSDoc /\ "PROLOG" \in Scope /\ "prolog" \in Construct
  BY DEF Stable, Good, Scope, Construct
<1>2. /\ Kept(d, x) /\ x.scopes = Pushed(d.scopes, "PROLOG")
      /\ SameProlog(d, x) /\ SamePage(d, x)
  BY <1>1, EnterFrame
<1> HIDE DEF x
<1>3. Writes(x, o) /\ (HasSink(x) \/ o.life = "crashed")
  BY <1>1, <1>2, Nest DEF Kept
<1>4. HasSink(x) <=> HasSink(d)
  BY <1>2 DEF Kept, HasSink
<1> HIDE DEF o
<1>5. /\ e \in PSDoc /\ e.scopes = o.scopes /\ e.beginprologwritten
      /\ e.endprologwritten = o.endprologwritten /\ SamePage(o, e)
      /\ e.writeproc = o.writeproc /\ e.fp = o.fp /\ e.doc_open = o.doc_open
      /\ e.life = o.life
  BY <1>3 DEF Writes, Kept, PSDoc
<1>6. BeginsProlog(d, e)
  BY <1>2, <1>3, <1>4, <1>5 DEF BeginsProlog, Writes, Kept
<1>7. e \in Docs
  BY <1>5, <1>6 DEF Stable, Step
<1> QED
  BY <1>2, <1>3, <1>5, <1>7 DEF ps_write_ps_beginprolog, Writes, o, x

\* The rule page_between is about the calls that end the prolog: they begin a
\* page.
BetweenPages(d) == Keeps("page_between", ps_check_scope(d, {"DOCUMENT", "PROLOG"}))

LEMMA EndProlog ==
  ASSUME NEW Docs, Stable(Docs), NEW d \in Docs, BetweenPages(d),
         d.beginprologwritten, ~d.endprologwritten
  PROVE  /\ ps_write_ps_endprolog(d) \in Docs
         /\ ps_write_ps_endprolog(d).beginprologwritten
         /\ ps_write_ps_endprolog(d).endprologwritten
<1> DEFINE c == Closing(d, "prolog")
           l == ps_leave_scope(c, "PROLOG")
           e == [l EXCEPT !.endprologwritten = TRUE]
<1>0. d \in PSDoc /\ "prolog" \in Construct
  BY DEF Stable, Good, Construct
<1>1. Writes(d, c) /\ Good(c)
  <2>1. Writes(d, c)
    BY <1>0, Nest
  <2> QED
    BY <2>1, WritesStays
<1>2. ps_current_scope(c) = ps_current_scope(d)
  BY <1>1 DEF Writes, ps_current_scope
<1> HIDE DEF c
<1>3. /\ Kept(c, l)
      /\ l.scopes = IF ps_current_scope(c) = "PROLOG" THEN Popped(c.scopes) ELSE c.scopes
      /\ SameProlog(c, l) /\ SamePage(c, l)
  BY <1>1, LeaveFrame DEF Scope
<1> HIDE DEF l
<1>4. /\ e \in PSDoc /\ e.scopes = l.scopes /\ e.endprologwritten
      /\ e.beginprologwritten = l.beginprologwritten /\ SamePage(l, e)
      /\ e.writeproc = l.writeproc /\ e.fp = l.fp /\ e.doc_open = l.doc_open
      /\ e.life = l.life
  BY <1>3 DEF Kept, PSDoc
<1> HIDE DEF e
<1>5. Kept(d, e)
  BY <1>1, <1>3, <1>4 DEF Writes, Kept, HasSink
<1>6. EndsProlog(d, e)
  BY <1>1, <1>2, <1>3, <1>4, <1>5 DEF EndsProlog, BetweenPages, Writes, ps_check_scope
<1>7. e \in Docs
  BY <1>4, <1>6 DEF Stable, Step
<1> QED
  BY <1>4, <1>6, <1>7 DEF ps_write_ps_endprolog, EndsProlog, c, l, e

LEMMA Prologs ==
  ASSUME NEW Docs, Stable(Docs), NEW d \in Docs
  PROVE  PrologStarted(d) \in Docs /\ PrologStarted(d).beginprologwritten
<1>1. /\ ps_write_ps_comments(d) \in Docs
      /\ ps_write_ps_comments(d).beginprologwritten = d.beginprologwritten
  BY HeaderParts, WritesStays DEF Stable, Good, Writes
<1> QED
  BY <1>1, BeginProlog DEF PrologStarted

LEMMA Header ==
  ASSUME NEW Docs, Stable(Docs), NEW d \in Docs, BetweenPages(d)
  PROVE  /\ ps_write_ps_header(d) \in Docs
         /\ ps_write_ps_header(d).beginprologwritten
         /\ ps_write_ps_header(d).endprologwritten
<1> DEFINE d1 == IF d.commentswritten THEN d ELSE ps_write_ps_comments(d)
           d2 == IF d1.beginprologwritten THEN d1 ELSE ps_write_ps_beginprolog(d1)
           d3 == IF d2.endprologwritten THEN d2 ELSE ps_write_ps_endprolog(d2)
           d4 == IF d3.setupwritten THEN d3 ELSE ps_write_ps_setup(d3)
           d5 == [d4 EXCEPT !.headerwritten = TRUE]
<1>1. d1 \in Docs /\ BetweenPages(d1)
  <2>1. Writes(d, ps_write_ps_comments(d))
    BY HeaderParts DEF Stable, Good
  <2> QED
    BY <2>1, WritesStays DEF Writes, BetweenPages, Keeps, ps_check_scope, ps_current_scope
<1> HIDE DEF d1
<1>2. d2 \in Docs /\ d2.beginprologwritten /\ BetweenPages(d2)
  <2>1. CASE d1.beginprologwritten
    BY <1>1, <2>1
  <2>2. CASE ~d1.beginprologwritten
    <3> DEFINE b == ps_write_ps_beginprolog(d1)
    <3>1. b \in Docs /\ b.beginprologwritten /\ b.scopes = Pushed(d1.scopes, "PROLOG")
      BY <1>1, <2>2, BeginProlog
    <3>2. ps_current_scope(b) \in {"PROLOG", ps_current_scope(d1)}
      BY <1>1, <3>1, PushedTop DEF Stable, Scope
    <3> HIDE DEF b
    <3>3. BetweenPages(b)
      BY <1>1, <3>2 DEF BetweenPages, Keeps, ps_check_scope
    <3> QED
      BY <2>2, <3>1, <3>3 DEF b
  <2> QED
    BY <2>1, <2>2
<1> HIDE DEF d2
<1>3. d3 \in Docs /\ d3.beginprologwritten /\ d3.endprologwritten
  BY <1>2, EndProlog
<1> HIDE DEF d3
<1>4. d4 \in Docs /\ Good(d4) /\ d4.beginprologwritten /\ d4.endprologwritten
  BY <1>3, HeaderParts, WritesStays DEF Stable, Good, Writes
<1> HIDE DEF d4
<1>5. Writes(d4, d5) /\ d5.beginprologwritten /\ d5.endprologwritten
  BY <1>4 DEF Writes, Kept, Good, PSDoc
<1>6. d5 \in Docs
  BY <1>4, <1>5, WritesStays
<1>7. ps_write_ps_header(d) = IF d.headerwritten THEN d ELSE d5
  BY DEF ps_write_ps_header, d1, d2, d3, d4
<1> HIDE DEF d5
<1> QED
  BY <1>5, <1>6, <1>7 DEF Stable, Good

----------------------------------------------------------------------------
(* The calls of the library, but for opening, closing and deleting.        *)

LEMMA PageBegun ==
  ASSUME NEW Docs, Stable(Docs), NEW d \in Docs, BetweenPages(d)
  PROVE  PS_begin_page(d) \in Docs
<1> DEFINE h == ps_write_ps_header(d)
           n == [h EXCEPT !.page = @ + 1, !.phase = "script"]
           p == Opening(n, "page")
           o == [p EXCEPT !.page_open = TRUE]
           e == ps_enter_scope(o, "PAGE")
<1>1. h \in Docs /\ Good(h) /\ h.beginprologwritten
  BY Header DEF Stable
<1>2. CASE ps_check_scope(h, {"DOCUMENT"})
  <2> HIDE DEF h
  <2>0. h \in PSDoc /\ h.page + 1 \in Nat
    BY <1>1 DEF Good, PSDoc
  <2>1. Writes(h, n)
    BY <2>0 DEF Writes, Kept, PSDoc
  <2> HIDE DEF n
  <2>2. n \in Docs /\ n \in PSDoc /\ "page" \in Construct
    BY <1>1, <2>1, WritesStays DEF Good, Construct
  <2>3. p \in Docs /\ Good(p) /\ Writes(n, p)
    BY <2>2, WritesStays, Nest
  <2> HIDE DEF p
  <2>4. /\ Kept(p, o) /\ o \in PSDoc /\ o.scopes = p.scopes
        /\ SameProlog(p, o) /\ o.page_open
    BY <2>3 DEF Kept, Good, PSDoc
  <2> HIDE DEF o
  <2>5. /\ Kept(o, e) /\ e.scopes = Pushed(o.scopes, "PAGE")
        /\ SameProlog(o, e) /\ e.page_open
    BY <2>4, EnterFrame DEF Scope
  <2> HIDE DEF e
  <2>6. Kept(p, e)
    BY <2>4, <2>5 DEF Kept, HasSink
  <2>7. p.beginprologwritten /\ p.scopes = h.scopes
    BY <1>1, <2>1, <2>3 DEF Writes
  <2>8. ps_current_scope(p) \in Below("PAGE") /\ "PAGE" \in Inner
    BY <1>2, <2>7 DEF ps_check_scope, ps_current_scope, Below, Inner, Scope
  <2>9. EntersInner(p, e)
    BY <2>4, <2>5, <2>6, <2>7, <2>8 DEF EntersInner
  <2>10. e \in Docs
    BY <2>3, <2>6, <2>9 DEF Stable, Step, Kept
  <2> QED
    BY <1>2, <2>10 DEF PS_begin_page, h, n, p, o, e
<1>3. CASE ~ps_check_scope(h, {"DOCUMENT"})
  BY <1>1, <1>3 DEF PS_begin_page
<1> QED
  BY <1>2, <1>3

LEMMA EndedPages ==
  ASSUME NEW Docs, Stable(Docs), NEW d \in Docs
  PROVE  PS_end_page(d) \in Docs
<1> DEFINE c == Closing(d, "page")
           e == [c EXCEPT !.page_open = FALSE]
           l == ps_leave_scope(e, "PAGE")
<1>1. c \in Docs /\ Good(c) /\ Writes(d, c)
  BY Nest, WritesStays DEF Stable, Good, Construct
<1> HIDE DEF c
<1>2. ASSUME ps_current_scope(d) = "PAGE"
      PROVE  l \in Docs
  <2>1. /\ Kept(c, e) /\ SameProlog(c, e) /\ e.scopes = c.scopes /\ ~e.page_open
        /\ e.headerwritten = c.headerwritten
    BY <1>1 DEF Kept, Good, PSDoc
  <2> HIDE DEF e
  <2>2. Good(e) /\ ps_current_scope(e) = "PAGE" /\ ps_current_scope(c) = "PAGE"
    BY <1>1, <1>2, <2>1 DEF Writes, Good, Kept, ps_current_scope
  <2>3. /\ Kept(e, l) /\ l.scopes = Popped(e.scopes)
        /\ SameProlog(e, l) /\ SamePage(e, l)
    BY <2>2, LeaveFrame DEF Scope
  <2> HIDE DEF l
  <2>4. Kept(c, l)
    BY <2>1, <2>3 DEF Kept, HasSink
  <2>5. Leaves(c, l)
    <3>1. c.page_open \in BOOLEAN /\ "PAGE" \in Inner
      BY <1>1 DEF Good, PSDoc, Inner, Scope
    <3>2. l.scopes = Popped(c.scopes) /\ ~l.page_open /\ SameProlog(c, l)
      BY <2>1, <2>3
    <3> QED
      BY <2>2, <2>4, <3>1, <3>2 DEF Leaves
  <2> QED
    BY <1>1, <2>4, <2>5 DEF Stable, Step, Kept
<1> QED
  BY <1>2 DEF PS_end_page, ps_check_scope, c, e, l

LEMMA Definitions ==
  ASSUME NEW Docs, Stable(Docs), NEW d \in Docs
  PROVE  /\ PS_begin_template(d) \in Docs
         /\ PS_begin_pattern(d) \in Docs
         /\ PS_begin_font(d) \in Docs
<1> DEFINE p == PrologStarted(d)
<1>1. p \in Docs /\ p \in PSDoc /\ p.beginprologwritten
  BY Prologs DEF Stable, Good
<1> HIDE DEF p
<1>2. ASSUME NEW s \in {"TEMPLATE", "PATTERN", "FONT"}, NEW c \in Construct
      PROVE  BeginDefinition(d, s, c) \in Docs
  <2> DEFINE o == Opening(p, c)
  <2>1. Writes(p, o)
    BY <1>1, Nest
  <2> HIDE DEF o
  <2>2. o \in Docs /\ o.scopes = p.scopes /\ o.beginprologwritten
    BY <1>1, <2>1, WritesStays DEF Writes
  <2>3. ASSUME ps_check_scope(p, {"DOCUMENT", "PROLOG"})
        PROVE  ps_enter_scope(o, s) \in Docs
    <3>1. ps_current_scope(o) \in {"DOCUMENT", "PROLOG"}
      BY <2>2, <2>3 DEF ps_check_scope, ps_current_scope
    <3>2. ps_current_scope(o) \in Below(s) /\ s \in Inner
      BY <3>1 DEF Below, Inner, Scope
    <3> QED
      BY <2>2, <3>2, Enter
  <2> QED
    BY <1>1, <2>3 DEF BeginDefinition, p, o
<1>3. "proc" \in Construct /\ "fontdict" \in Construct
  BY DEF Construct
<1>4. PS_begin_pattern(d) \in Docs /\ PS_begin_font(d) \in Docs
  BY <1>2, <1>3 DEF PS_begin_pattern, PS_begin_font
<1>5. PS_begin_template(d) \in Docs
  <2> DEFINE t == BeginDefinition(d, "TEMPLATE", "proc")
  <2>1. t \in Docs /\ Good(t)
    BY <1>2, <1>3 DEF Stable
  <2> HIDE DEF t
  <2>2. Writes(t, [t EXCEPT !.images = TRUE])
    BY <2>1 DEF Writes, Kept, Good, PSDoc
  <2> QED
    BY <2>1, <2>2, WritesStays DEF PS_begin_template, t
<1> QED
  BY <1>4, <1>5

LEMMA GlyphBegun ==
  ASSUME NEW Docs, Stable(Docs), NEW d \in Docs
  PROVE  PS_begin_glyph(d) \in Docs
<1> DEFINE o == Opening(d, "charproc")
<1>1. Good(d) /\ d \in PSDoc /\ "charproc" \in Construct
  BY DEF Stable, Good, Construct
<1>2. Writes(d, o)
  BY <1>1, Nest
<1> HIDE DEF o
<1>3. o \in Docs /\ o.scopes = d.scopes /\ o.beginprologwritten = d.beginprologwritten
  BY <1>2, WritesStays DEF Writes
<1>4. ASSUME ps_check_scope(d, {"FONT"})
      PROVE  ps_enter_scope(o, "GLYPH") \in Docs
  <2>1. ps_current_scope(d) = "FONT" /\ ps_current_scope(o) = "FONT"
    BY <1>3, <1>4 DEF ps_check_scope, ps_current_scope
  <2>2. o.beginprologwritten
    BY <1>1, <1>3, <2>1, Current
  <2>3. "FONT" \in Below("GLYPH") /\ "GLYPH" \in Inner
    BY DEF Below, Inner, Scope
  <2> QED
    BY <1>3, <2>1, <2>2, <2>3, Enter
<1> QED
  BY <1>4 DEF PS_begin_glyph, o

LEMMA EndedDefinitions ==
  ASSUME NEW Docs, Stable(Docs), NEW d \in Docs
  PROVE  /\ PS_end_template(d) \in Docs /\ PS_end_pattern(d) \in Docs
         /\ PS_end_font(d) \in Docs /\ PS_end_glyph(d) \in Docs
<1>1. ASSUME NEW s \in Inner, s # "PAGE", NEW c \in Construct
      PROVE  EndDefinition(d, s, c) \in Docs
  <2>1. Closing(d, c) \in Docs
    BY Nest, WritesStays DEF Stable, Good
  <2>2. ps_leave_scope(Closing(d, c), s) \in Docs
    BY <1>1, <2>1, Leave
  <2> QED
    BY <2>2 DEF EndDefinition
<1> QED
  BY <1>1 DEF PS_end_template, PS_end_pattern, PS_end_font, PS_end_glyph, Inner, Scope, Construct

LEMMA Resources ==
  ASSUME NEW Docs, Stable(Docs), NEW d \in Docs
  PROVE  /\ \A writes \in BOOLEAN : PS_findfont(d, writes) \in Docs
         /\ \A reuse \in BOOLEAN : PS_open_image(d, reuse) \in Docs
         /\ PS_include_file(d) \in Docs
         /\ \A found \in BOOLEAN : PS_shading_pattern(d, found) \in Docs
<1>1. PrologStarted(d) \in Docs
  BY Prologs
<1>2. ASSUME NEW reuse \in BOOLEAN
      PROVE  PS_open_image(d, reuse) \in Docs
  <2> DEFINE p == IF reuse THEN PrologStarted(d) ELSE d
  <2>1. p \in Docs /\ Good(p)
    BY <1>1 DEF Stable
  <2> HIDE DEF p
  <2>2. Writes(p, [p EXCEPT !.images = TRUE])
    BY <2>1 DEF Writes, Kept, Good, PSDoc
  <2> QED
    BY <2>1, <2>2, WritesStays DEF PS_open_image, p
<1>3. ASSUME NEW found \in BOOLEAN
      PROVE  PS_shading_pattern(d, found) \in Docs
  <2> DEFINE written == IF d.phase = "empty" THEN Garbled ELSE d.nest
  <2>1. d \in PSDoc
    BY DEF Stable, Good
  <2>2. written \in Seq(Construct)
    <3>1. d.nest \in Seq(Construct) /\ Garbled \in Seq(Construct)
      BY <2>1 DEF PSDoc, Garbled, Construct
    <3> QED
      BY <3>1
  <2> HIDE DEF written
  <2>3. ps_printf(d, written) \in Docs
    BY <2>1, <2>2, Printf, WritesStays
  <2> QED
    BY <2>3 DEF PS_shading_pattern, written
<1> QED
  BY <1>1, <1>2, <1>3 DEF PS_findfont, PS_include_file

LEMMA Paths ==
  ASSUME NEW Docs, Stable(Docs), NEW d \in Docs
  PROVE  PS_moveto(d) \in Docs /\ PS_arc(d) \in Docs /\ PaintPath(d) \in Docs
<1>1. ASSUME NEW allowed, allowed \subseteq PathStarter
      PROVE  StartPath(d, allowed) \in Docs
  <2>1. CASE ps_check_scope(d, allowed) /\ ~ps_check_scope(d, {"PATH"})
    <3>1. ps_current_scope(d) \in {"GLYPH"} \cup DrawingScope
      BY <1>1, <2>1 DEF ps_check_scope, PathStarter
    <3>2. /\ ps_current_scope(d) \in Below("PATH") /\ d.beginprologwritten
          /\ "PATH" \in Inner
      BY <3>1, Current DEF Below, DrawingScope, Stable, Inner, Scope
    <3>3. ps_enter_scope(d, "PATH") \in Docs
      BY <3>2, Enter
    <3> QED
      BY <2>1, <3>3 DEF StartPath
  <2>2. CASE ~(ps_check_scope(d, allowed) /\ ~ps_check_scope(d, {"PATH"}))
    BY <2>2 DEF StartPath
  <2> QED
    BY <2>1, <2>2
<1>2. ps_leave_scope(d, "PATH") \in Docs
  BY Leave DEF Inner, Scope
<1> QED
  BY <1>1, <1>2 DEF PS_moveto, PS_arc, PaintPath

LEMMA Levels ==
  ASSUME NEW Docs, Stable(Docs), NEW d \in Docs
  PROVE  PS_save(d) \in Docs /\ PS_restore(d) \in Docs
<1> DEFINE o == Opening(d, "gsave")
           c == Closing(d, "gsave")
<1>1. d \in PSDoc /\ "gsave" \in Construct
  BY DEF Stable, Good, Construct
<1>2. Writes(d, o) /\ Writes(d, c) /\ o.agstate = d.agstate /\ c.agstate = d.agstate
  BY <1>1, Nest
<1>3. d.agstate \in 0..(MaxGState - 1)
  BY <1>1 DEF PSDoc
<1>4. ASSUME NEW x, Writes(d, x), NEW level \in 0..(MaxGState - 1)
      PROVE  [x EXCEPT !.agstate = level] \in Docs
  <2>1. Writes(d, [x EXCEPT !.agstate = level])
    BY <1>4 DEF Writes, Kept, PSDoc
  <2> QED
    BY <2>1, WritesStays
<1> HIDE DEF o, c
<1>5. PS_save(d) \in Docs
  <2>1. CASE ps_check_scope(d, DrawingScope) /\ d.agstate < MaxGState - 1
    <3>1. d.agstate + 1 \in 0..(MaxGState - 1)
      BY <1>3, <2>1, MaxGStateAssumption
    <3>2. PS_save(d) = [o EXCEPT !.agstate = d.agstate + 1]
      BY <1>2, <1>3, <2>1, MaxGStateAssumption DEF PS_save, o
    <3> QED
      BY <1>2, <1>4, <3>1, <3>2
  <2>2. CASE ~(ps_check_scope(d, DrawingScope) /\ d.agstate < MaxGState - 1)
    BY <1>3, <2>2, MaxGStateAssumption DEF PS_save
  <2> QED
    BY <2>1, <2>2
<1>6. PS_restore(d) \in Docs
  <2>1. CASE ps_check_scope(d, DrawingScope) /\ d.agstate > 0
    <3>1. d.agstate - 1 \in 0..(MaxGState - 1)
      BY <1>3, <2>1, MaxGStateAssumption
    <3>2. PS_restore(d) = [c EXCEPT !.agstate = d.agstate - 1]
      BY <1>2, <1>3, <2>1, MaxGStateAssumption DEF PS_restore, c
    <3> QED
      BY <1>2, <1>4, <3>1, <3>2
  <2>2. CASE ~(ps_check_scope(d, DrawingScope) /\ d.agstate > 0)
    BY <1>3, <2>2, MaxGStateAssumption DEF PS_restore
  <2> QED
    BY <2>1, <2>2
<1> QED
  BY <1>5, <1>6

LEMMA Texts ==
  ASSUME NEW Docs, Stable(Docs), NEW d \in Docs
  PROVE  /\ \A lines \in SUBSET Decoration : PS_show2(d, lines) \in Docs
         /\ PS_place_image(d) \in Docs
<1>1. ASSUME NEW x \in Docs
      PROVE  DrawLine(x) \in Docs
  <2>1. PS_save(x) \in Docs
    BY Levels
  <2>2. PS_moveto(PS_save(x)) \in Docs
    BY <2>1, Paths
  <2>3. PaintPath(PS_moveto(PS_save(x))) \in Docs
    BY <2>2, Paths
  <2> QED
    BY <2>3, Levels DEF DrawLine
<1>2. ASSUME NEW lines \in SUBSET Decoration
      PROVE  PS_show2(d, lines) \in Docs
  <2> DEFINE u == IF "underline" \in lines THEN DrawLine(d) ELSE d
             o == IF "overline" \in lines THEN DrawLine(u) ELSE u
             s == IF "strikeout" \in lines THEN DrawLine(o) ELSE o
  <2>1. u \in Docs
    BY <1>1
  <2> HIDE DEF u
  <2>2. o \in Docs
    BY <1>1, <2>1
  <2> HIDE DEF o
  <2>3. s \in Docs
    BY <1>1, <2>2
  <2>4. PS_show2(d, lines) = IF ps_check_scope(d, DrawingScope) THEN s ELSE d
    BY DEF PS_show2, u, o
  <2> QED
    BY <2>3, <2>4
<1>3. PS_place_image(d) \in Docs
  <2>1. PS_save(d) \in Docs
    BY Levels
  <2> QED
    BY <2>1, Levels DEF PS_place_image
<1> QED
  BY <1>2, <1>3

----------------------------------------------------------------------------
(* The calling program.                                                    *)

\* All calls that are made of steps.
Call ==
  \/ BeginPage \/ EndPage
  \/ BeginTemplate \/ EndTemplate \/ BeginPattern \/ EndPattern
  \/ BeginFont \/ EndFont \/ BeginGlyph \/ EndGlyph
  \/ FindFont \/ OpenImage \/ IncludeFile \/ ShadingPattern
  \/ ConstructPath \/ EndPath
  \/ Save \/ Restore \/ ShowText \/ PlaceImage

\* A call returns a document of every stable set it is given one of.
LEMMA Calls ==
  ASSUME NEW Docs, Stable(Docs), psdoc \in Docs, Call
  PROVE  \E d \in Docs : Returns(d)
<1>1. CASE BeginPage
  BY <1>1, PageBegun DEF BeginPage, BetweenPages
<1>2. CASE EndPage
  BY <1>2, EndedPages DEF EndPage
<1>3. CASE BeginTemplate \/ BeginPattern \/ BeginFont
  BY <1>3, Definitions DEF BeginTemplate, BeginPattern, BeginFont
<1>4. CASE BeginGlyph
  BY <1>4, GlyphBegun DEF BeginGlyph
<1>5. CASE EndTemplate \/ EndPattern \/ EndFont \/ EndGlyph
  BY <1>5, EndedDefinitions DEF EndTemplate, EndPattern, EndFont, EndGlyph
<1>6. CASE FindFont \/ OpenImage \/ IncludeFile \/ ShadingPattern
  BY <1>6, Resources DEF FindFont, OpenImage, IncludeFile, ShadingPattern
<1>7. CASE ConstructPath \/ EndPath
  BY <1>7, Paths DEF ConstructPath, EndPath
<1>8. CASE Save \/ Restore
  BY <1>8, Levels DEF Save, Restore
<1>9. CASE ShowText \/ PlaceImage
  BY <1>9, Texts DEF ShowText, PlaceImage
<1> QED
  BY <1>1, <1>2, <1>3, <1>4, <1>5, <1>6, <1>7, <1>8, <1>9 DEF Call

\* How often the document was opened, and what the caller counts.
Counted ==
  /\ opens \in 0..MaxOpens
  /\ pending \in -MaxPending..MaxPending

LEMMA CountedStep ==
  ASSUME Counted, [Next]_vars
  PROVE  /\ Counted'
         /\ opens' = IF OpenDocument THEN opens + 1 ELSE opens
<1> USE BoundsAssumption, MaxGStateAssumption DEF Counted, MaxPending
<1>1. CASE UNCHANGED vars
  BY <1>1 DEF vars, OpenDocument
<1>2. CASE OpenDocument
  BY <1>2 DEF OpenDocument
<1>3. CASE BeginPage \/ BeginTemplate \/ BeginPattern
  BY <1>3 DEF BeginPage, BeginTemplate, BeginPattern, Enters, OpenDocument
<1>4. CASE Save
  BY <1>4 DEF Save, OpenDocument
<1>5. CASE Restore
  BY <1>5 DEF Restore, OpenDocument
<1>6. CASE \/ CloseDocument \/ DeleteDocument \/ EndPage
           \/ EndTemplate \/ EndPattern \/ BeginFont \/ EndFont \/ BeginGlyph \/ EndGlyph
           \/ FindFont \/ OpenImage \/ IncludeFile \/ ShadingPattern \/ ConstructPath \/ EndPath
           \/ ShowText \/ PlaceImage
  BY <1>6 DEF CloseDocument, DeleteDocument, EndPage, EndTemplate, EndPattern, BeginFont,
              EndFont, BeginGlyph, EndGlyph, FindFont, OpenImage, IncludeFile,
              ShadingPattern, ConstructPath, EndPath, ShowText, PlaceImage, OpenDocument
<1> QED
  BY <1>1, <1>2, <1>3, <1>4, <1>5, <1>6 DEF Next

----------------------------------------------------------------------------
(* The stack nests.                                                        *)

\* What is pushed onto a good stack.
LEMMA PushedIs ==
  ASSUME NEW d, Good(d), NEW s \in Scope, Len(d.scopes) # MaxScopes
  PROVE  /\ Pushed(d.scopes, s) \in Seq(Scope)
         /\ Len(Pushed(d.scopes, s)) = Len(d.scopes) + 1
         /\ Len(d.scopes) + 1 \in 1..MaxScopes
         /\ \A i \in 1..Len(d.scopes) : Pushed(d.scopes, s)[i] = d.scopes[i]
         /\ Pushed(d.scopes, s)[Len(d.scopes) + 1] = s
  BY MaxScopesAssumption DEF Pushed, Good, PSDoc

LEMMA PoppedIs ==
  ASSUME NEW d, Good(d), ps_current_scope(d) # "OBJECT"
  PROVE  /\ Popped(d.scopes) \in Seq(Scope)
         /\ Len(Popped(d.scopes)) = Len(d.scopes) - 1
         /\ Len(d.scopes) - 1 \in 1..MaxScopes
         /\ \A i \in 1..Len(d.scopes) - 1 : Popped(d.scopes)[i] = d.scopes[i]
<1>1. d.scopes \in Seq(Scope) /\ Len(d.scopes) \in Nat /\ Len(d.scopes) >= 2
  BY DEF Good, PSDoc, ps_current_scope
<1> QED
  BY <1>1, MaxScopesAssumption DEF Popped, Good

\* Entering and leaving keep a stack that nests nesting.
LEMMA PushedIsGood ==
  ASSUME NEW d, Good(d), NEW s \in Scope, ps_current_scope(d) \in Below(s),
         NEW e \in PSDoc, e.scopes = Pushed(d.scopes, s),
         e.beginprologwritten \/ (s = "DOCUMENT" /\ ~d.beginprologwritten),
         e.headerwritten => e.beginprologwritten /\ e.endprologwritten
  PROVE  Good(e)
<1>1. CASE Len(d.scopes) = MaxScopes
  BY <1>1 DEF Good, Pushed
<1>2. CASE Len(d.scopes) # MaxScopes
  <2>1. /\ Len(e.scopes) = Len(d.scopes) + 1
        /\ Len(e.scopes) \in 1..MaxScopes
        /\ \A i \in 1..Len(d.scopes) : e.scopes[i] = d.scopes[i]
        /\ e.scopes[Len(d.scopes) + 1] = s
    BY <1>2, PushedIs
  <2>2. e.scopes[1] = "OBJECT"
    BY <2>1 DEF Good
  <2>3. Nested(e.scopes)
    <3> SUFFICES ASSUME NEW i \in 2..Len(e.scopes)
                 PROVE  e.scopes[i - 1] \in Below(e.scopes[i])
      BY DEF Nested
    <3>1. CASE i = Len(d.scopes) + 1
      BY <3>1, <2>1 DEF Good, ps_current_scope
    <3>2. CASE i # Len(d.scopes) + 1
      <4>1. i \in 2..Len(d.scopes) /\ i - 1 \in 1..Len(d.scopes)
        BY <3>2, <2>1 DEF Good
      <4>2. d.scopes[i - 1] \in Below(d.scopes[i])
        BY <4>1 DEF Good, Nested
      <4> QED
        BY <4>1, <4>2, <2>1
    <3> QED
      BY <3>1, <3>2
  <2>4. ~e.beginprologwritten =>
          \A i \in 1..Len(e.scopes) : e.scopes[i] \in {"OBJECT", "DOCUMENT"}
    BY <2>1 DEF Good
  <2> QED
    BY <2>1, <2>2, <2>3, <2>4 DEF Good
<1> QED
  BY <1>1, <1>2

LEMMA PoppedIsGood ==
  ASSUME NEW d, Good(d), ps_current_scope(d) # "OBJECT",
         NEW e \in PSDoc, e.scopes = Popped(d.scopes),
         e.beginprologwritten = d.beginprologwritten,
         e.headerwritten => e.beginprologwritten /\ e.endprologwritten
  PROVE  Good(e)
<1>1. /\ Len(e.scopes) = Len(d.scopes) - 1
      /\ Len(e.scopes) \in 1..MaxScopes
      /\ \A i \in 1..Len(e.scopes) : e.scopes[i] = d.scopes[i]
  BY PoppedIs
<1>2. e.scopes[1] = "OBJECT"
  BY <1>1 DEF Good
<1>3. Nested(e.scopes)
  BY <1>1 DEF Good, Nested
<1>4. ~e.beginprologwritten =>
        \A i \in 1..Len(e.scopes) : e.scopes[i] \in {"OBJECT", "DOCUMENT"}
  BY <1>1 DEF Good
<1> QED
  BY <1>1, <1>2, <1>3, <1>4 DEF Good

\* What a step does to the stack.
Stays(d, e) ==
  Kept(d, e) /\ e.scopes = d.scopes /\ e.beginprologwritten = d.beginprologwritten

Pops(d, e) ==
  /\ Kept(d, e) /\ e.beginprologwritten = d.beginprologwritten
  /\ ps_current_scope(d) \in Inner \cup {"PROLOG"}
  /\ e.scopes = Popped(d.scopes)

Moves(d, e) == Stays(d, e) \/ EntersInner(d, e) \/ BeginsProlog(d, e) \/ Pops(d, e)

LEMMA StepMoves ==
  ASSUME NEW d, NEW e, Step(d, e)
  PROVE  Moves(d, e) /\ Kept(d, e)
<1>1. CASE Writes(d, e)
  BY <1>1 DEF Writes, Stays, Moves
<1>2. CASE EntersInner(d, e)
  BY <1>2 DEF EntersInner, Moves
<1>3. CASE BeginsProlog(d, e)
  BY <1>3 DEF BeginsProlog, Moves
<1>4. CASE Leaves(d, e)
  BY <1>4 DEF Leaves, Pops, Moves
<1>5. CASE EndsProlog(d, e)
  BY <1>5 DEF EndsProlog, Stays, Pops, Moves, ps_check_scope
<1> QED
  BY <1>1, <1>2, <1>3, <1>4, <1>5 DEF Step

LEMMA StepIsGood ==
  ASSUME NEW d, Good(d), NEW e, Step(d, e)
  PROVE  Good(e) /\ e \in PSDoc
<1>0. /\ Moves(d, e)
      /\ e.headerwritten => e.beginprologwritten /\ e.endprologwritten
  <2>1. /\ e.headerwritten => d.headerwritten \/ (e.beginprologwritten /\ e.endprologwritten)
        /\ d.headerwritten => d.beginprologwritten /\ d.endprologwritten
    BY DEF Step, Writes, EntersInner, Leaves, BeginsProlog, EndsProlog, Kept, Good
  <2>2. d.beginprologwritten /\ d.endprologwritten
        => e.beginprologwritten /\ e.endprologwritten
    BY DEF Step, Writes, EntersInner, Leaves, BeginsProlog, EndsProlog
  <2> QED
    BY <2>1, <2>2, StepMoves
<1>1. CASE Stays(d, e)
  BY <1>0, <1>1 DEF Stays, Kept, Good
<1>2. CASE EntersInner(d, e)
  <2>1. e.beginprologwritten
    BY <1>2 DEF EntersInner
  <2> QED
    BY <1>0, <1>2, <2>1, PushedIsGood DEF EntersInner, Kept, Inner
<1>3. CASE BeginsProlog(d, e)
  <2>1. ps_current_scope(d) \in Below("PROLOG") /\ "PROLOG" \in Scope
    <3>1. ps_current_scope(d) \in {"OBJECT", "DOCUMENT"}
      BY <1>3, Current DEF BeginsProlog
    <3> QED
      BY <3>1 DEF Below, Scope
  <2> QED
    BY <1>0, <1>3, <2>1, PushedIsGood DEF BeginsProlog, Kept
<1>4. CASE Pops(d, e)
  <2>1. ps_current_scope(d) # "OBJECT"
    BY <1>4 DEF Pops, Inner
  <2> QED
    BY <1>0, <1>4, <2>1, PoppedIsGood DEF Pops, Kept, Good
<1> QED
  BY <1>0, <1>1, <1>2, <1>3, <1>4 DEF Moves

GoodDocs == {d \in PSDoc : Good(d)}

LEMMA GoodIsStable == Stable(GoodDocs)
  BY StepIsGood DEF Stable, GoodDocs


----------------------------------------------------------------------------
(* Opening, closing and deleting.                                          *)

\* What is opened is given a level, an output and a document.
Opened(d, e) ==
  /\ e \in PSDoc
  /\ e.scopes = Pushed(d.scopes, "DOCUMENT")
  /\ e.doc_open /\ HasSink(e)
  /\ e.life = d.life
  /\ SameProlog(d, e) /\ SamePage(d, e)
  /\ e.headerwritten = d.headerwritten

\* What is closed gives them back.
Finished(d, e) ==
  /\ e \in PSDoc
  /\ ps_current_scope(d) = "DOCUMENT"
  /\ e.scopes = IF d.doc_open THEN Popped(d.scopes) ELSE d.scopes
  /\ ~e.doc_open
  /\ e.life = d.life \/ (e.life = "crashed" /\ ~HasSink(d))
  /\ SameProlog(d, e) /\ SamePage(d, e)
  /\ e.headerwritten = d.headerwritten

LEMMA StreamOpened ==
  ASSUME NEW d \in PSDoc, HasSink(d)
  PROVE  Opened(d, OpenStream(d))
<1> DEFINE o == [d EXCEPT !.page = 0, !.doc_open = TRUE, !.phase = "empty", !.nest = <<>>]
           e == ps_enter_scope(o, "DOCUMENT")
<1>0. <<>> \in Seq(Construct) /\ 0 \in Nat
  OBVIOUS
<1>1. /\ o \in PSDoc /\ o.doc_open /\ HasSink(o) /\ o.scopes = d.scopes /\ o.life = d.life
      /\ SameProlog(d, o) /\ SamePage(d, o) /\ o.headerwritten = d.headerwritten
  BY <1>0 DEF PSDoc, HasSink
<1> HIDE DEF o
<1>2. e.headerwritten = o.headerwritten
  BY <1>1 DEF ps_enter_scope, PSDoc
<1>3. /\ Kept(o, e)
      /\ e.scopes = Pushed(o.scopes, "DOCUMENT")
      /\ SameProlog(o, e) /\ SamePage(o, e)
  BY <1>1, EnterFrame DEF Scope
<1>4. OpenStream(d) = e
  BY DEF OpenStream, o
<1> HIDE DEF e
<1> QED
  BY <1>1, <1>2, <1>3, <1>4 DEF Opened, Kept, HasSink

LEMMA Opens ==
  ASSUME NEW d \in PSDoc
  PROVE  /\ Opened(d, PS_open_fp(d, "caller"))
         /\ Opened(d, PS_open_file(d))
         /\ \A w \in {"buffer", "user"} : Opened(d, PS_open_mem(d, w))
<1>1. ASSUME NEW file \in {"caller", "lib"}
      PROVE  Opened(d, PS_open_fp(d, file))
  <2> DEFINE o == [d EXCEPT !.fp = file, !.closefp = FALSE, !.writeproc = "file"]
  <2>1. /\ o \in PSDoc /\ HasSink(o) /\ o.scopes = d.scopes /\ o.life = d.life
        /\ SameProlog(d, o) /\ SamePage(d, o) /\ o.headerwritten = d.headerwritten
    BY DEF PSDoc, HasSink
  <2> HIDE DEF o
  <2>2. Opened(o, OpenStream(o))
    BY <2>1, StreamOpened
  <2>3. PS_open_fp(d, file) = OpenStream(o)
    BY DEF PS_open_fp, o
  <2> QED
    BY <2>1, <2>2, <2>3 DEF Opened
<1>2. Opened(d, PS_open_file(d))
  <2> DEFINE l == PS_open_fp(d, "lib")
  <2>1. Opened(d, l)
    BY <1>1
  <2> HIDE DEF l
  <2>2. Opened(d, [l EXCEPT !.closefp = TRUE])
    BY <2>1 DEF Opened, PSDoc, HasSink
  <2> QED
    BY <2>2 DEF PS_open_file, l
<1>3. ASSUME NEW w \in {"buffer", "user"}
      PROVE  Opened(d, PS_open_mem(d, w))
  <2> DEFINE o == [d EXCEPT !.writeproc = w, !.fp = "null"]
  <2>1. /\ o \in PSDoc /\ HasSink(o) /\ o.scopes = d.scopes /\ o.life = d.life
        /\ SameProlog(d, o) /\ SamePage(d, o) /\ o.headerwritten = d.headerwritten
    BY DEF PSDoc, HasSink
  <2> HIDE DEF o
  <2>2. Opened(o, OpenStream(o))
    BY <2>1, StreamOpened
  <2>3. PS_open_mem(d, w) = OpenStream(o)
    BY DEF PS_open_mem, o
  <2> QED
    BY <2>1, <2>2, <2>3 DEF Opened
<1> QED
  BY <1>1, <1>2, <1>3

\* A refused PS_close may still have ended the page: that much is a call made
\* of steps.
LEMMA Closes ==
  ASSUME NEW Docs, Stable(Docs), NEW d \in Docs
  PROVE  \E e \in Docs : PS_close(d) = e \/ Finished(e, PS_close(d))
<1> DEFINE e == IF d.page_open THEN PS_end_page(d) ELSE d
           t == IF e.doc_open THEN ps_leave_scope(Trailer(e), "DOCUMENT") ELSE e
           c == IF t.closefp /\ t.fp # "null" THEN [t EXCEPT !.fp = "null"] ELSE t
           f == [c EXCEPT !.doc_open = FALSE]
<1>1. e \in Docs
  BY EndedPages
<1>2. PS_close(d) = IF ~ps_check_scope(e, {"DOCUMENT"}) THEN e ELSE f
  BY DEF PS_close
<1> HIDE DEF e
<1>3. e \in PSDoc /\ Good(e)
  BY <1>1 DEF Stable, Good
<1>4. ASSUME ps_current_scope(e) = "DOCUMENT"
      PROVE  Finished(e, f)
  <2> DEFINE w == Trailer(e)
  <2>1. Writes(e, w) /\ w.headerwritten = e.headerwritten
    <3> DEFINE n == IF e.nest = <<>> THEN <<>> ELSE Garbled
               p == ps_printf(e, n)
    <3>1. n \in Seq(Construct)
      <4>1. <<>> \in Seq(Construct) /\ Garbled \in Seq(Construct)
        BY DEF Garbled, Construct
      <4> QED
        BY <4>1
    <3> HIDE DEF n
    <3>2. Writes(e, p) /\ p.headerwritten = e.headerwritten /\ p \in PSDoc
      BY <1>3, <3>1 DEF ps_printf, Writes, Kept, HasSink, PSDoc
    <3>3. w = [p EXCEPT !.phase = "trailer"]
      BY DEF Trailer, n
    <3> HIDE DEF p, w
    <3> QED
      BY <3>2, <3>3 DEF Writes, Kept, PSDoc
  <2>2. Good(w) /\ ps_current_scope(w) = "DOCUMENT"
    BY <1>1, <1>4, <2>1, WritesStays DEF Writes, ps_current_scope
  <2> HIDE DEF w
  <2>3. CASE e.doc_open
    <3> DEFINE l == ps_leave_scope(w, "DOCUMENT")
    <3>1. /\ Kept(w, l)
          /\ l.scopes = Popped(w.scopes)
          /\ SameProlog(w, l) /\ SamePage(w, l)
      BY <2>2, LeaveFrame DEF Scope
    <3>2. l.headerwritten = w.headerwritten
      BY <2>2 DEF ps_leave_scope, Good, PSDoc
    <3>3. t = l
      BY <2>3 DEF w
    <3> HIDE DEF l, t
    <3>4. /\ t \in PSDoc /\ t.scopes = Popped(e.scopes)
          /\ SameProlog(e, t) /\ SamePage(e, t)
          /\ t.headerwritten = e.headerwritten
          /\ t.life = e.life \/ (t.life = "crashed" /\ ~HasSink(e))
      BY <2>1, <3>1, <3>2, <3>3 DEF Writes, Kept, HasSink
    <3>5. c \in PSDoc /\ c.scopes = t.scopes /\ c.life = t.life
          /\ SameProlog(t, c) /\ SamePage(t, c) /\ c.headerwritten = t.headerwritten
      BY <3>4 DEF PSDoc
    <3> HIDE DEF c
    <3>6. f \in PSDoc /\ f.scopes = c.scopes /\ f.life = c.life /\ ~f.doc_open
          /\ SameProlog(c, f) /\ SamePage(c, f) /\ f.headerwritten = c.headerwritten
      BY <3>5 DEF PSDoc
    <3> HIDE DEF f
    <3> QED
      BY <1>4, <2>3, <3>4, <3>5, <3>6 DEF Finished
  <2>4. CASE ~e.doc_open
    <3>1. t = e
      BY <2>4
    <3> HIDE DEF t
    <3>5. c \in PSDoc /\ c.scopes = e.scopes /\ c.life = e.life
          /\ SameProlog(e, c) /\ SamePage(e, c) /\ c.headerwritten = e.headerwritten
      BY <1>3, <3>1 DEF PSDoc
    <3> HIDE DEF c
    <3>6. f \in PSDoc /\ f.scopes = c.scopes /\ f.life = c.life /\ ~f.doc_open
          /\ SameProlog(c, f) /\ SamePage(c, f) /\ f.headerwritten = c.headerwritten
      BY <3>5 DEF PSDoc
    <3> HIDE DEF f
    <3> QED
      BY <1>4, <2>4, <3>5, <3>6 DEF Finished
  <2> QED
    BY <2>3, <2>4
<1> HIDE DEF f
<1> QED
  BY <1>1, <1>2, <1>4 DEF ps_check_scope

Freed(d) == [d EXCEPT !.life = "freed"]

LEMMA Deletes ==
  ASSUME NEW d
  PROVE  \E c \in {d, PS_close(d)} :
           PS_delete(d) = IF c.life = "crashed" THEN c ELSE Freed(c)
  BY DEF PS_delete, Freed

LEMMA OpenedIsGood ==
  ASSUME NEW d, Good(d), NEW e, Opened(d, e)
  PROVE  Good(e)
<1>1. ps_current_scope(d) \in Below("DOCUMENT") /\ "DOCUMENT" \in Scope
  BY Current DEF Below, Scope
<1> QED
  BY <1>1, PushedIsGood DEF Opened, Good

LEMMA FinishedIsGood ==
  ASSUME NEW d, Good(d), NEW e, Finished(d, e)
  PROVE  Good(e)
<1>1. CASE d.doc_open
  <2>1. e.headerwritten => e.beginprologwritten /\ e.endprologwritten
    BY DEF Finished, Good
  <2> QED
    BY <1>1, <2>1, PoppedIsGood DEF Finished
<1>2. CASE ~d.doc_open
  BY <1>2 DEF Finished, Good
<1> QED
  BY <1>1, <1>2

\* A PSDoc is as good with another life.
LEMMA LifeIsGood ==
  ASSUME NEW d, Good(d), NEW l \in {"live", "crashed", "freed"}
  PROVE  Good([d EXCEPT !.life = l])
<1>1. /\ [d EXCEPT !.life = l] \in PSDoc
      /\ [d EXCEPT !.life = l].scopes = d.scopes
      /\ [d EXCEPT !.life = l].beginprologwritten = d.beginprologwritten
      /\ [d EXCEPT !.life = l].endprologwritten = d.endprologwritten
      /\ [d EXCEPT !.life = l].headerwritten = d.headerwritten
  BY DEF Good, PSDoc
<1> QED
  BY <1>1 DEF Good

\* The inductive invariant.
IInv == Good(psdoc) /\ Counted

LEMMA Starts ==
  /\ Good(PS_new2)
  /\ PS_new2.scopes = <<"OBJECT">>
  /\ PS_new2.writeproc = "null" /\ ~PS_new2.doc_open /\ PS_new2.life = "live"
<1> DEFINE d == PS_new2
<1>1. d \in PSDoc
  BY MaxGStateAssumption DEF PS_new2, PSDoc, Scope, Construct
<1>2. /\ d.scopes = <<"OBJECT">> /\ d.writeproc = "null" /\ ~d.doc_open /\ d.life = "live"
      /\ ~d.beginprologwritten /\ ~d.headerwritten
  BY DEF PS_new2
<1> HIDE DEF d
<1>3. Len(d.scopes) = 1 /\ d.scopes[1] = "OBJECT"
  BY <1>2
<1>4. Good(d)
  BY <1>1, <1>2, <1>3, MaxScopesAssumption DEF Good, Nested
<1> QED
  BY <1>2, <1>4 DEF d

LEMMA GoodCall ==
  ASSUME Good(psdoc), [Next]_vars
  PROVE  Good(psdoc')
<1> USE DEF GoodDocs
<1>1. ASSUME NEW d, Returns(d), Good(d)
      PROVE  Good(psdoc')
  BY <1>1, LifeIsGood DEF Returns
<1>2. psdoc \in GoodDocs
  BY DEF Good
<1>3. CASE OpenDocument
  <2>1. PICK d : Returns(d) /\ Opened(psdoc, d)
    BY <1>3, Opens DEF OpenDocument, Good
  <2> QED
    BY <1>1, <2>1, OpenedIsGood
<1>4. Good(PS_close(psdoc))
  <2>1. PICK e \in GoodDocs : PS_close(psdoc) = e \/ Finished(e, PS_close(psdoc))
    BY <1>2, Closes, GoodIsStable
  <2> QED
    BY <2>1, FinishedIsGood
<1>5. CASE CloseDocument
  BY <1>1, <1>4, <1>5 DEF CloseDocument
<1>6. CASE DeleteDocument
  <2>1. PICK c \in {psdoc, PS_close(psdoc)} :
          PS_delete(psdoc) = IF c.life = "crashed" THEN c ELSE Freed(c)
    BY Deletes
  <2>2. Good(c) /\ Good(Freed(c))
    BY <1>4, LifeIsGood DEF Freed
  <2> QED
    BY <1>1, <1>6, <2>1, <2>2 DEF DeleteDocument
<1>7. CASE Call
  BY <1>1, <1>2, <1>7, Calls, GoodIsStable
<1>8. CASE UNCHANGED vars
  BY <1>8 DEF vars
<1> QED
  BY <1>3, <1>5, <1>6, <1>7, <1>8 DEF Next, Call

\* The inductive invariant holds of every document, at all times.
THEOREM Invariance == Spec => []IInv
<1>1. Init => IInv
  BY Starts, BoundsAssumption, MaxGStateAssumption DEF Init, IInv, Counted, MaxPending
<1>2. IInv /\ [Next]_vars => IInv'
  BY GoodCall, CountedStep DEF IInv
<1> QED
  BY <1>1, <1>2, PTL DEF Spec

\* Type correctness: scopes is never empty and never longer than MAX_SCOPES,
\* agstate is an index of agstates, whatever calls are made in whatever order.
THEOREM TypeCorrect == Spec => []TypeOK
<1>1. IInv => TypeOK
  BY DEF IInv, Good, Counted, TypeOK
<1> QED
  BY <1>1, Invariance, PTL

\* Every scope on the stack lies directly below one it may lie below, whatever
\* calls are made in whatever order, and wherever the stack overflows.
THEOREM ScopesNest == Spec => []ScopeNesting
<1>1. IInv => ScopeNesting
  BY DEF IInv, Good, Nested, ScopeNesting
<1> QED
  BY <1>1, Invariance, PTL

----------------------------------------------------------------------------
(* The depth of the stack.                                                 *)

\* How many scopes may come to lie above s, other than documents and the prolog.
Slack(s) ==
  CASE s \in {"OBJECT", "PATH"} -> 0
    [] s \in {"GLYPH", "PAGE", "TEMPLATE", "PATTERN"} -> 1
    [] s = "FONT" -> 2
    [] s \in {"DOCUMENT", "PROLOG"} -> 3

Depth(d, n) == 1 + 4 * n + (IF d.beginprologwritten THEN 1 ELSE 0)

\* Every scope lies low enough for the ones that may come above it; and before
\* the first opening nothing is on the stack, nor does anything get there.
Deep(d, n) ==
  d.life # "crashed" =>
    /\ \A i \in 1..Len(d.scopes) : i + Slack(d.scopes[i]) <= Depth(d, n)
    /\ n = 0 => d.writeproc = "null" /\ Len(d.scopes) = 1

DeepDocs(n) == {d \in GoodDocs : Deep(d, n)}

\* A scope has room for what may lie above it.
LEMMA SlackBelow ==
  /\ \A s \in Scope : Slack(s) \in Nat
  /\ \A s \in Inner : \A t \in Below(s) : Slack(s) + 1 <= Slack(t)
<1>1. ASSUME NEW s \in Scope
      PROVE  Slack(s) \in Nat
  BY DEF Scope, Slack
<1>2. ASSUME NEW s \in Inner, NEW t \in Below(s)
      PROVE  Slack(s) + 1 <= Slack(t)
  <2>1. CASE s = "PAGE"
    BY <2>1 DEF Below, Slack
  <2>2. CASE s \in {"TEMPLATE", "PATTERN", "FONT"}
    BY <2>2 DEF Below, Slack
  <2>3. CASE s = "GLYPH"
    BY <2>3 DEF Below, Slack
  <2>4. CASE s = "PATH"
    BY <2>4 DEF Below, Slack, DrawingScope
  <2> QED
    BY <2>1, <2>2, <2>3, <2>4 DEF Inner, Scope
<1> QED
  BY <1>1, <1>2

\* Only the bottom of the stack is the object.
LEMMA ObjectIsBottom ==
  ASSUME NEW d, Good(d), ps_current_scope(d) = "OBJECT"
  PROVE  Len(d.scopes) = 1
<1>1. PICK k \in Nat : k = Len(d.scopes)
  BY DEF Good, PSDoc
<1>2. k >= 1 /\ d.scopes[k] = "OBJECT"
  BY <1>1 DEF Good, ps_current_scope
<1>3. Below("OBJECT") = {}
  BY DEF Below
<1>4. \A i \in 2..Len(d.scopes) : d.scopes[i - 1] \in Below(d.scopes[i])
  BY DEF Good, Nested
<1>5. ~(k >= 2)
  <2> SUFFICES ASSUME k >= 2
               PROVE  FALSE
    OBVIOUS
  <2>1. k \in 2..Len(d.scopes)
    BY <1>1
  <2>2. d.scopes[k] # "OBJECT"
    BY <1>3, <1>4, <2>1
  <2> QED
    BY <1>2, <2>2
<1>6. k = 1
  BY <1>2, <1>5
<1> QED
  BY <1>1, <1>6

\* Pushing onto a stack that is deep enough.
LEMMA PushedIsDeep ==
  ASSUME NEW d, Good(d), NEW s \in Scope, NEW n \in Nat, NEW e \in PSDoc,
         e.scopes = Pushed(d.scopes, s),
         \A i \in 1..Len(d.scopes) : i + Slack(d.scopes[i]) <= Depth(e, n),
         Len(d.scopes) + 1 + Slack(s) <= Depth(e, n)
  PROVE  \A i \in 1..Len(e.scopes) : i + Slack(e.scopes[i]) <= Depth(e, n)
<1>1. CASE Len(d.scopes) = MaxScopes
  BY <1>1 DEF Pushed
<1>2. CASE Len(d.scopes) # MaxScopes
  <2>1. /\ Len(e.scopes) = Len(d.scopes) + 1
        /\ \A i \in 1..Len(d.scopes) : e.scopes[i] = d.scopes[i]
        /\ e.scopes[Len(d.scopes) + 1] = s
    BY <1>2, PushedIs
  <2>0. Len(d.scopes) \in Nat
    BY DEF Good, PSDoc
  <2> SUFFICES ASSUME NEW i \in 1..Len(e.scopes)
               PROVE  i + Slack(e.scopes[i]) <= Depth(e, n)
    OBVIOUS
  <2>2. CASE i = Len(d.scopes) + 1
    BY <2>0, <2>1, <2>2
  <2>3. CASE i # Len(d.scopes) + 1
    <3>1. i \in 1..Len(d.scopes)
      BY <2>0, <2>1, <2>3
    <3> QED
      BY <2>1, <3>1
  <2> QED
    BY <2>2, <2>3
<1> QED
  BY <1>1, <1>2

\* No step leads out of the documents that are deep enough.
LEMMA DeepIsStable ==
  ASSUME NEW n \in Nat
  PROVE  Stable(DeepDocs(n))
<1> SUFFICES ASSUME NEW d, Good(d), Deep(d, n), NEW e \in PSDoc, Step(d, e)
             PROVE  Deep(e, n)
  BY StepIsGood DEF Stable, DeepDocs, GoodDocs
<1> DEFINE k == Len(d.scopes)
           top == ps_current_scope(d)
<1>m. Moves(d, e) /\ Kept(d, e)
  BY StepMoves
<1>0. CASE d.life = "crashed"
  BY <1>0, <1>m DEF Kept, Deep
<1> SUFFICES ASSUME d.life # "crashed", e.life # "crashed"
             PROVE  Deep(e, n)
  BY <1>0 DEF Deep
<1>1. /\ k \in Nat /\ k >= 1 /\ top \in Scope /\ top = d.scopes[k]
      /\ \A i \in 1..k : d.scopes[i] \in Scope /\ i + Slack(d.scopes[i]) <= Depth(d, n)
  BY DEF Good, PSDoc, ps_current_scope, Deep
<1>2. k + Slack(top) <= Depth(d, n)
  BY <1>1
<1>3. Slack(top) \in Nat /\ \A i \in 1..k : Slack(d.scopes[i]) \in Nat
  BY <1>1, SlackBelow
<1>4. e.writeproc = d.writeproc
  BY <1>m DEF Kept
<1>5. n = 0 => top = "OBJECT" /\ ~HasSink(d)
  BY <1>1 DEF Deep, Good, HasSink
<1>6. CASE Stays(d, e)
  <2>1. Depth(e, n) = Depth(d, n) /\ e.scopes = d.scopes
    BY <1>6 DEF Stays, Depth
  <2> QED
    BY <1>4, <2>1 DEF Deep
<1>7. CASE EntersInner(d, e)
  <2>1. PICK s \in Inner : top \in Below(s) /\ e.scopes = Pushed(d.scopes, s)
    BY <1>7 DEF EntersInner
  <2>2. s \in Scope /\ Slack(s) + 1 <= Slack(top) /\ Slack(s) \in Nat
    BY <2>1, SlackBelow DEF Inner
  <2>3. Depth(e, n) = Depth(d, n) /\ Depth(d, n) \in Nat
    BY <1>7 DEF EntersInner, Depth
  <2>4. k + 1 + Slack(s) <= Depth(e, n)
    <3> HIDE DEF k, top
    <3> QED
      BY <1>1, <1>2, <1>3, <2>2, <2>3
  <2>5. \A i \in 1..Len(e.scopes) : i + Slack(e.scopes[i]) <= Depth(e, n)
    BY <1>1, <2>1, <2>2, <2>3, <2>4, PushedIsDeep
  <2>6. top # "OBJECT"
    BY <2>1 DEF Below, Inner, Scope, DrawingScope
  <2> QED
    BY <1>4, <1>5, <2>5, <2>6 DEF Deep
<1>8. CASE BeginsProlog(d, e)
  <2>1. Depth(e, n) = Depth(d, n) + 1 /\ Depth(d, n) \in Nat /\ Depth(d, n) >= 1 + 4 * n
    BY <1>8 DEF BeginsProlog, Depth
  <2>2. e.scopes = Pushed(d.scopes, "PROLOG") /\ "PROLOG" \in Scope /\ Slack("PROLOG") = 3
    BY <1>8 DEF BeginsProlog, Scope, Slack
  <2>3. n # 0
    BY <1>5, <1>8 DEF BeginsProlog
  <2> QED
    <3>1. k + 1 + 3 <= Depth(e, n)
      <4>1. CASE top = "DOCUMENT"
        <5>1. Slack(top) = 3
          BY <4>1 DEF Slack
        <5> HIDE DEF k, top
        <5> QED
          BY <1>1, <1>2, <2>1, <5>1
      <4>2. CASE top = "OBJECT"
        <5>1. k = 1
          BY <4>2, ObjectIsBottom
        <5> QED
          BY <2>1, <2>3, <5>1
      <4> QED
        BY <4>1, <4>2, <1>8, Current DEF BeginsProlog
    <3>2. ASSUME NEW i \in 1..k
          PROVE  i + Slack(d.scopes[i]) <= Depth(e, n)
      <4>1. PICK m \in Nat : m = Slack(d.scopes[i])
        BY <1>3
      <4>2. i + m <= Depth(d, n) /\ i \in Nat
        BY <1>1, <4>1
      <4> QED
        BY <2>1, <4>1, <4>2
    <3>3. \A i \in 1..Len(e.scopes) : i + Slack(e.scopes[i]) <= Depth(e, n)
      BY <2>2, <3>1, <3>2, PushedIsDeep
    <3> QED
      BY <2>3, <3>3 DEF Deep
<1>9. CASE Pops(d, e)
  <2>1. Depth(e, n) = Depth(d, n)
    BY <1>9 DEF Pops, Depth
  <2>2. top # "OBJECT"
    BY <1>9 DEF Pops, Inner
  <2>3. /\ Len(e.scopes) = k - 1
        /\ \A i \in 1..(k - 1) : e.scopes[i] = d.scopes[i]
    BY <1>9, <2>2, PoppedIs DEF Pops
  <2>4. \A i \in 1..Len(e.scopes) : i + Slack(e.scopes[i]) <= Depth(e, n)
    BY <1>1, <2>1, <2>3
  <2> QED
    BY <1>4, <1>5, <2>2, <2>4 DEF Deep
<1> QED
  BY <1>m, <1>6, <1>7, <1>8, <1>9 DEF Moves

LEMMA DepthBounds ==
  ASSUME NEW n \in Nat, NEW d, Good(d), Deep(d, n), d.life # "crashed"
  PROVE  Len(d.scopes) <= 2 + 4 * n
<1>1. PICK k \in Nat : k = Len(d.scopes) /\ k >= 1
  BY DEF Good, PSDoc
<1>2. d.scopes[k] \in Scope /\ k + Slack(d.scopes[k]) <= Depth(d, n)
  BY <1>1 DEF Good, PSDoc, Deep
<1>3. Slack(d.scopes[k]) \in Nat
  BY <1>2, SlackBelow
<1>4. Depth(d, n) <= 2 + 4 * n /\ Depth(d, n) \in Nat
  BY DEF Depth
<1> QED
  BY <1>1, <1>2, <1>3, <1>4

\* Opening makes room for the four scopes it may bring.
LEMMA OpenedIsDeep ==
  ASSUME NEW n \in Nat, NEW d, Good(d), Deep(d, n), NEW e, Opened(d, e)
  PROVE  Deep(e, n + 1)
<1> SUFFICES ASSUME d.life # "crashed"
             PROVE  \A i \in 1..Len(e.scopes) : i + Slack(e.scopes[i]) <= Depth(e, n + 1)
  BY DEF Deep, Opened
<1>1. PICK k \in Nat : k = Len(d.scopes) /\ k >= 1
  BY DEF Good, PSDoc
<1>2. \A i \in 1..k : d.scopes[i] \in Scope /\ Slack(d.scopes[i]) \in Nat
  BY <1>1, SlackBelow DEF Good, PSDoc
<1>3. \A i \in 1..k : i + Slack(d.scopes[i]) <= Depth(d, n)
  BY <1>1 DEF Deep
<1>4. Depth(e, n + 1) = Depth(d, n) + 4 /\ Depth(d, n) \in Nat
  BY DEF Depth, Opened
<1>5. \A i \in 1..k : i + Slack(d.scopes[i]) <= Depth(e, n + 1)
  BY <1>2, <1>3, <1>4
<1>6. k <= Depth(d, n)
  <2>1. PICK m \in Nat : m = Slack(d.scopes[k])
    BY <1>1, <1>2
  <2>2. k + m <= Depth(d, n)
    BY <1>1, <1>3, <2>1
  <2> QED
    BY <1>4, <2>1, <2>2
<1>7. "DOCUMENT" \in Scope /\ Slack("DOCUMENT") = 3
  BY DEF Scope, Slack
<1>8. k + 1 + Slack("DOCUMENT") <= Depth(e, n + 1)
  BY <1>4, <1>6, <1>7
<1> QED
  BY <1>1, <1>5, <1>7, <1>8, PushedIsDeep DEF Opened

LEMMA FinishedIsDeep ==
  ASSUME NEW n \in Nat, NEW d, Good(d), Deep(d, n), NEW e, Finished(d, e)
  PROVE  Deep(e, n)
<1>0. CASE e.life = "crashed"
  BY <1>0 DEF Deep
<1>1. CASE e.life # "crashed"
  <2>1. d.life # "crashed" /\ Depth(e, n) = Depth(d, n)
    BY <1>1 DEF Finished, Depth
  <2>2. n # 0
    BY <2>1 DEF Deep, Finished, Good, ps_current_scope
  <2>3. \A i \in 1..Len(e.scopes) : i + Slack(e.scopes[i]) <= Depth(e, n)
    <3>1. CASE d.doc_open
      <4>1. /\ Len(e.scopes) = Len(d.scopes) - 1
            /\ \A i \in 1..(Len(d.scopes) - 1) : e.scopes[i] = d.scopes[i]
        BY <3>1, PoppedIs DEF Finished
      <4>2. Len(d.scopes) \in Nat
        BY DEF Good, PSDoc
      <4> QED
        BY <2>1, <4>1, <4>2 DEF Deep
    <3>2. CASE ~d.doc_open
      BY <2>1, <3>2 DEF Deep, Finished
    <3> QED
      BY <3>1, <3>2
  <2> QED
    BY <2>2, <2>3 DEF Deep
<1> QED
  BY <1>0, <1>1

DepthInv == IInv /\ StackDepth /\ Deep(psdoc, opens)

LEMMA DepthReturned ==
  ASSUME DepthInv, NEW d, Good(d), opens' \in {opens, opens + 1}, Deep(d, opens'), Returns(d)
  PROVE  StackDepth' /\ Deep(psdoc', opens')
<1>1. opens \in Nat /\ opens' \in Nat /\ opens <= opens'
  BY BoundsAssumption DEF DepthInv, IInv, Counted
<1>2. CASE d.life = "crashed"
  <2>1. psdoc'.life = "crashed" /\ psdoc'.scopes = psdoc.scopes
    BY <1>2 DEF Returns, DepthInv, IInv, Good, PSDoc
  <2>2. Len(psdoc.scopes) \in Nat
    BY DEF DepthInv, IInv, Good, PSDoc
  <2>3. Len(psdoc.scopes) <= 2 + 4 * opens'
    BY <1>1, <2>2 DEF DepthInv, StackDepth
  <2> QED
    BY <2>1, <2>3 DEF StackDepth, Deep
<1>3. CASE d.life # "crashed"
  BY <1>1, <1>3, DepthBounds DEF Returns, StackDepth
<1> QED
  BY <1>2, <1>3

LEMMA DepthCall ==
  ASSUME DepthInv, [Next]_vars
  PROVE  StackDepth' /\ Deep(psdoc', opens')
<1>1. /\ Good(psdoc) /\ Deep(psdoc, opens) /\ psdoc \in DeepDocs(opens)
      /\ opens \in Nat
      /\ opens' = IF OpenDocument THEN opens + 1 ELSE opens
  BY CountedStep, BoundsAssumption DEF DepthInv, IInv, Counted, DeepDocs, GoodDocs, Good
<1>2. \A d \in DeepDocs(opens) : Good(d) /\ Deep(d, opens)
  BY DEF DeepDocs, GoodDocs
<1>3. CASE OpenDocument
  <2>1. PICK d : Returns(d) /\ Opened(psdoc, d)
    BY <1>3, Opens DEF OpenDocument, DepthInv, IInv, Good
  <2>2. opens' = opens + 1 /\ Good(d) /\ Deep(d, opens + 1)
    BY <1>1, <1>3, <2>1, OpenedIsGood, OpenedIsDeep
  <2> QED
    BY <2>1, <2>2, DepthReturned
<1>4. Good(PS_close(psdoc)) /\ Deep(PS_close(psdoc), opens)
  <2>1. PICK e \in DeepDocs(opens) : PS_close(psdoc) = e \/ Finished(e, PS_close(psdoc))
    BY <1>1, Closes, DeepIsStable
  <2> QED
    BY <1>1, <1>2, <2>1, FinishedIsGood, FinishedIsDeep
<1>5. CASE CloseDocument /\ ~OpenDocument
  BY <1>1, <1>4, <1>5, DepthReturned DEF CloseDocument
<1>6. CASE DeleteDocument /\ ~OpenDocument
  <2>1. PICK c \in {psdoc, PS_close(psdoc)} :
          PS_delete(psdoc) = IF c.life = "crashed" THEN c ELSE Freed(c)
    BY Deletes
  <2>2. Good(c) /\ Deep(c, opens)
    BY <1>1, <1>4
  <2>3. Good(Freed(c))
    BY <2>2, LifeIsGood DEF Freed
  <2>4. Freed(c).scopes = c.scopes /\ Freed(c).writeproc = c.writeproc
        /\ Freed(c).beginprologwritten = c.beginprologwritten
    BY <2>2 DEF Freed, Good, PSDoc
  <2>5. c.life # "crashed" => Deep(Freed(c), opens)
    BY <2>2, <2>4 DEF Deep, Depth
  <2> QED
    BY <1>1, <1>6, <2>1, <2>2, <2>3, <2>5, DepthReturned DEF DeleteDocument
<1>7. CASE Call /\ ~OpenDocument
  BY <1>1, <1>2, <1>7, Calls, DeepIsStable, DepthReturned
<1>8. CASE UNCHANGED vars
  BY <1>8 DEF vars, DepthInv, StackDepth
<1> QED
  BY <1>3, <1>5, <1>6, <1>7, <1>8 DEF Next, Call

\* The stack is never deeper than the openings allow, and every scope on it
\* leaves room for the ones that may come above it.
THEOREM StackIsDeepEnough == Spec => [](StackDepth /\ Deep(psdoc, opens))
<1>1. Init => StackDepth /\ Deep(psdoc, opens)
  <2> SUFFICES ASSUME Init
               PROVE  StackDepth /\ Deep(psdoc, opens)
    OBVIOUS
  <2>1. opens = 0 /\ psdoc.scopes = <<"OBJECT">> /\ psdoc.writeproc = "null"
    BY Starts DEF Init
  <2>2. Len(psdoc.scopes) = 1 /\ psdoc.scopes[1] = "OBJECT" /\ Slack("OBJECT") = 0
    BY <2>1 DEF Slack
  <2>3. Depth(psdoc, 0) >= 1
    BY DEF Depth
  <2> QED
    BY <2>1, <2>2, <2>3 DEF StackDepth, Deep
<1>2. IInv /\ (StackDepth /\ Deep(psdoc, opens)) /\ [Next]_vars
      => (StackDepth /\ Deep(psdoc, opens))'
  BY DepthCall DEF DepthInv
<1> QED
  BY <1>1, <1>2, Invariance, PTL DEF Spec

\* The error of a full stack that no caller of ps_enter_scope looks at does
\* not happen in a PSDoc that is opened once, as every program does, whatever
\* calls are made in whatever order: six levels are all it takes.
THEOREM StackStaysShallow == Spec => []StackDepth
  BY StackIsDeepEnough, PTL

----------------------------------------------------------------------------
(* A document that is open is writable.                                    *)

\* An open document lies directly above the object and has no other one above
\* it: so PS_close, which takes away the output, takes away all scopes.
Writable(d) ==
  /\ d.doc_open /\ HasSink(d) /\ d.life # "crashed"
  /\ Len(d.scopes) >= 2
  /\ d.scopes[2] = "DOCUMENT"
  /\ \A i \in 3..Len(d.scopes) : d.scopes[i] # "DOCUMENT"

WritableDocs == {d \in GoodDocs : Writable(d)}

Idle(d) == d.scopes = <<"OBJECT">> /\ ~d.doc_open /\ d.life # "crashed"

LEMMA WritableIsStable == Stable(WritableDocs)
<1> SUFFICES ASSUME NEW d, Good(d), Writable(d), NEW e \in PSDoc, Step(d, e)
             PROVE  Writable(e)
  BY StepIsGood DEF Stable, WritableDocs, GoodDocs
<1>1. PICK k \in Nat : k = Len(d.scopes) /\ k >= 2
  BY DEF Good, PSDoc, Writable
<1>k. k >= 2
  BY <1>1
<1>2. e.doc_open /\ HasSink(e) /\ e.life # "crashed"
  BY StepMoves DEF Kept, Writable, HasSink
<1>3. CASE Stays(d, e)
  BY <1>2, <1>3 DEF Stays, Writable
<1>4. CASE EntersInner(d, e) \/ BeginsProlog(d, e)
  <2>1. PICK s \in Scope \ {"DOCUMENT"} : e.scopes = Pushed(d.scopes, s)
    BY <1>4 DEF EntersInner, BeginsProlog, Inner, Scope
  <2>2. CASE Len(d.scopes) = MaxScopes
    BY <1>2, <2>1, <2>2 DEF Pushed, Writable
  <2>3. CASE Len(d.scopes) # MaxScopes
    <3>1. /\ Len(e.scopes) = k + 1
          /\ \A i \in 1..k : e.scopes[i] = d.scopes[i]
          /\ e.scopes[k + 1] = s
      BY <1>1, <2>1, <2>3, PushedIs
    <3>2. e.scopes[2] = "DOCUMENT" /\ Len(e.scopes) >= 2
      BY <1>1, <3>1 DEF Writable
    <3>3. ASSUME NEW i \in 3..Len(e.scopes)
          PROVE  e.scopes[i] # "DOCUMENT"
      <4>1. CASE i = k + 1
        BY <2>1, <3>1, <4>1
      <4>2. CASE i # k + 1
        <5>1. i \in 1..k /\ i \in 3..Len(d.scopes)
          BY <1>1, <3>1, <4>2
        <5> QED
          BY <3>1, <5>1 DEF Writable
      <4> QED
        BY <4>1, <4>2
    <3> QED
      BY <1>2, <3>2, <3>3 DEF Writable
  <2> QED
    BY <2>2, <2>3
<1>5. CASE Pops(d, e)
  <2>1. ps_current_scope(d) # "OBJECT" /\ ps_current_scope(d) # "DOCUMENT"
    BY <1>5 DEF Pops, Inner
  <2>2. /\ Len(e.scopes) = k - 1
        /\ \A i \in 1..(k - 1) : e.scopes[i] = d.scopes[i]
    BY <1>1, <1>5, <2>1, PoppedIs DEF Pops
  <2>3. k # 2
    BY <1>1, <2>1 DEF Writable, ps_current_scope
  <2>4. Len(e.scopes) >= 2 /\ e.scopes[2] = "DOCUMENT"
    <3>1. 2 \in 1..(k - 1) /\ k - 1 >= 2
      BY <1>k, <2>3
    <3>2. e.scopes[2] = d.scopes[2]
      BY <2>2, <3>1
    <3> QED
      BY <2>2, <3>1, <3>2 DEF Writable
  <2>5. \A i \in 3..Len(e.scopes) : e.scopes[i] # "DOCUMENT"
    BY <1>1, <2>2 DEF Writable
  <2> QED
    BY <1>2, <2>4, <2>5 DEF Writable
<1> QED
  BY <1>3, <1>4, <1>5, StepMoves DEF Moves

LEMMA OpenedIsWritable ==
  ASSUME NEW d, Good(d), Idle(d), NEW e, Opened(d, e)
  PROVE  Writable(e)
<1>1. Len(d.scopes) = 1 /\ "DOCUMENT" \in Scope
  BY DEF Idle, Scope
<1>2. Len(e.scopes) = 2 /\ e.scopes[2] = "DOCUMENT"
  <2>1. Len(d.scopes) # MaxScopes
    BY <1>1, MaxScopesAssumption
  <2>2. /\ Len(e.scopes) = Len(d.scopes) + 1
        /\ e.scopes[Len(d.scopes) + 1] = "DOCUMENT"
    <3>1. e.scopes = Pushed(d.scopes, "DOCUMENT") /\ "DOCUMENT" \in Scope
      BY <1>1 DEF Opened
    <3> QED
      BY <2>1, <3>1, PushedIs
  <2>3. Len(d.scopes) + 1 = 2
    BY <1>1
  <2> QED
    BY <2>2, <2>3
<1> QED
  BY <1>2 DEF Writable, Opened, Idle

LEMMA FinishedIsIdle ==
  ASSUME NEW d, Good(d), Writable(d), NEW e, Finished(d, e)
  PROVE  Idle(e)
<1>1. PICK k \in Nat : k = Len(d.scopes) /\ k >= 2
  BY DEF Good, PSDoc, Writable
<1>k. k >= 2
  BY <1>1
<1>2. d.scopes[k] = "DOCUMENT"
  BY <1>1 DEF Finished, ps_current_scope
<1>3. ~(k >= 3)
  <2> SUFFICES ASSUME k >= 3
               PROVE  FALSE
    OBVIOUS
  <2>1. k \in 3..Len(d.scopes)
    BY <1>1
  <2> QED
    BY <1>2, <2>1 DEF Writable
<1>4. k = 2
  BY <1>k, <1>3
<1>5. e.scopes = Popped(d.scopes) /\ ps_current_scope(d) # "OBJECT"
  BY DEF Finished, Writable
<1>6. Popped(d.scopes) \in Seq(Scope) /\ Len(Popped(d.scopes)) = 1
      /\ Popped(d.scopes)[1] = "OBJECT"
  <2>1. /\ Popped(d.scopes) \in Seq(Scope)
        /\ Len(Popped(d.scopes)) = Len(d.scopes) - 1
        /\ \A i \in 1..Len(d.scopes) - 1 : Popped(d.scopes)[i] = d.scopes[i]
    BY <1>5, PoppedIs
  <2>2. Len(d.scopes) - 1 = 1
    BY <1>1, <1>4
  <2>3. Popped(d.scopes)[1] = d.scopes[1]
    <3>1. 1 \in 1..1
      OBVIOUS
    <3>2. \A i \in 1..1 : Popped(d.scopes)[i] = d.scopes[i]
      BY <2>1, <2>2
    <3> QED
      BY <3>1, <3>2
  <2> QED
    BY <2>1, <2>2, <2>3 DEF Good
<1>7. e.scopes = <<"OBJECT">>
  BY <1>5, <1>6
<1> QED
  BY <1>7 DEF Idle, Finished, Writable

\* What can be called of an idle PSDoc besides PS_open_*, PS_close and
\* PS_delete finds it in the wrong scope.
LEMMA IdleCall ==
  ASSUME Idle(psdoc), "open_first" \in ClientRules, Call
  PROVE  Returns(psdoc)
<1>1. ps_current_scope(psdoc) = "OBJECT" /\ ~Produces
  BY DEF Idle, ps_current_scope, Produces, Keeps
<1> USE <1>1 DEF ps_check_scope, DrawingScope
<1>2. ~ps_check_scope(psdoc, DrawingScope)
  OBVIOUS
<1>3. CASE EndPage \/ EndTemplate \/ EndPattern \/ EndFont \/ EndGlyph \/ BeginGlyph
  BY <1>3 DEF EndPage, EndTemplate, EndPattern, EndFont, EndGlyph, BeginGlyph,
              PS_end_page, PS_end_template, PS_end_pattern, PS_end_font, PS_end_glyph,
              PS_begin_glyph, EndDefinition
<1>4. CASE FindFont
  BY <1>4 DEF FindFont, PS_findfont
<1>4a. CASE ShadingPattern
  BY <1>4a DEF ShadingPattern, PS_shading_pattern
<1>5. CASE ConstructPath \/ EndPath
  BY <1>5 DEF ConstructPath, EndPath, PS_moveto, PS_arc, StartPath, PathStarter, PaintPath
<1>6. CASE Save \/ Restore
  BY <1>6 DEF Save, Restore, PS_save, PS_restore
<1>7. CASE ShowText
  BY <1>2, <1>7 DEF ShowText, PS_show2
<1>8. CASE PlaceImage
  BY <1>8 DEF PlaceImage, PS_place_image
<1>9. CASE \/ BeginPage \/ BeginTemplate \/ BeginPattern \/ BeginFont
           \/ OpenImage \/ IncludeFile
  BY <1>9 DEF BeginPage, BeginTemplate, BeginPattern, BeginFont, OpenImage, IncludeFile
<1> QED
  BY <1>3, <1>4, <1>4a, <1>5, <1>6, <1>7, <1>8, <1>9 DEF Call

CrashInv ==
  /\ IInv
  /\ Writable(psdoc) \/ Idle(psdoc)
  /\ opens = 0 => Idle(psdoc)

LEMMA NoCrashCall ==
  ASSUME "open_first" \in ClientRules, MaxOpens <= 1, CrashInv, [Next]_vars
  PROVE  (Writable(psdoc) \/ Idle(psdoc))' /\ (opens = 0 => Idle(psdoc))'
<1>1. /\ Good(psdoc) /\ opens \in Nat
      /\ opens' = IF OpenDocument THEN opens + 1 ELSE opens
      /\ Writable(psdoc) => psdoc \in WritableDocs
  BY CountedStep, BoundsAssumption DEF CrashInv, IInv, Counted, WritableDocs, GoodDocs, Good
<1>2. ASSUME NEW d, Good(d), Writable(d) \/ Idle(d)
      PROVE  /\ Returns(d) => psdoc' = d
             /\ Good(Freed(d))
             /\ Writable(d) => Writable(Freed(d))
             /\ Idle(d) => Idle(Freed(d))
             /\ d.life # "crashed" /\ Freed(d).life # "crashed"
  <2>1. d.life # "crashed"
    BY <1>2 DEF Writable, Idle
  <2>2. Good(Freed(d))
    BY <1>2, LifeIsGood DEF Freed
  <2>3. /\ Freed(d).scopes = d.scopes /\ Freed(d).writeproc = d.writeproc
        /\ Freed(d).fp = d.fp /\ Freed(d).doc_open = d.doc_open /\ Freed(d).life = "freed"
    BY <1>2 DEF Freed, Good, PSDoc
  <2> QED
    BY <2>1, <2>2, <2>3 DEF Returns, Writable, Idle, HasSink
<1>3. CASE OpenDocument
  <2>1. opens = 0 /\ opens' = 1
    BY <1>1, <1>3, BoundsAssumption DEF OpenDocument
  <2>2. PICK d : Returns(d) /\ Opened(psdoc, d)
    BY <1>3, Opens DEF OpenDocument, CrashInv, IInv, Good
  <2>3. Good(d) /\ Writable(d)
    BY <1>1, <2>1, <2>2, OpenedIsGood, OpenedIsWritable DEF CrashInv
  <2> QED
    BY <1>2, <2>1, <2>2, <2>3
<1>4. /\ Good(PS_close(psdoc))
      /\ Writable(PS_close(psdoc)) \/ Idle(PS_close(psdoc))
      /\ Idle(psdoc) => PS_close(psdoc) = psdoc \/ Idle(PS_close(psdoc))
  <2>1. CASE Writable(psdoc)
    <3>1. PICK e \in WritableDocs : PS_close(psdoc) = e \/ Finished(e, PS_close(psdoc))
      BY <1>1, <2>1, Closes, WritableIsStable
    <3>2. ~Idle(psdoc)
      BY <2>1 DEF Writable, Idle
    <3> QED
      BY <3>1, <3>2, FinishedIsGood, FinishedIsIdle DEF WritableDocs, GoodDocs
  <2>2. CASE Idle(psdoc)
    <3>1. PICK e \in {psdoc, PS_end_page(psdoc)} :
            ~ps_check_scope(e, {"DOCUMENT"}) => PS_close(psdoc) = e
      BY DEF PS_close
    <3>2. ps_current_scope(psdoc) = "OBJECT"
      BY <2>2 DEF Idle, ps_current_scope
    <3>3. PS_end_page(psdoc) = psdoc
      BY <3>2 DEF PS_end_page, ps_check_scope
    <3> QED
      BY <1>1, <2>2, <3>1, <3>2, <3>3 DEF ps_check_scope
  <2> QED
    BY <2>1, <2>2 DEF CrashInv
<1>5. CASE CloseDocument /\ ~OpenDocument
  BY <1>1, <1>2, <1>4, <1>5 DEF CloseDocument, CrashInv
<1>6. CASE DeleteDocument /\ ~OpenDocument
  <2>1. PICK c \in {psdoc, PS_close(psdoc)} :
          PS_delete(psdoc) = IF c.life = "crashed" THEN c ELSE Freed(c)
    BY Deletes
  <2>2. Good(c) /\ (Writable(c) \/ Idle(c)) /\ (Idle(psdoc) => Idle(c))
    BY <1>1, <1>4 DEF CrashInv
  <2>3. /\ Returns(Freed(c))
        /\ Good(Freed(c)) /\ Freed(c).life # "crashed"
        /\ Writable(Freed(c)) \/ Idle(Freed(c))
        /\ Idle(psdoc) => Idle(Freed(c))
    BY <1>2, <1>6, <2>1, <2>2 DEF DeleteDocument
  <2>4. psdoc' = Freed(c)
    BY <2>3 DEF Returns
  <2> QED
    BY <1>1, <1>6, <2>3, <2>4 DEF CrashInv
<1>7. CASE Call /\ ~OpenDocument
  <2>1. CASE Writable(psdoc)
    <3>1. PICK d \in WritableDocs : Returns(d)
      BY <1>1, <1>7, <2>1, Calls, WritableIsStable
    <3>2. opens' # 0
      BY <1>1, <1>7, <2>1 DEF CrashInv, Writable, Idle
    <3> QED
      BY <1>2, <3>1, <3>2 DEF WritableDocs, GoodDocs
  <2>2. CASE Idle(psdoc)
    BY <1>1, <1>2, <1>7, <2>2, IdleCall
  <2> QED
    BY <2>1, <2>2 DEF CrashInv
<1>8. CASE UNCHANGED vars
  BY <1>8 DEF vars, CrashInv
<1> QED
  BY <1>3, <1>5, <1>6, <1>7, <1>8 DEF Next, Call

\* A program that opens a document once and produces output between opening
\* and closing only never makes the library write through a null pointer,
\* whatever else it calls, in whatever order.
THEOREM OpenIsWritable ==
  ASSUME "open_first" \in ClientRules, MaxOpens <= 1
  PROVE  Spec => []NoCrash
<1>1. Init => (Writable(psdoc) \/ Idle(psdoc)) /\ (opens = 0 => Idle(psdoc))
  BY Starts DEF Init, Idle
<1>2. /\ IInv
      /\ (Writable(psdoc) \/ Idle(psdoc)) /\ (opens = 0 => Idle(psdoc))
      /\ [Next]_vars
      => ((Writable(psdoc) \/ Idle(psdoc)) /\ (opens = 0 => Idle(psdoc)))'
  BY NoCrashCall DEF CrashInv
<1>3. (Writable(psdoc) \/ Idle(psdoc)) => NoCrash
  BY DEF Writable, Idle, NoCrash
<1> QED
  BY <1>1, <1>2, <1>3, Invariance, PTL DEF Spec
----------------------------------------------------------------------------
(* A document opened once: the flags agree with the stack.                 *)

Has(d, s) == \E i \in 1..Len(d.scopes) : d.scopes[i] = s

\* One document, directly above the object.
OneDocument(d) == \A i \in 1..Len(d.scopes) : d.scopes[i] = "DOCUMENT" => i = 2

\* What entering and leaving change of what is on the stack.
LEMMA PushedHas ==
  ASSUME NEW d, Good(d), NEW s \in Scope, NEW e, e.scopes = Pushed(d.scopes, s), NEW t
  PROVE  /\ t # s => (Has(e, t) <=> Has(d, t))
         /\ Len(d.scopes) # MaxScopes => Has(e, s)
<1>1. CASE Len(d.scopes) = MaxScopes
  BY <1>1 DEF Pushed, Has
<1>2. CASE Len(d.scopes) # MaxScopes
  <2>1. PICK k \in Nat : k = Len(d.scopes)
    BY DEF Good, PSDoc
  <2>2. /\ Len(e.scopes) = k + 1
        /\ \A i \in 1..k : e.scopes[i] = d.scopes[i]
        /\ e.scopes[k + 1] = s
    BY <1>2, <2>1, PushedIs
  <2>3. Has(e, s)
    BY <2>2 DEF Has
  <2>4. ASSUME t # s, Has(e, t)
        PROVE  Has(d, t)
    <3>1. PICK i \in 1..(k + 1) : e.scopes[i] = t
      BY <2>2, <2>4 DEF Has
    <3>2. i \in 1..k
      BY <2>2, <2>4, <3>1
    <3> QED
      BY <2>1, <2>2, <3>1, <3>2 DEF Has
  <2>5. ASSUME Has(d, t)
        PROVE  Has(e, t)
    <3>1. PICK i \in 1..k : d.scopes[i] = t
      BY <2>1, <2>5 DEF Has
    <3> QED
      BY <2>2, <3>1 DEF Has
  <2> QED
    BY <2>3, <2>4, <2>5
<1> QED
  BY <1>1, <1>2

LEMMA PoppedHas ==
  ASSUME NEW d, Good(d), ps_current_scope(d) # "OBJECT",
         NEW e, e.scopes = Popped(d.scopes), NEW t, t # ps_current_scope(d)
  PROVE  Has(e, t) <=> Has(d, t)
<1>1. PICK k \in Nat : k = Len(d.scopes)
  BY DEF Good, PSDoc
<1>2. /\ Len(e.scopes) = k - 1
      /\ \A i \in 1..(k - 1) : e.scopes[i] = d.scopes[i]
  BY <1>1, PoppedIs
<1>3. ASSUME Has(e, t)
      PROVE  Has(d, t)
  <2>1. PICK i \in 1..(k - 1) : e.scopes[i] = t
    BY <1>2, <1>3 DEF Has
  <2> QED
    BY <1>1, <1>2, <2>1 DEF Has
<1>4. ASSUME Has(d, t)
      PROVE  Has(e, t)
  <2>1. PICK i \in 1..k : d.scopes[i] = t
    BY <1>1, <1>4 DEF Has
  <2>2. i \in 1..(k - 1)
    BY <1>1, <2>1 DEF ps_current_scope
  <2> QED
    BY <1>2, <2>1, <2>2 DEF Has
<1> QED
  BY <1>3, <1>4

\* Where a scope can be on the stack of a PSDoc opened once.
LEMMA Places ==
  ASSUME NEW d, Good(d), OneDocument(d), NEW i \in 1..Len(d.scopes)
  PROVE  /\ d.scopes[i] = "OBJECT" => i = 1
         /\ d.scopes[i] = "DOCUMENT" => i = 2
         /\ d.scopes[i] = "PAGE" => i = 3 /\ d.scopes[2] = "DOCUMENT"
         /\ d.scopes[i] = "PROLOG" => i = 2 \/ (i = 3 /\ d.scopes[2] = "DOCUMENT")
<1>1. PICK k \in Nat : k = Len(d.scopes)
  BY DEF Good, PSDoc
<1>2. CASE i = 1
  BY <1>2 DEF Good, OneDocument
<1>3. CASE i # 1
  <2>1. i \in 2..k /\ i - 1 \in 1..k
    BY <1>1, <1>3
  <2>2. d.scopes[i - 1] \in Below(d.scopes[i])
    BY <1>1, <2>1 DEF Good, Nested
  <2>3. d.scopes[i] # "OBJECT"
    BY <2>2 DEF Below
  <2>4. d.scopes[i - 1] = "DOCUMENT" => i - 1 = 2
    BY <1>1, <2>1 DEF OneDocument
  <2>5. d.scopes[i - 1] = "OBJECT" => i - 1 = 1
    <3>1. ASSUME i - 1 # 1
          PROVE  d.scopes[i - 1] # "OBJECT"
      <4>1. i - 1 \in 2..k
        BY <2>1, <3>1
      <4>2. d.scopes[(i - 1) - 1] \in Below(d.scopes[i - 1])
        BY <1>1, <4>1 DEF Good, Nested
      <4> QED
        BY <4>2 DEF Below
    <3> QED
      BY <3>1
  <2>6. d.scopes[i] = "PAGE" => d.scopes[i - 1] = "DOCUMENT"
    BY <2>2 DEF Below
  <2>7. d.scopes[i] = "PROLOG" => d.scopes[i - 1] \in {"OBJECT", "DOCUMENT"}
    BY <2>2 DEF Below
  <2> QED
    BY <2>1, <2>3, <2>4, <2>5, <2>6, <2>7 DEF OneDocument
<1> QED
  BY <1>2, <1>3

\* The lowest two scopes leave room for one more.
LEMMA OneDocumentTop ==
  ASSUME NEW d, Good(d), OneDocument(d)
  PROVE  /\ ps_current_scope(d) = "OBJECT" => Len(d.scopes) = 1
         /\ ps_current_scope(d) = "DOCUMENT" => Len(d.scopes) = 2
<1>1. Len(d.scopes) \in 1..Len(d.scopes)
  BY DEF Good, PSDoc
<1> QED
  BY <1>1, Places DEF ps_current_scope

LEMMA OneDocumentMoves ==
  ASSUME NEW d, Good(d), OneDocument(d), NEW e, Moves(d, e)
  PROVE  OneDocument(e)
<1>1. PICK k \in Nat : k = Len(d.scopes)
  BY DEF Good, PSDoc
<1>2. CASE Stays(d, e)
  BY <1>2 DEF Stays, OneDocument
<1>3. CASE EntersInner(d, e) \/ BeginsProlog(d, e)
  <2>1. PICK s \in Scope \ {"DOCUMENT"} : e.scopes = Pushed(d.scopes, s)
    BY <1>3 DEF EntersInner, BeginsProlog, Inner, Scope
  <2>2. CASE Len(d.scopes) = MaxScopes
    BY <2>1, <2>2 DEF Pushed, OneDocument
  <2>3. CASE Len(d.scopes) # MaxScopes
    <3>1. /\ Len(e.scopes) = k + 1
          /\ \A i \in 1..k : e.scopes[i] = d.scopes[i]
          /\ e.scopes[k + 1] = s
      BY <1>1, <2>1, <2>3, PushedIs
    <3>2. ASSUME NEW i \in 1..(k + 1), e.scopes[i] = "DOCUMENT"
          PROVE  i = 2
      <4>1. i \in 1..k
        BY <2>1, <3>1, <3>2
      <4> QED
        BY <1>1, <3>1, <3>2, <4>1 DEF OneDocument
    <3> QED
      BY <3>1, <3>2 DEF OneDocument
  <2> QED
    BY <2>2, <2>3
<1>4. CASE Pops(d, e)
  <2>1. ps_current_scope(d) # "OBJECT"
    BY <1>4 DEF Pops, Inner
  <2>2. /\ Len(e.scopes) = k - 1
        /\ \A i \in 1..(k - 1) : e.scopes[i] = d.scopes[i]
    BY <1>1, <1>4, <2>1, PoppedIs DEF Pops
  <2> QED
    BY <1>1, <2>2 DEF OneDocument
<1> QED
  BY <1>2, <1>3, <1>4 DEF Moves

LEMMA OneDocumentOpened ==
  ASSUME NEW d, Good(d), Len(d.scopes) = 1, NEW e, Opened(d, e)
  PROVE  OneDocument(e)
<1>1. "DOCUMENT" \in Scope /\ Len(d.scopes) # MaxScopes
  BY MaxScopesAssumption DEF Scope
<1>2. e.scopes = Pushed(d.scopes, "DOCUMENT")
  BY DEF Opened
<1>3. /\ Len(e.scopes) = 1 + 1
      /\ \A i \in 1..1 : e.scopes[i] = d.scopes[i]
  <2> DEFINE p == Pushed(d.scopes, "DOCUMENT")
  <2>1. /\ Len(p) = Len(d.scopes) + 1
        /\ \A i \in 1..Len(d.scopes) : p[i] = d.scopes[i]
    BY <1>1, PushedIs
  <2> HIDE DEF p
  <2>2. e.scopes = p
    BY <1>2 DEF p
  <2>3. Len(d.scopes) = 1
    OBVIOUS
  <2> QED
    BY <2>1, <2>2, <2>3
<1>4. e.scopes[1] # "DOCUMENT"
  <2>1. 1 \in 1..1
    OBVIOUS
  <2> QED
    BY <1>3, <2>1 DEF Good
<1>5. \A i \in 1..(1 + 1) : i # 1 => i = 2
  OBVIOUS
<1> QED
  BY <1>3, <1>4, <1>5 DEF OneDocument

LEMMA OneDocumentFinished ==
  ASSUME NEW d, Good(d), OneDocument(d), NEW e, Finished(d, e)
  PROVE  OneDocument(e)
<1>1. CASE d.doc_open
  <2>1. PICK k \in Nat : k = Len(d.scopes)
    BY DEF Good, PSDoc
  <2>2. /\ Len(e.scopes) = k - 1
        /\ \A i \in 1..(k - 1) : e.scopes[i] = d.scopes[i]
    BY <1>1, <2>1, PoppedIs DEF Finished
  <2> QED
    BY <2>1, <2>2 DEF OneDocument
<1>2. CASE ~d.doc_open
  BY <1>2 DEF Finished, OneDocument
<1> QED
  BY <1>1, <1>2

\* A set of documents that no call leads out of, but for opening.
LEMMA StaysIn ==
  ASSUME NEW Docs, Stable(Docs),
         \A d \in Docs : \A l \in {"live", "crashed", "freed"} : [d EXCEPT !.life = l] \in Docs,
         \A d \in Docs : \A e \in PSDoc : Finished(d, e) => e \in Docs,
         psdoc \in Docs, [Next]_vars, ~OpenDocument
  PROVE  psdoc' \in Docs
<1>1. \A d \in Docs : Returns(d) => psdoc' \in Docs
  BY DEF Returns
<1>2. PS_close(psdoc) \in Docs
  <2>1. PICK e \in Docs : PS_close(psdoc) = e \/ Finished(e, PS_close(psdoc))
    BY Closes
  <2> QED
    BY <2>1 DEF Finished
<1>3. CASE CloseDocument
  BY <1>1, <1>2, <1>3 DEF CloseDocument
<1>4. CASE DeleteDocument
  <2>1. PICK c \in {psdoc, PS_close(psdoc)} :
          PS_delete(psdoc) = IF c.life = "crashed" THEN c ELSE Freed(c)
    BY Deletes
  <2>2. c \in Docs /\ Freed(c) \in Docs
    BY <1>2 DEF Freed
  <2> QED
    BY <1>1, <1>4, <2>1, <2>2 DEF DeleteDocument
<1>5. CASE Call
  BY <1>1, <1>5, Calls
<1>6. CASE UNCHANGED vars
  BY <1>6 DEF vars
<1> QED
  BY <1>3, <1>4, <1>5, <1>6 DEF Next, Call

\* A PSDoc that is not yet opened has nothing on its stack.
LEMMA FirstOpening ==
  ASSUME IInv, Deep(psdoc, opens), OpenDocument, opens' <= 1, [Next]_vars
  PROVE  /\ psdoc.life = "live" /\ Len(psdoc.scopes) = 1
         /\ \E d : Opened(psdoc, d) /\ Good(d) /\ psdoc' = d
<1>1. opens = 0
  BY BoundsAssumption DEF OpenDocument, IInv, Counted
<1>2. PICK d : Returns(d) /\ Opened(psdoc, d)
  BY Opens DEF OpenDocument, IInv, Good
<1>3. psdoc.life = "live" /\ d.life = "live" /\ psdoc' = d
  BY <1>2 DEF Returns, Opened
<1> QED
  BY <1>1, <1>2, <1>3, OpenedIsGood DEF Deep, IInv

----------------------------------------------------------------------------
(* page_open.                                                              *)

PageAgrees(d) == OneDocument(d) /\ (d.page_open <=> Has(d, "PAGE"))

PageDocs == {d \in GoodDocs : PageAgrees(d)}

LEMMA PageIsStable ==
  ASSUME MaxScopes >= 3
  PROVE  Stable(PageDocs)
<1> SUFFICES ASSUME NEW d, Good(d), PageAgrees(d), NEW e \in PSDoc, Step(d, e)
             PROVE  PageAgrees(e)
  BY StepIsGood DEF Stable, PageDocs, GoodDocs
<1>1. Good(d) /\ OneDocument(d) /\ OneDocument(e)
  BY StepMoves, OneDocumentMoves DEF PageAgrees
<1>2. CASE Writes(d, e)
  BY <1>2 DEF Writes, PageAgrees, Has, OneDocument
<1>3. CASE BeginsProlog(d, e)
  <2>1. e.scopes = Pushed(d.scopes, "PROLOG") /\ "PROLOG" \in Scope /\ SamePage(d, e)
    BY <1>3 DEF BeginsProlog, Scope
  <2>2. Has(e, "PAGE") <=> Has(d, "PAGE")
    BY <2>1, PushedHas
  <2> QED
    BY <1>1, <2>1, <2>2 DEF PageAgrees
<1>4. CASE EndsProlog(d, e)
  <2>1. Has(e, "PAGE") <=> Has(d, "PAGE")
    <3>1. CASE ps_check_scope(d, {"PROLOG"})
      BY <1>4, <3>1, PoppedHas DEF EndsProlog, ps_check_scope
    <3>2. CASE ~ps_check_scope(d, {"PROLOG"})
      BY <1>4, <3>2 DEF EndsProlog, Has
    <3> QED
      BY <3>1, <3>2
  <2> QED
    BY <1>1, <1>4, <2>1 DEF PageAgrees, EndsProlog
<1>5. CASE EntersInner(d, e)
  <2>1. PICK s \in Inner :
          /\ ps_current_scope(d) \in Below(s)
          /\ e.scopes = Pushed(d.scopes, s)
          /\ (e.page_open <=> d.page_open \/ s = "PAGE")
    BY <1>5 DEF EntersInner
  <2>2. s \in Scope
    BY DEF Inner
  <2>3. s # "PAGE" => (Has(e, "PAGE") <=> Has(d, "PAGE"))
    BY <2>1, <2>2, PushedHas
  <2>4. s = "PAGE" => Has(e, "PAGE")
    <3> SUFFICES ASSUME s = "PAGE"
                 PROVE  Has(e, "PAGE")
      OBVIOUS
    <3>1. ps_current_scope(d) = "DOCUMENT"
      BY <2>1 DEF Below
    <3>2. Len(d.scopes) = 2
      BY <1>1, <3>1, OneDocumentTop
    <3>3. Len(d.scopes) # MaxScopes
      BY <3>2, MaxScopesAssumption
    <3>4. Has(e, s)
      BY <2>1, <2>2, <3>3, PushedHas
    <3> QED
      BY <3>4
  <2> QED
    BY <1>1, <2>1, <2>3, <2>4 DEF PageAgrees
<1>6. CASE Leaves(d, e)
  <2>1. /\ e.scopes = Popped(d.scopes) /\ ps_current_scope(d) # "OBJECT"
        /\ (e.page_open <=> d.page_open /\ ps_current_scope(d) # "PAGE")
    BY <1>6 DEF Leaves, Inner
  <2>2. ps_current_scope(d) # "PAGE" => (Has(e, "PAGE") <=> Has(d, "PAGE"))
    BY <2>1, PoppedHas
  <2>3. ps_current_scope(d) = "PAGE" => ~Has(e, "PAGE")
    <3> SUFFICES ASSUME ps_current_scope(d) = "PAGE", NEW i \in 1..Len(e.scopes),
                        e.scopes[i] = "PAGE"
                 PROVE  FALSE
      BY DEF Has
    <3>1. PICK k \in Nat : k = Len(d.scopes)
      BY DEF Good, PSDoc
    <3>2. k \in 1..k /\ d.scopes[k] = "PAGE"
      BY <3>1 DEF Good, ps_current_scope
    <3>3. k = 3
      BY <1>1, <3>1, <3>2, Places
    <3>4. /\ Len(e.scopes) = k - 1
          /\ \A j \in 1..(k - 1) : e.scopes[j] = d.scopes[j]
      BY <2>1, <3>1, PoppedIs
    <3>5. i \in 1..k /\ i # 3 /\ d.scopes[i] = "PAGE"
      BY <3>3, <3>4
    <3> QED
      BY <1>1, <3>1, <3>5, Places
  <2> QED
    BY <1>1, <2>1, <2>2, <2>3 DEF PageAgrees
<1> QED
  BY <1>2, <1>3, <1>4, <1>5, <1>6 DEF Step

LEMMA PageOpened ==
  ASSUME NEW d, Good(d), PageAgrees(d), Len(d.scopes) = 1, NEW e, Opened(d, e)
  PROVE  PageAgrees(e)
<1>1. Has(e, "PAGE") <=> Has(d, "PAGE")
  BY PushedHas DEF Opened, Scope
<1> QED
  BY <1>1, OneDocumentOpened DEF PageAgrees, Opened

LEMMA PageFinished ==
  ASSUME NEW d, Good(d), PageAgrees(d), NEW e, Finished(d, e)
  PROVE  PageAgrees(e)
<1>1. Has(e, "PAGE") <=> Has(d, "PAGE")
  <2>1. CASE d.doc_open
    BY <2>1, PoppedHas DEF Finished
  <2>2. CASE ~d.doc_open
    BY <2>2 DEF Finished, Has
  <2> QED
    BY <2>1, <2>2
<1>2. OneDocument(e)
  BY OneDocumentFinished DEF PageAgrees
<1> QED
  BY <1>1, <1>2 DEF PageAgrees, Finished

LEMMA LifeKeepsStack ==
  ASSUME NEW d, Good(d), NEW l \in {"live", "crashed", "freed"}
  PROVE  LET e == [d EXCEPT !.life = l]
         IN  /\ Good(e) /\ e.scopes = d.scopes
             /\ SamePage(d, e) /\ SameProlog(d, e)
<1> DEFINE e == [d EXCEPT !.life = l]
<1>1. Good(e)
  BY LifeIsGood
<1>2. e.scopes = d.scopes /\ SamePage(d, e) /\ SameProlog(d, e)
  BY DEF Good, PSDoc
<1> QED
  BY <1>1, <1>2

\* The invariant behind PageOpenAgrees.
THEOREM PagesAgree ==
  ASSUME MaxScopes >= 3
  PROVE  Spec => [](opens <= 1 => PageAgrees(psdoc))
<1> DEFINE Agrees == opens <= 1 => PageAgrees(psdoc)
<1>1. Init => Agrees
  <2> SUFFICES ASSUME Init
               PROVE  PageAgrees(psdoc)
    OBVIOUS
  <2>1. psdoc.scopes = <<"OBJECT">> /\ ~psdoc.page_open
    BY DEF Init, PS_new2
  <2>2. Len(psdoc.scopes) = 1 /\ psdoc.scopes[1] = "OBJECT"
    BY <2>1
  <2> QED
    BY <2>1, <2>2 DEF PageAgrees, OneDocument, Has
<1>2. IInv /\ StackDepth /\ Deep(psdoc, opens) /\ Agrees /\ [Next]_vars => Agrees'
  <2> SUFFICES ASSUME IInv, Deep(psdoc, opens), Agrees, [Next]_vars, opens' <= 1
               PROVE  PageAgrees(psdoc')
    OBVIOUS
  <2>1. opens' = (IF OpenDocument THEN opens + 1 ELSE opens) /\ opens \in Nat
    BY CountedStep, BoundsAssumption DEF IInv, Counted
  <2>2. PageAgrees(psdoc) /\ psdoc \in PageDocs /\ Good(psdoc)
    BY <2>1 DEF PageDocs, GoodDocs, IInv, Good
  <2>3. CASE OpenDocument
    BY <2>2, <2>3, FirstOpening, PageOpened
  <2>4. CASE ~OpenDocument
    <3>1. ASSUME NEW d \in PageDocs, NEW l \in {"live", "crashed", "freed"}
          PROVE  [d EXCEPT !.life = l] \in PageDocs
      <4> DEFINE e == [d EXCEPT !.life = l]
      <4>1. Good(e) /\ e.scopes = d.scopes /\ SamePage(d, e)
        BY LifeKeepsStack DEF PageDocs, GoodDocs
      <4> HIDE DEF e
      <4>2. PageAgrees(e)
        BY <4>1 DEF PageDocs, PageAgrees, OneDocument, Has
      <4> QED
        BY <4>1, <4>2 DEF PageDocs, GoodDocs, Good, e
    <3>2. ASSUME NEW d \in PageDocs, NEW e \in PSDoc, Finished(d, e)
          PROVE  e \in PageDocs
      BY <3>2, FinishedIsGood, PageFinished DEF PageDocs, GoodDocs
    <3>3. psdoc' \in PageDocs
      BY <2>2, <2>4, <3>1, <3>2, PageIsStable, StaysIn
    <3> QED
      BY <3>3 DEF PageDocs
  <2> QED
    BY <2>3, <2>4
<1> QED
  BY <1>1, <1>2, Invariance, StackIsDeepEnough, PTL DEF Spec

\* PS_close, which goes by page_open, and all other calls, which go by the
\* scopes, never disagree on whether there is a page in a PSDoc that is opened
\* once, whatever calls are made in whatever order.
THEOREM PageOpenIsRight ==
  ASSUME MaxScopes >= 3
  PROVE  Spec => []PageOpenAgrees
<1>1. (opens <= 1 => PageAgrees(psdoc)) => PageOpenAgrees
  BY DEF PageOpenAgrees, PageAgrees, Has
<1> QED
  BY <1>1, PagesAgree, PTL

----------------------------------------------------------------------------
(* What PS_delete closes.                                                  *)

\* No call but PS_delete frees the PSDoc.
LEMMA OnlyDeleteFrees ==
  ASSUME IInv, Next, psdoc'.life = "freed"
  PROVE  DeleteDocument
<1> DEFINE LiveDocs == {d \in GoodDocs : d.life # "freed"}
<1>1. Stable(LiveDocs)
  BY StepIsGood, StepMoves DEF Stable, GoodDocs, Kept
<1>2. psdoc.life = "live" => psdoc \in LiveDocs
  BY DEF IInv, GoodDocs, Good
<1> HIDE DEF LiveDocs
<1>3. \A d : d.life # "freed" => ~Returns(d)
  BY DEF Returns, IInv, Good, PSDoc
<1>4. CASE OpenDocument
  <2>1. PICK d : Returns(d) /\ Opened(psdoc, d)
    BY <1>4, Opens DEF OpenDocument, IInv, Good
  <2> QED
    BY <1>3, <2>1 DEF Opened, Returns
<1>5. CASE CloseDocument
  <2>1. psdoc.life = "live"
    BY <1>5 DEF CloseDocument, Returns
  <2>2. PICK e \in LiveDocs : PS_close(psdoc) = e \/ Finished(e, PS_close(psdoc))
    BY <1>1, <1>2, <2>1, Closes
  <2>3. PS_close(psdoc).life # "freed"
    BY <2>2 DEF Finished, LiveDocs
  <2> QED
    BY <1>3, <1>5, <2>3 DEF CloseDocument
<1>6. CASE Call
  <2>1. psdoc.life = "live"
    BY <1>6 DEF Call, Returns, BeginPage, EndPage, BeginTemplate, EndTemplate, BeginPattern,
                EndPattern, BeginFont, EndFont, BeginGlyph, EndGlyph, FindFont, OpenImage,
                IncludeFile, ShadingPattern, ConstructPath, EndPath, Save, Restore,
                ShowText, PlaceImage
  <2>2. PICK d \in LiveDocs : Returns(d)
    BY <1>1, <1>2, <1>6, <2>1, Calls
  <2> QED
    BY <1>3, <2>2 DEF LiveDocs
<1> QED
  BY <1>4, <1>5, <1>6 DEF Next, Call

\* A page with nothing saved on it is ended, whatever lies below it is left.
LEMMA PageLeft ==
  ASSUME NEW d, Good(d), ps_current_scope(d) = "PAGE", d.agstate = 0
  PROVE  /\ PS_end_page(d) \in PSDoc
         /\ PS_end_page(d).scopes = Popped(d.scopes)
         /\ PS_end_page(d).doc_open = d.doc_open
<1> DEFINE c == Closing(d, "page")
           e == [c EXCEPT !.page_open = FALSE]
           l == ps_leave_scope(e, "PAGE")
<1>1. Writes(d, c)
  BY Nest DEF Good, Construct
<1> HIDE DEF c
<1>2. /\ Kept(d, e) /\ SameProlog(d, e)
      /\ e.scopes = d.scopes /\ e.headerwritten = c.headerwritten
  BY <1>1 DEF Writes, Kept, PSDoc
<1> HIDE DEF e
<1>3. Good(e) /\ ps_current_scope(e) = "PAGE"
  BY <1>1, <1>2 DEF Writes, Good, Kept, ps_current_scope
<1>4. Kept(e, l) /\ l.scopes = Popped(e.scopes)
  BY <1>3, LeaveFrame DEF Scope
<1>5. PS_end_page(d) = l
  BY DEF PS_end_page, ps_check_scope, l, e, c
<1> HIDE DEF l
<1> QED
  BY <1>2, <1>4, <1>5 DEF Kept

\* From the document scope PS_close always writes the trailer and closes the
\* file that pslib opened.
LEMMA ClosesFromDocument ==
  ASSUME NEW e \in PSDoc, ps_current_scope(e) = "DOCUMENT", e.doc_open, NEW d,
         e = IF d.page_open THEN PS_end_page(d) ELSE d
  PROVE  /\ PS_close(d).phase = "trailer"
         /\ ~(PS_close(d).closefp /\ PS_close(d).fp # "null")
         /\ ~PS_close(d).doc_open /\ PS_close(d).scopes = Popped(e.scopes)
<1> DEFINE w == Trailer(e)
           t == ps_leave_scope(w, "DOCUMENT")
           c == IF t.closefp /\ t.fp # "null" THEN [t EXCEPT !.fp = "null"] ELSE t
           f == [c EXCEPT !.doc_open = FALSE]
<1>1. PS_close(d) = f
  BY DEF PS_close, ps_check_scope
<1>2. w \in PSDoc /\ w.phase = "trailer" /\ w.scopes = e.scopes
  <2> DEFINE n == IF e.nest = <<>> THEN <<>> ELSE Garbled
             p == ps_printf(e, n)
  <2>1. <<>> \in Seq(Construct) /\ Garbled \in Seq(Construct)
    BY DEF Garbled, Construct
  <2>2. n \in Seq(Construct)
    BY <2>1
  <2> HIDE DEF n
  <2>3. p \in PSDoc /\ p.scopes = e.scopes
    BY <2>2, Printf DEF Writes, Kept
  <2>4. w = [p EXCEPT !.phase = "trailer"]
    BY DEF Trailer, n
  <2> HIDE DEF p, w
  <2> QED
    BY <2>3, <2>4 DEF PSDoc
<1>3. t = [w EXCEPT !.scopes = SubSeq(w.scopes, 1, Len(w.scopes) - 1)]
  BY <1>2 DEF ps_leave_scope, ps_current_scope
<1> HIDE DEF w
<1>4. t.phase = "trailer" /\ t = [t EXCEPT !.phase = "trailer"] /\ "fp" \in DOMAIN t
      /\ "doc_open" \in DOMAIN t /\ t.scopes = Popped(e.scopes)
  BY <1>2, <1>3 DEF PSDoc, Popped
<1> HIDE DEF t
<1>5. /\ c.phase = "trailer" /\ ~(c.closefp /\ c.fp # "null") /\ c.scopes = t.scopes
      /\ "doc_open" \in DOMAIN c
  BY <1>4
<1> HIDE DEF c
<1>6. f.phase = "trailer" /\ f.closefp = c.closefp /\ f.fp = c.fp /\ f.scopes = c.scopes
      /\ ~f.doc_open
  BY <1>5
<1> HIDE DEF f
<1> QED
  BY <1>1, <1>4, <1>5, <1>6

LEMMA DeleteCloses ==
  ASSUME MaxScopes >= 3, IInv, opens <= 1 => PageAgrees(psdoc), Next,
         psdoc'.life = "freed", psdoc.doc_open, psdoc.page_open => psdoc.agstate = 0,
         ps_current_scope(psdoc) \in {"DOCUMENT", "PAGE"}, opens <= 1
  PROVE  psdoc'.phase = "trailer" /\ ~(psdoc'.closefp /\ psdoc'.fp # "null")
<1> DEFINE c == PS_close(psdoc)
           e == IF psdoc.page_open THEN PS_end_page(psdoc) ELSE psdoc
<1>1. Good(psdoc) /\ PageAgrees(psdoc) /\ psdoc \in PSDoc
  BY DEF IInv, Good
<1>2. e \in PSDoc /\ ps_current_scope(e) = "DOCUMENT" /\ e.doc_open
  <2>1. CASE ps_current_scope(psdoc) = "DOCUMENT"
    <3>1. PS_end_page(psdoc) = psdoc
      BY <2>1 DEF PS_end_page, ps_check_scope
    <3> QED
      BY <1>1, <2>1, <3>1
  <2>2. CASE ps_current_scope(psdoc) = "PAGE"
    <3>1. PICK k \in Nat : k = Len(psdoc.scopes) /\ k \in 1..k
      BY <1>1 DEF Good, PSDoc
    <3>2. psdoc.scopes[k] = "PAGE"
      BY <2>2, <3>1 DEF ps_current_scope
    <3>3. k = 3 /\ psdoc.scopes[2] = "DOCUMENT"
      BY <1>1, <3>1, <3>2, Places DEF PageAgrees
    <3>4. psdoc.page_open /\ psdoc.agstate = 0
      BY <1>1, <3>1, <3>2 DEF PageAgrees, Has
    <3>5. /\ e \in PSDoc /\ e.scopes = Popped(psdoc.scopes)
          /\ e.doc_open = psdoc.doc_open
      BY <1>1, <2>2, <3>4, PageLeft
    <3>6. Len(e.scopes) = k - 1 /\ \A i \in 1..(k - 1) : e.scopes[i] = psdoc.scopes[i]
      BY <1>1, <2>2, <3>1, <3>5, PoppedIs
    <3>7. Len(e.scopes) = 2 /\ e.scopes[2] = "DOCUMENT"
      BY <3>3, <3>6
    <3> QED
      BY <3>5, <3>7 DEF ps_current_scope
  <2> QED
    BY <2>1, <2>2
<1>3. c.phase = "trailer" /\ ~(c.closefp /\ c.fp # "null")
  BY <1>2, ClosesFromDocument
<1> HIDE DEF e
<1>4. DeleteDocument
  BY OnlyDeleteFrees
<1>5. PS_delete(psdoc) = IF c.life = "crashed" THEN c ELSE Freed(c)
  BY DEF PS_delete, Freed
<1>6. Good(c)
  <2>1. psdoc \in GoodDocs
    BY <1>1 DEF GoodDocs
  <2>2. PICK x \in GoodDocs : c = x \/ Finished(x, c)
    BY <2>1, Closes, GoodIsStable
  <2> QED
    BY <2>2, FinishedIsGood DEF GoodDocs
<1> HIDE DEF c
<1>7. psdoc' = Freed(c)
  <2>1. c.life # "crashed"
    BY <1>1, <1>4, <1>5 DEF DeleteDocument, Returns, PSDoc
  <2>2. Freed(c).life = "freed"
    BY <1>6 DEF Freed, Good, PSDoc
  <2> QED
    BY <1>4, <1>5, <2>1, <2>2 DEF DeleteDocument, Returns
<1>8. /\ Freed(c).phase = c.phase
      /\ Freed(c).closefp = c.closefp /\ Freed(c).fp = c.fp
  BY <1>6 DEF Freed, Good, PSDoc
<1> QED
  BY <1>3, <1>7, <1>8

\* PS_delete never drops a document it could have finished: from the document
\* scope or from a page with nothing saved on it, the trailer is written and the
\* file that pslib opened is closed, in a PSDoc opened once, whatever was
\* called before.
THEOREM DeleteIsClosing ==
  ASSUME MaxScopes >= 3
  PROVE  Spec => DeleteClosesWhenItCan
<1> DEFINE P == /\ psdoc'.life = "freed"
                /\ psdoc.doc_open
                /\ psdoc.page_open => psdoc.agstate = 0
                /\ ps_current_scope(psdoc) \in {"DOCUMENT", "PAGE"}
                /\ opens <= 1
           Q == psdoc'.phase = "trailer" /\ ~(psdoc'.closefp /\ psdoc'.fp # "null")
<1>1. IInv /\ (opens <= 1 => PageAgrees(psdoc)) /\ [Next]_vars => [P => Q]_vars
  BY DeleteCloses
<1> QED
  BY <1>1, Invariance, PagesAgree, PTL DEF Spec, DeleteClosesWhenItCan

----------------------------------------------------------------------------
(* The flags of the prolog.                                                *)

PrologAgrees(d) ==
  /\ OneDocument(d)
  /\ Has(d, "PROLOG") <=> (d.beginprologwritten /\ ~d.endprologwritten)
  /\ d.endprologwritten => d.beginprologwritten

PrologDocs == {d \in GoodDocs : PrologAgrees(d)}

\* The prolog is entered once, where there is room for it, and left when it is
\* ended: the rule page_between makes it the current scope then.
LEMMA PrologIsStable ==
  ASSUME MaxScopes >= 3, "page_between" \in ClientRules
  PROVE  Stable(PrologDocs)
<1> SUFFICES ASSUME NEW d, Good(d), PrologAgrees(d), NEW e \in PSDoc, Step(d, e)
             PROVE  PrologAgrees(e)
  BY StepIsGood DEF Stable, PrologDocs, GoodDocs
<1>1. Good(d) /\ OneDocument(d) /\ OneDocument(e)
  BY StepMoves, OneDocumentMoves DEF PrologAgrees
<1>2. CASE Writes(d, e)
  BY <1>2 DEF Writes, PrologAgrees, Has, OneDocument
<1>3. CASE BeginsProlog(d, e)
  <2>1. /\ e.scopes = Pushed(d.scopes, "PROLOG") /\ "PROLOG" \in Scope
        /\ ~d.beginprologwritten /\ e.beginprologwritten
        /\ e.endprologwritten = d.endprologwritten
    BY <1>3 DEF BeginsProlog, Scope
  <2>2. ps_current_scope(d) \in {"OBJECT", "DOCUMENT"}
    BY <2>1, Current
  <2>3. Len(d.scopes) # MaxScopes
    <3>1. CASE ps_current_scope(d) = "OBJECT"
      <4>1. Len(d.scopes) = 1
        BY <1>1, <3>1, OneDocumentTop
      <4> QED
        BY <4>1, MaxScopesAssumption
    <3>2. CASE ps_current_scope(d) = "DOCUMENT"
      <4>1. Len(d.scopes) = 2
        BY <1>1, <3>2, OneDocumentTop
      <4> QED
        BY <4>1, MaxScopesAssumption
    <3> QED
      BY <2>2, <3>1, <3>2
  <2>4. Has(e, "PROLOG")
    BY <2>1, <2>3, PushedHas
  <2> QED
    BY <1>1, <2>1, <2>4 DEF PrologAgrees
<1>4. CASE EndsProlog(d, e)
  <2>1. /\ d.beginprologwritten /\ ~d.endprologwritten
        /\ e.beginprologwritten /\ e.endprologwritten
        /\ ps_current_scope(d) \in {"DOCUMENT", "PROLOG"}
        /\ ps_current_scope(d) = "PROLOG" => e.scopes = Popped(d.scopes)
    BY <1>4 DEF EndsProlog, Keeps, ps_check_scope
  <2>2. PICK k \in Nat : k = Len(d.scopes) /\ k \in 1..k
    BY DEF Good, PSDoc
  <2>3. PICK i \in 1..k : d.scopes[i] = "PROLOG"
    BY <2>1, <2>2 DEF PrologAgrees, Has
  <2>4. i = 2 \/ (i = 3 /\ d.scopes[2] = "DOCUMENT")
    BY <1>1, <2>2, <2>3, Places
  <2>5. ps_current_scope(d) = "PROLOG"
    <3> SUFFICES ASSUME ps_current_scope(d) = "DOCUMENT"
                 PROVE  FALSE
      BY <2>1
    <3>1. k = 2 /\ d.scopes[2] = "DOCUMENT"
      BY <1>1, <2>2, OneDocumentTop DEF ps_current_scope
    <3> QED
      BY <2>3, <2>4, <3>1
  <2>6. d.scopes[k] = "PROLOG" /\ (k = 2 \/ (k = 3 /\ d.scopes[2] = "DOCUMENT"))
    BY <1>1, <2>2, <2>5, Places DEF ps_current_scope
  <2>7. /\ Len(e.scopes) = k - 1
        /\ \A j \in 1..(k - 1) : e.scopes[j] = d.scopes[j]
    BY <2>1, <2>2, <2>5, PoppedIs
  <2>8. ~Has(e, "PROLOG")
    <3> SUFFICES ASSUME NEW j \in 1..(k - 1), d.scopes[j] = "PROLOG"
                 PROVE  FALSE
      BY <2>7 DEF Has
    <3>1. j = 2 \/ (j = 3 /\ d.scopes[2] = "DOCUMENT")
      BY <1>1, <2>2, Places
    <3> QED
      BY <2>6, <3>1
  <2> QED
    BY <1>1, <2>1, <2>8 DEF PrologAgrees
<1>5. CASE EntersInner(d, e)
  <2>1. PICK s \in Scope \ {"PROLOG"} : e.scopes = Pushed(d.scopes, s)
    BY <1>5 DEF EntersInner, Inner
  <2>2. Has(e, "PROLOG") <=> Has(d, "PROLOG")
    BY <2>1, PushedHas
  <2> QED
    BY <1>1, <1>5, <2>2 DEF PrologAgrees, EntersInner
<1>6. CASE Leaves(d, e)
  <2>1. /\ e.scopes = Popped(d.scopes)
        /\ ps_current_scope(d) # "OBJECT" /\ ps_current_scope(d) # "PROLOG"
    BY <1>6 DEF Leaves, Inner
  <2>2. Has(e, "PROLOG") <=> Has(d, "PROLOG")
    BY <2>1, PoppedHas
  <2> QED
    BY <1>1, <1>6, <2>2 DEF PrologAgrees, Leaves
<1> QED
  BY <1>2, <1>3, <1>4, <1>5, <1>6 DEF Step

LEMMA PrologOpened ==
  ASSUME NEW d, Good(d), PrologAgrees(d), Len(d.scopes) = 1, NEW e, Opened(d, e)
  PROVE  PrologAgrees(e)
<1>1. Has(e, "PROLOG") <=> Has(d, "PROLOG")
  BY PushedHas DEF Opened, Scope
<1> QED
  BY <1>1, OneDocumentOpened DEF PrologAgrees, Opened

LEMMA PrologFinished ==
  ASSUME NEW d, Good(d), PrologAgrees(d), NEW e, Finished(d, e)
  PROVE  PrologAgrees(e)
<1>1. Has(e, "PROLOG") <=> Has(d, "PROLOG")
  <2>1. CASE d.doc_open
    BY <2>1, PoppedHas DEF Finished
  <2>2. CASE ~d.doc_open
    BY <2>2 DEF Finished, Has
  <2> QED
    BY <2>1, <2>2
<1>2. OneDocument(e)
  BY OneDocumentFinished DEF PrologAgrees
<1> QED
  BY <1>1, <1>2 DEF PrologAgrees, Finished

\* The invariant behind PrologScopeAgrees.
THEOREM PrologsAgree ==
  ASSUME MaxScopes >= 3, "page_between" \in ClientRules, MaxOpens <= 1
  PROVE  Spec => []PrologAgrees(psdoc)
<1>1. Init => PrologAgrees(psdoc)
  <2> SUFFICES ASSUME Init
               PROVE  PrologAgrees(psdoc)
    OBVIOUS
  <2>1. /\ psdoc.scopes = <<"OBJECT">>
        /\ ~psdoc.beginprologwritten /\ ~psdoc.endprologwritten
    BY DEF Init, PS_new2
  <2>2. Len(psdoc.scopes) = 1 /\ psdoc.scopes[1] = "OBJECT"
    BY <2>1
  <2> QED
    BY <2>1, <2>2 DEF PrologAgrees, OneDocument, Has
<1>2. IInv /\ StackDepth /\ Deep(psdoc, opens) /\ PrologAgrees(psdoc) /\ [Next]_vars
      => PrologAgrees(psdoc)'
  <2> SUFFICES ASSUME IInv, Deep(psdoc, opens), PrologAgrees(psdoc), [Next]_vars
               PROVE  PrologAgrees(psdoc')
    OBVIOUS
  <2>1. psdoc \in PrologDocs /\ Good(psdoc)
    BY DEF PrologDocs, GoodDocs, IInv, Good
  <2>2. CASE OpenDocument
    <3>1. opens' <= 1
      BY <2>2, BoundsAssumption DEF OpenDocument, IInv, Counted
    <3> QED
      BY <2>1, <2>2, <3>1, FirstOpening, PrologOpened
  <2>3. CASE ~OpenDocument
    <3>1. ASSUME NEW d \in PrologDocs, NEW l \in {"live", "crashed", "freed"}
          PROVE  [d EXCEPT !.life = l] \in PrologDocs
      <4> DEFINE e == [d EXCEPT !.life = l]
      <4>1. Good(e) /\ e.scopes = d.scopes /\ SameProlog(d, e)
        BY LifeKeepsStack DEF PrologDocs, GoodDocs
      <4> HIDE DEF e
      <4>2. PrologAgrees(e)
        BY <4>1 DEF PrologDocs, PrologAgrees, OneDocument, Has
      <4> QED
        BY <4>1, <4>2 DEF PrologDocs, GoodDocs, Good, e
    <3>2. ASSUME NEW d \in PrologDocs, NEW e \in PSDoc, Finished(d, e)
          PROVE  e \in PrologDocs
      BY <3>2, FinishedIsGood, PrologFinished DEF PrologDocs, GoodDocs
    <3>3. psdoc' \in PrologDocs
      BY <2>1, <2>3, <3>1, <3>2, PrologIsStable, StaysIn
    <3> QED
      BY <3>3 DEF PrologDocs
  <2> QED
    BY <2>2, <2>3
<1> QED
  BY <1>1, <1>2, Invariance, StackIsDeepEnough, PTL DEF Spec
\* A program that opens a document once and begins no page inside another page
\* or a definition never has the scope PROLOG on the stack once the output has
\* left its prolog, nor the other way round, whatever else it calls: every
\* document can get out of its prolog.
THEOREM PrologScopeIsRight ==
  ASSUME MaxScopes >= 3, "page_between" \in ClientRules, MaxOpens <= 1
  PROVE  Spec => []PrologScopeAgrees
<1>1. PrologAgrees(psdoc) => PrologScopeAgrees
  BY DEF PrologScopeAgrees, PrologAgrees, Has
<1> QED
  BY <1>1, PrologsAgree, PTL

----------------------------------------------------------------------------
(* A document opened once can be closed from wherever it is.               *)

\* What the theorems above say of a document, and that an open one has not been
\* lost from the stack.
OnDocument(d) == d.doc_open => Has(d, "DOCUMENT")

SoundDocs == {d \in GoodDocs : PageAgrees(d) /\ PrologAgrees(d) /\ OnDocument(d)}

LEMMA SoundIsStable ==
  ASSUME MaxScopes >= 3, "page_between" \in ClientRules
  PROVE  Stable(SoundDocs)
<1>1. ASSUME NEW d \in SoundDocs
      PROVE  d \in GoodDocs /\ Good(d) /\ d \in PageDocs /\ d \in PrologDocs /\ OnDocument(d)
  BY DEF SoundDocs, GoodDocs, PageDocs, PrologDocs
<1>2. ASSUME NEW d \in SoundDocs, NEW e \in PSDoc, Step(d, e)
      PROVE  e \in SoundDocs
  <2>1. e \in PageDocs /\ e \in PrologDocs /\ Good(e) /\ e.doc_open = d.doc_open
    BY <1>1, <1>2, PageIsStable, PrologIsStable, StepIsGood, StepMoves DEF Stable, Kept
  <2>2. Has(d, "DOCUMENT") => Has(e, "DOCUMENT")
    <3>1. CASE Stays(d, e)
      BY <3>1 DEF Stays, Has
    <3>2. CASE EntersInner(d, e) \/ BeginsProlog(d, e)
      <4>1. PICK s \in Scope \ {"DOCUMENT"} : e.scopes = Pushed(d.scopes, s)
        BY <3>2 DEF EntersInner, BeginsProlog, Inner, Scope
      <4> QED
        BY <1>1, <4>1, PushedHas
    <3>3. CASE Pops(d, e)
      <4>1. ps_current_scope(d) # "OBJECT" /\ ps_current_scope(d) # "DOCUMENT"
        BY <3>3 DEF Pops, Inner
      <4> QED
        BY <1>1, <3>3, <4>1, PoppedHas DEF Pops
    <3> QED
      BY <1>2, <3>1, <3>2, <3>3, StepMoves DEF Moves
  <2> QED
    BY <1>1, <2>1, <2>2 DEF SoundDocs, PageDocs, PrologDocs, OnDocument
<1> QED
  BY <1>1, <1>2 DEF Stable

\* No call takes the document of an open PSDoc off the stack.
THEOREM StaysOnDocument ==
  ASSUME MaxScopes >= 3, "page_between" \in ClientRules, MaxOpens <= 1
  PROVE  Spec => [](psdoc \in SoundDocs)
<1>1. Init => OnDocument(psdoc)
  BY DEF Init, PS_new2, OnDocument
<1>2. /\ IInv /\ StackDepth /\ Deep(psdoc, opens) /\ (opens <= 1 => PageAgrees(psdoc))
      /\ PrologAgrees(psdoc) /\ OnDocument(psdoc)
      /\ (opens <= 1 => PageAgrees(psdoc))' /\ PrologAgrees(psdoc)' /\ [Next]_vars
      => OnDocument(psdoc)'
  <2> SUFFICES ASSUME IInv, Deep(psdoc, opens), opens <= 1 => PageAgrees(psdoc),
                      PrologAgrees(psdoc), OnDocument(psdoc), [Next]_vars
               PROVE  OnDocument(psdoc')
    OBVIOUS
  <2>1. opens <= 1
    BY BoundsAssumption DEF IInv, Counted
  <2>2. psdoc \in SoundDocs /\ Good(psdoc)
    BY <2>1 DEF SoundDocs, GoodDocs, IInv, Good
  <2>3. CASE OpenDocument
    <3>1. opens' <= 1
      BY <2>3, BoundsAssumption DEF OpenDocument, IInv, Counted
    <3>2. Len(psdoc.scopes) = 1 /\ psdoc'.scopes = Pushed(psdoc.scopes, "DOCUMENT")
      BY <2>3, <3>1, FirstOpening DEF Opened
    <3>3. Len(psdoc.scopes) # MaxScopes /\ "DOCUMENT" \in Scope
      BY <3>2, MaxScopesAssumption DEF Scope
    <3>4. Has(psdoc', "DOCUMENT")
      BY <2>2, <3>2, <3>3, PushedHas
    <3> QED
      BY <3>4 DEF OnDocument
  <2>4. CASE ~OpenDocument
    <3>1. ASSUME NEW d \in SoundDocs, NEW l \in {"live", "crashed", "freed"}
          PROVE  [d EXCEPT !.life = l] \in SoundDocs
      <4> DEFINE e == [d EXCEPT !.life = l]
      <4>1. Good(e) /\ e.scopes = d.scopes /\ SamePage(d, e) /\ SameProlog(d, e)
        BY LifeKeepsStack DEF SoundDocs, GoodDocs
      <4>2. e.doc_open = d.doc_open
        BY DEF SoundDocs, GoodDocs, PSDoc
      <4> HIDE DEF e
      <4>3. PageAgrees(e) /\ PrologAgrees(e) /\ OnDocument(e)
        <5>1. PageAgrees(d) /\ PrologAgrees(d) /\ OnDocument(d)
          BY DEF SoundDocs
        <5>2. (\A t : Has(e, t) <=> Has(d, t)) /\ (OneDocument(e) <=> OneDocument(d))
          BY <4>1 DEF Has, OneDocument
        <5> QED
          BY <4>1, <4>2, <5>1, <5>2 DEF PageAgrees, PrologAgrees, OnDocument
      <4> QED
        BY <4>1, <4>3 DEF SoundDocs, GoodDocs, Good, e
    <3>2. ASSUME NEW d \in SoundDocs, NEW e \in PSDoc, Finished(d, e)
          PROVE  e \in SoundDocs
      <4>1. Good(e) /\ PageAgrees(e) /\ PrologAgrees(e)
        BY <3>2, FinishedIsGood, PageFinished, PrologFinished DEF SoundDocs, GoodDocs
      <4> QED
        BY <3>2, <4>1 DEF SoundDocs, GoodDocs, OnDocument, Finished
    <3>3. psdoc' \in SoundDocs
      BY <2>2, <2>4, <3>1, <3>2, SoundIsStable, StaysIn
    <3> QED
      BY <3>3 DEF SoundDocs
  <2> QED
    BY <2>3, <2>4
<1>3. /\ IInv /\ (opens <= 1 => PageAgrees(psdoc)) /\ PrologAgrees(psdoc) /\ OnDocument(psdoc)
      => psdoc \in SoundDocs
  BY BoundsAssumption DEF IInv, Counted, SoundDocs, GoodDocs, Good
<1> QED
  BY <1>1, <1>2, <1>3, Invariance, StackIsDeepEnough, PagesAgree, PrologsAgree, PTL DEF Spec
\* What is left to do before the document is closed: to end the scopes, to
\* restore the levels, and once to get out of the prolog.
Left(d) == Len(d.scopes) + d.agstate + (IF d.endprologwritten THEN 0 ELSE 1)

\* What goes by the scopes only.
SameFlags(d, e) == e.doc_open = d.doc_open /\ e.endprologwritten = d.endprologwritten

LEMMA LeftIs ==
  ASSUME NEW d \in SoundDocs
  PROVE  Left(d) \in 1..MaxScopes + MaxGState
<1>1. Len(d.scopes) \in 1..MaxScopes /\ d.agstate \in 0..MaxGState - 1
  BY DEF SoundDocs, GoodDocs, Good, PSDoc
<1> QED
  BY <1>1, MaxScopesAssumption, MaxGStateAssumption DEF Left

LEMMA PoppedLess ==
  ASSUME NEW d \in SoundDocs, NEW e \in SoundDocs, ps_current_scope(d) # "OBJECT",
         e.scopes = Popped(d.scopes), SameFlags(d, e), e.agstate = d.agstate
  PROVE  Left(e) < Left(d)
<1>1. Len(e.scopes) = Len(d.scopes) - 1 /\ Len(d.scopes) \in Nat /\ d.agstate \in Nat
  BY PoppedIs, MaxGStateAssumption DEF SoundDocs, GoodDocs, PSDoc
<1> QED
  BY <1>1 DEF Left, SameFlags

\* The scope of a path or of a definition is left, whatever is open.
LEMMA ScopeLeft ==
  ASSUME NEW d \in PSDoc, Len(d.scopes) >= 1, NEW s, ps_current_scope(d) = s,
         NEW c \in Construct, NEW b \in {d, Closing(d, c)}
  PROVE  LET e == ps_leave_scope(b, s)
         IN  /\ e \in PSDoc /\ e.scopes = Popped(d.scopes)
             /\ SameFlags(d, e) /\ e.agstate = d.agstate
<1>1. /\ b \in PSDoc /\ b.scopes = d.scopes /\ SameFlags(d, b) /\ b.agstate = d.agstate
  <2>1. Writes(d, Closing(d, c)) /\ Closing(d, c).agstate = d.agstate
    BY Nest
  <2> QED
    BY <2>1 DEF Writes, Kept, SameFlags
<1>2. ps_current_scope(b) = s
  BY <1>1 DEF ps_current_scope
<1> DEFINE S == SubSeq(b.scopes, 1, Len(b.scopes) - 1)
<1>3. ps_leave_scope(b, s) = [b EXCEPT !.scopes = S]
  BY <1>2 DEF ps_leave_scope
<1>4. S = Popped(d.scopes) /\ S \in Seq(Scope)
  BY <1>1 DEF Popped, PSDoc
<1> HIDE DEF S
<1> QED
  BY <1>1, <1>3, <1>4 DEF PSDoc, SameFlags

\* The calls that end what is innermost, by the current scope.
LEMMA ScopeEnds ==
  ASSUME MaxScopes >= 3, "page_between" \in ClientRules, NEW d \in SoundDocs,
         ps_current_scope(d) \in {"PATH", "GLYPH", "FONT", "TEMPLATE", "PATTERN"}
  PROVE  LET e == WindDown(d)
         IN  e \in SoundDocs /\ e.doc_open = d.doc_open /\ Left(e) < Left(d)
<1> DEFINE e == WindDown(d)
           s == ps_current_scope(d)
<1>1. d \in PSDoc /\ Len(d.scopes) >= 1
  BY DEF SoundDocs, GoodDocs, Good
<1>2. e \in SoundDocs /\ \E c \in Construct : \E b \in {d, Closing(d, c)} : e = ps_leave_scope(b, s)
  <2>1. CASE s = "PATH"
    <3>1. e = PaintPath(d) /\ e = ps_leave_scope(d, s) /\ "proc" \in Construct
      BY <2>1 DEF WindDown, PaintPath, ps_check_scope, Construct
    <3> QED
      BY <3>1, Paths, SoundIsStable
  <2>2. CASE s = "GLYPH"
    <3>1. e = PS_end_glyph(d) /\ e = ps_leave_scope(Closing(d, "charproc"), s)
          /\ "charproc" \in Construct
      BY <2>2 DEF WindDown, PS_end_glyph, EndDefinition, ps_check_scope, Construct
    <3> QED
      BY <3>1, EndedDefinitions, SoundIsStable
  <2>3. CASE s = "FONT"
    <3>1. e = PS_end_font(d) /\ e = ps_leave_scope(Closing(d, "fontdict"), s)
          /\ "fontdict" \in Construct
      BY <2>3 DEF WindDown, PS_end_font, EndDefinition, ps_check_scope, Construct
    <3> QED
      BY <3>1, EndedDefinitions, SoundIsStable
  <2>4. CASE s = "TEMPLATE"
    <3>1. e = PS_end_template(d) /\ e = ps_leave_scope(Closing(d, "proc"), s)
          /\ "proc" \in Construct
      BY <2>4 DEF WindDown, PS_end_template, EndDefinition, ps_check_scope, Construct
    <3> QED
      BY <3>1, EndedDefinitions, SoundIsStable
  <2>5. CASE s = "PATTERN"
    <3>1. e = PS_end_pattern(d) /\ e = ps_leave_scope(Closing(d, "proc"), s)
          /\ "proc" \in Construct
      BY <2>5 DEF WindDown, PS_end_pattern, EndDefinition, ps_check_scope, Construct
    <3> QED
      BY <3>1, EndedDefinitions, SoundIsStable
  <2> QED
    BY <2>1, <2>2, <2>3, <2>4, <2>5
<1>3. e.scopes = Popped(d.scopes) /\ SameFlags(d, e) /\ e.agstate = d.agstate
  BY <1>1, <1>2, ScopeLeft
<1> HIDE DEF e
<1>4. Left(e) < Left(d)
  BY <1>2, <1>3, PoppedLess
<1> QED
  BY <1>2, <1>3, <1>4 DEF SameFlags, e

LEMMA PageWindsDown ==
  ASSUME MaxScopes >= 3, "page_between" \in ClientRules, NEW d \in SoundDocs,
         ps_current_scope(d) = "PAGE"
  PROVE  LET e == WindDown(d)
         IN  e \in SoundDocs /\ e.doc_open = d.doc_open /\ Left(e) < Left(d)
<1> DEFINE e == WindDown(d)
<1>1. d \in PSDoc /\ Good(d) /\ d.agstate \in Nat /\ Len(d.scopes) \in Nat
  BY MaxGStateAssumption DEF SoundDocs, GoodDocs, PSDoc
<1>2. CASE d.agstate > 0
  <2> DEFINE c == Closing(d, "gsave")
  <2>1. e = PS_restore(d)
    BY <1>2 DEF WindDown
  <2>2. e \in SoundDocs
    BY <2>1, Levels, SoundIsStable
  <2>3. Writes(d, c) /\ c.agstate = d.agstate
    BY <1>1, Nest DEF Construct
  <2>4. e = [c EXCEPT !.agstate = @ - 1]
    BY <1>1, <1>2, <2>1 DEF PS_restore, ps_check_scope, DrawingScope
  <2> HIDE DEF c, e
  <2>5. e.agstate = d.agstate - 1 /\ e.scopes = d.scopes /\ SameFlags(d, e)
    BY <2>3, <2>4 DEF Writes, Kept, PSDoc, SameFlags
  <2>6. Left(e) < Left(d)
    BY <1>1, <2>5 DEF Left, SameFlags
  <2> QED
    BY <2>2, <2>5, <2>6 DEF SameFlags, e
<1>3. CASE d.agstate = 0
  <2> DEFINE c == Closing(d, "page")
             b == [c EXCEPT !.page_open = FALSE]
  <2>1. e = PS_end_page(d)
    BY <1>3 DEF WindDown
  <2>2. e \in SoundDocs
    BY <2>1, EndedPages, SoundIsStable
  <2>3. Writes(d, c) /\ c.agstate = d.agstate
    BY <1>1, Nest DEF Construct
  <2>4. e = ps_leave_scope(b, "PAGE")
    BY <1>3, <2>1 DEF PS_end_page, ps_check_scope
  <2> HIDE DEF c
  <2>5. b \in PSDoc /\ b.scopes = d.scopes /\ SameFlags(d, b) /\ b.agstate = d.agstate
    BY <2>3 DEF Writes, Kept, PSDoc, SameFlags
  <2> HIDE DEF b, e
  <2>6. e.scopes = Popped(b.scopes) /\ SameFlags(b, e) /\ e.agstate = b.agstate
    <3>1. Len(b.scopes) >= 1 /\ ps_current_scope(b) = "PAGE" /\ "page" \in Construct
      BY <2>5, <1>1 DEF ps_current_scope, Good, Construct
    <3> QED
      BY <2>4, <2>5, <3>1, ScopeLeft
  <2>7. e.scopes = Popped(d.scopes) /\ SameFlags(d, e) /\ e.agstate = d.agstate
    BY <2>5, <2>6 DEF SameFlags
  <2>8. Left(e) < Left(d)
    BY <2>2, <2>7, PoppedLess
  <2> QED
    BY <2>2, <2>7, <2>8 DEF SameFlags, e
<1> QED
  BY <1>1, <1>2, <1>3

LEMMA PrologWindsDown ==
  ASSUME MaxScopes >= 3, "page_between" \in ClientRules, NEW d \in SoundDocs, d.doc_open,
         ps_current_scope(d) = "PROLOG"
  PROVE  LET e == WindDown(d)
         IN  e \in SoundDocs /\ e.doc_open = d.doc_open /\ Left(e) < Left(d)
<1> DEFINE e == WindDown(d)
           h == ps_write_ps_header(d)
           o == [h EXCEPT !.page = @ + 1, !.phase = "script"]
           p == Opening(o, "page")
           q == [p EXCEPT !.page_open = TRUE]
<1>1. /\ d \in PSDoc /\ Good(d) /\ OneDocument(d) /\ BetweenPages(d)
      /\ d.beginprologwritten /\ ~d.endprologwritten /\ ~d.headerwritten
      /\ d.agstate \in Nat
  <2>1. PICK k \in Nat : k = Len(d.scopes) /\ k >= 1 /\ d.scopes[k] = "PROLOG"
    BY DEF SoundDocs, GoodDocs, Good, PSDoc, ps_current_scope
  <2>2. Has(d, "PROLOG")
    BY <2>1 DEF Has
  <2> QED
    BY <2>2, MaxGStateAssumption
       DEF SoundDocs, GoodDocs, Good, PSDoc, PrologAgrees, BetweenPages, Keeps, ps_check_scope
\* The document lies below the prolog.
<1>2. Len(d.scopes) = 3 /\ d.scopes[2] = "DOCUMENT" /\ MaxScopes \in Nat
  <2>1. PICK k \in Nat : k = Len(d.scopes) /\ k >= 1 /\ d.scopes[k] = "PROLOG"
    BY <1>1 DEF Good, PSDoc, ps_current_scope
  <2>2. PICK i \in 1..k : d.scopes[i] = "DOCUMENT"
    BY <2>1 DEF SoundDocs, OnDocument, Has
  <2>3. i = 2 /\ k # 2
    BY <1>1, <2>1, <2>2, Places
  <2>4. k = 2 \/ k = 3
    <3>1. k \in 1..Len(d.scopes)
      BY <2>1
    <3> QED
      BY <1>1, <2>1, <3>1, Places
  <2> QED
    BY <2>1, <2>2, <2>3, <2>4, MaxScopesAssumption
\* The header ends the prolog.
<1>3. /\ h \in PSDoc /\ h.scopes = Popped(d.scopes) /\ h.agstate = d.agstate
      /\ h.doc_open = d.doc_open /\ h.endprologwritten
  <2> DEFINE d1 == IF d.commentswritten THEN d ELSE ps_write_ps_comments(d)
             c == Closing(d1, "prolog")
             l == ps_leave_scope(c, "PROLOG")
             d3 == [l EXCEPT !.endprologwritten = TRUE]
             d4 == IF d3.setupwritten THEN d3 ELSE ps_write_ps_setup(d3)
             d5 == [d4 EXCEPT !.headerwritten = TRUE]
  <2>1. ASSUME NEW x \in PSDoc, NEW n \in Seq(Construct)
        PROVE  LET y == ps_printf(x, n)
               IN  /\ y \in PSDoc /\ y.scopes = x.scopes /\ y.agstate = x.agstate
                   /\ SameFlags(x, y) /\ y.beginprologwritten = x.beginprologwritten
    BY <2>1 DEF ps_printf, PSDoc, SameFlags
  <2>2. /\ d1 \in PSDoc /\ d1.scopes = d.scopes /\ d1.agstate = d.agstate
        /\ SameFlags(d, d1) /\ d1.beginprologwritten = d.beginprologwritten
    <3> DEFINE y == ps_printf(d, d.nest)
    <3>1. /\ y \in PSDoc /\ y.scopes = d.scopes /\ y.agstate = d.agstate
          /\ SameFlags(d, y) /\ y.beginprologwritten = d.beginprologwritten
      BY <1>1, <2>1 DEF PSDoc
    <3>2. ps_write_ps_comments(d) = [y EXCEPT !.commentswritten = TRUE]
      BY DEF ps_write_ps_comments
    <3> HIDE DEF y
    <3> DEFINE z == [y EXCEPT !.commentswritten = TRUE]
    <3>3. /\ z \in PSDoc /\ z.scopes = y.scopes /\ z.agstate = y.agstate
          /\ SameFlags(y, z) /\ z.beginprologwritten = y.beginprologwritten
      BY <3>1 DEF PSDoc, SameFlags
    <3> HIDE DEF z
    <3>4. d1 \in {d, z}
      BY <3>2 DEF z
    <3> QED
      BY <1>1, <3>1, <3>3, <3>4 DEF SameFlags
  <2>3. h = d5
    <3>1. d1.beginprologwritten /\ ~d1.endprologwritten
      BY <1>1, <2>2 DEF SameFlags
    <3> HIDE DEF d1
    <3>2. ps_write_ps_endprolog(d1) = d3
      BY DEF ps_write_ps_endprolog
    <3> QED
      BY <1>1, <3>1, <3>2, Zenon DEF ps_write_ps_header, d1, d4, d5
  <2> HIDE DEF d1
  <2>4. Len(d1.scopes) >= 1 /\ ps_current_scope(d1) = "PROLOG" /\ "prolog" \in Construct
    BY <1>1, <2>2 DEF ps_current_scope, Good, Construct
  <2>5. l \in PSDoc /\ l.scopes = Popped(d1.scopes) /\ SameFlags(d1, l) /\ l.agstate = d1.agstate
    BY <2>2, <2>4, ScopeLeft
  <2> HIDE DEF l
  <2>6. /\ d3 \in PSDoc /\ d3.scopes = l.scopes /\ d3.agstate = l.agstate
        /\ d3.doc_open = l.doc_open /\ d3.endprologwritten
    BY <2>5 DEF PSDoc
  <2> HIDE DEF d3
  <2>7. d4 \in PSDoc /\ d4.scopes = d3.scopes /\ d4.agstate = d3.agstate /\ SameFlags(d3, d4)
    <3> DEFINE y == ps_printf(d3, d3.nest)
    <3>1. y \in PSDoc /\ y.scopes = d3.scopes /\ y.agstate = d3.agstate /\ SameFlags(d3, y)
      BY <2>1, <2>6 DEF PSDoc
    <3>2. ps_write_ps_setup(d3) = [y EXCEPT !.setupwritten = TRUE]
      BY DEF ps_write_ps_setup
    <3> HIDE DEF y
    <3> DEFINE z == [y EXCEPT !.setupwritten = TRUE]
    <3>3. /\ z \in PSDoc /\ z.scopes = y.scopes /\ z.agstate = y.agstate
          /\ SameFlags(y, z)
      BY <3>1 DEF PSDoc, SameFlags
    <3> HIDE DEF z
    <3>4. d4 \in {d3, z}
      BY <3>2 DEF z
    <3> QED
      BY <2>6, <3>1, <3>3, <3>4 DEF SameFlags
  <2> HIDE DEF d4
  <2>8. d5 \in PSDoc /\ d5.scopes = d4.scopes /\ d5.agstate = d4.agstate /\ SameFlags(d4, d5)
    BY <2>7 DEF PSDoc, SameFlags
  <2> HIDE DEF d5
  <2> QED
    BY <2>2, <2>3, <2>5, <2>6, <2>7, <2>8 DEF SameFlags
<1>4. Len(h.scopes) = 2 /\ ps_current_scope(h) = "DOCUMENT"
  <2>1. ps_current_scope(d) # "OBJECT" /\ Len(d.scopes) - 1 = 2
    BY <1>2
  <2>2. Len(Popped(d.scopes)) = 2 /\ Popped(d.scopes)[2] = d.scopes[2]
    <3>1. /\ Len(Popped(d.scopes)) = Len(d.scopes) - 1
          /\ \A i \in 1..Len(d.scopes) - 1 : Popped(d.scopes)[i] = d.scopes[i]
      BY <1>1, <2>1, PoppedIs
    <3>2. \A i \in 1..2 : Popped(d.scopes)[i] = d.scopes[i]
      BY <2>1, <3>1
    <3> QED
      BY <2>1, <3>1, <3>2
  <2> QED
    BY <1>2, <1>3, <2>2 DEF ps_current_scope
\* A page begins in its place.
<1>5. e = ps_enter_scope(q, "PAGE")
  BY <1>4 DEF WindDown, PS_begin_page, ps_check_scope
<1>6. e \in SoundDocs
  <2>1. e = PS_begin_page(d)
    BY DEF WindDown
  <2> QED
    BY <1>1, <2>1, PageBegun, SoundIsStable
<1> HIDE DEF h
<1>7. o \in PSDoc /\ o.scopes = h.scopes /\ o.agstate = h.agstate /\ SameFlags(h, o)
  <2> DEFINE n == h.page + 1
  <2>1. n \in Nat
    BY <1>3 DEF PSDoc
  <2>2. o = [h EXCEPT !.page = n, !.phase = "script"]
    OBVIOUS
  <2> HIDE DEF n, o
  <2> QED
    BY <1>3, <2>1, <2>2 DEF PSDoc, SameFlags
<1> HIDE DEF o
<1>8. p \in PSDoc /\ p.scopes = o.scopes /\ p.agstate = o.agstate /\ SameFlags(o, p)
  BY <1>7, Nest DEF Construct, Writes, Kept, SameFlags
<1> HIDE DEF p
<1>9. q \in PSDoc /\ q.scopes = p.scopes /\ q.agstate = p.agstate /\ SameFlags(p, q)
  BY <1>8 DEF PSDoc, SameFlags
<1> HIDE DEF q
<1>10. Len(q.scopes) = 2 /\ MaxScopes # 2
  BY <1>2, <1>4, <1>7, <1>8, <1>9
<1>11. e = [q EXCEPT !.scopes = Append(q.scopes, "PAGE")]
  BY <1>5, <1>10 DEF ps_enter_scope
<1> HIDE DEF e
<1>12. /\ e.scopes = Append(q.scopes, "PAGE") /\ e.agstate = q.agstate /\ SameFlags(q, e)
  BY <1>9, <1>11 DEF PSDoc, SameFlags
<1>13. Len(e.scopes) = 3
  <2>1. q.scopes \in Seq(Scope) /\ "PAGE" \in Scope
    BY <1>9 DEF PSDoc, Scope
  <2> QED
    BY <1>10, <1>12, <2>1
<1>14. e.agstate = d.agstate /\ e.endprologwritten /\ e.doc_open = d.doc_open
  BY <1>3, <1>7, <1>8, <1>9, <1>12 DEF SameFlags
<1>15. Left(e) < Left(d)
  BY <1>1, <1>2, <1>13, <1>14 DEF Left
<1> QED
  BY <1>6, <1>14, <1>15 DEF e

\* The document is closed, and stays so.
Ended(d) == ~d.doc_open /\ d.phase = "trailer" /\ ps_current_scope(d) = "OBJECT"

LEMMA DocumentEnds ==
  ASSUME MaxScopes >= 3, "page_between" \in ClientRules, NEW d \in SoundDocs, d.doc_open,
         ps_current_scope(d) = "DOCUMENT"
  PROVE  WindDown(d) \in PSDoc /\ Ended(WindDown(d))
<1>1. d \in PSDoc /\ Good(d) /\ OneDocument(d) /\ PageAgrees(d)
  BY DEF SoundDocs, GoodDocs, PageAgrees
<1>2. Len(d.scopes) = 2 /\ d.scopes[2] = "DOCUMENT" /\ d.scopes[1] = "OBJECT"
  BY <1>1, OneDocumentTop DEF ps_current_scope, Good
<1>3. ~d.page_open
  <2>1. \A i \in 1..2 : d.scopes[i] # "PAGE"
    BY <1>2
  <2> QED
    BY <1>1, <1>2, <2>1 DEF PageAgrees, Has
<1>4. WindDown(d) = PS_close(d)
  BY DEF WindDown
<1>5. /\ PS_close(d).phase = "trailer" /\ ~PS_close(d).doc_open
      /\ PS_close(d).scopes = Popped(d.scopes)
  BY <1>1, <1>3, ClosesFromDocument
<1>6. PS_close(d) \in PSDoc
  <2>1. PICK x \in SoundDocs : PS_close(d) = x \/ Finished(x, PS_close(d))
    BY SoundIsStable, Closes
  <2> QED
    BY <2>1 DEF Finished, SoundDocs, GoodDocs
<1>7. ps_current_scope(PS_close(d)) = "OBJECT"
  <2>1. /\ Len(Popped(d.scopes)) = Len(d.scopes) - 1
        /\ \A i \in 1..Len(d.scopes) - 1 : Popped(d.scopes)[i] = d.scopes[i]
    BY <1>1, PoppedIs
  <2>2. Len(d.scopes) - 1 = 1 /\ 1 \in 1..1
    BY <1>2
  <2>3. Len(Popped(d.scopes)) = 1 /\ Popped(d.scopes)[1] = "OBJECT"
    BY <1>2, <2>1, <2>2
  <2> QED
    BY <1>5, <2>3 DEF ps_current_scope
<1> QED
  BY <1>4, <1>5, <1>6, <1>7 DEF Ended

OpenDocs == {d \in SoundDocs : d.doc_open}
ClosedDocs == {d \in PSDoc : Ended(d)}

\* Each call that ends what is innermost leaves less to do, or nothing.
LEMMA WindsDown ==
  ASSUME MaxScopes >= 3, "page_between" \in ClientRules
  PROVE  /\ \A d \in OpenDocs :
              \/ WindDown(d) \in ClosedDocs
              \/ WindDown(d) \in OpenDocs /\ Left(WindDown(d)) < Left(d)
         /\ \A d \in ClosedDocs : WindDown(d) = d
<1>1. ASSUME NEW d \in OpenDocs
      PROVE  \/ WindDown(d) \in ClosedDocs
             \/ WindDown(d) \in OpenDocs /\ Left(WindDown(d)) < Left(d)
  <2>1. d \in SoundDocs /\ d.doc_open /\ Good(d) /\ OneDocument(d) /\ Has(d, "DOCUMENT")
    BY DEF OpenDocs, SoundDocs, GoodDocs, PageAgrees, OnDocument
  <2>2. ps_current_scope(d) # "OBJECT"
    <3> SUFFICES ASSUME ps_current_scope(d) = "OBJECT"
                 PROVE  FALSE
      OBVIOUS
    <3>1. Len(d.scopes) = 1 /\ d.scopes[1] = "OBJECT"
      BY <2>1, OneDocumentTop DEF Good
    <3> QED
      BY <2>1, <3>1 DEF Has
  <2>3. ps_current_scope(d) \in Scope
    BY <2>1, Current
  <2>4. CASE ps_current_scope(d) \in {"PATH", "GLYPH", "FONT", "TEMPLATE", "PATTERN"}
    BY <2>1, <2>4, ScopeEnds DEF OpenDocs
  <2>5. CASE ps_current_scope(d) = "PAGE"
    BY <2>1, <2>5, PageWindsDown DEF OpenDocs
  <2>6. CASE ps_current_scope(d) = "PROLOG"
    BY <2>1, <2>6, PrologWindsDown DEF OpenDocs
  <2>7. CASE ps_current_scope(d) = "DOCUMENT"
    BY <2>1, <2>7, DocumentEnds DEF ClosedDocs
  <2> QED
    BY <2>2, <2>3, <2>4, <2>5, <2>6, <2>7 DEF Scope
<1>2. ASSUME NEW d \in ClosedDocs
      PROVE  WindDown(d) = d
  BY DEF ClosedDocs, Ended, WindDown
<1> QED
  BY <1>1, <1>2, Zenon

\* Numbers are well ordered.
LEMMA LeastNumber ==
  ASSUME NEW T \in SUBSET Nat, T # {}
  PROVE  \E x \in T : \A y \in T : x <= y
<1> DEFINE R == OpToRel(<, Nat)
<1>1. PICK x \in T : \A y \in T : <<y, x>> \notin R
  BY NatLessThanWellFounded, WFMin
<1>2. \A y \in T : ~(y < x)
  BY <1>1 DEF OpToRel
<1> QED
  BY <1>2

\* f is next, called again and again, up to m times.
Repeats(f, m, first, next) ==
  \A k \in 0..m : f[k] = IF k = 0 THEN first ELSE next[f[k - 1]]

\* By the least m for which there is no such f.
LEMMA RepetitionExists ==
  ASSUME NEW n \in Nat, NEW V, NEW first \in V, NEW next \in [V -> V]
  PROVE  \E f \in [0..n -> V] : Repeats(f, n, first, next)
<1> DEFINE Missing == {m \in 0..n : ~\E f \in [0..n -> V] : Repeats(f, m, first, next)}
<1> SUFFICES ASSUME Missing # {} PROVE FALSE
  <2>1. n \in 0..n
    OBVIOUS
  <2>2. n \notin Missing => \E f \in [0..n -> V] : Repeats(f, n, first, next)
    BY <2>1
  <2> QED
    BY <2>2
<1>1. PICK m \in Missing : \A k \in Missing : m <= k
  <2> HIDE DEF Missing
  <2>1. Missing \in SUBSET Nat
    BY DEF Missing
  <2> QED
    BY <2>1, LeastNumber
<1>2. m \in 0..n /\ ~\E f \in [0..n -> V] : Repeats(f, m, first, next)
  BY <1>1
<1>3. CASE m = 0
  <2> DEFINE f == [k \in 0..n |-> first]
  <2>1. f \in [0..n -> V] /\ \A k \in 0..m : k = 0 /\ f[k] = first
    BY <1>3
  <2> HIDE DEF f
  <2>2. Repeats(f, m, first, next)
    BY <2>1 DEF Repeats
  <2> QED
    BY <1>2, <2>1, <2>2
<1>4. CASE m # 0
  <2>1. PICK l \in 0..n : l = m - 1
    BY <1>2, <1>4
  <2>2. l \notin Missing
    <3> HIDE DEF Missing
    <3> QED
      BY <1>1, <1>2, <2>1
  <2>3. PICK f \in [0..n -> V] : Repeats(f, l, first, next)
    BY <2>2
  <2> DEFINE v == next[f[l]]
             g == [f EXCEPT ![m] = v]
  <2>4. v \in V
    OBVIOUS
  <2>5. g \in [0..n -> V] /\ g[m] = v /\ \A k \in 0..n : k # m => g[k] = f[k]
    BY <1>2, <2>4
  <2> HIDE DEF g
  <2>6. ASSUME NEW k \in 0..m PROVE g[k] = IF k = 0 THEN first ELSE next[g[k - 1]]
    <3>1. CASE k = m
      <4>1. g[k - 1] = f[l] /\ k # 0
        BY <1>2, <1>4, <2>1, <2>5, <3>1
      <4> QED
        BY <2>5, <3>1, <4>1
    <3>2. CASE k # m
      <4>1. k \in 0..l /\ k \in 0..n
        BY <1>2, <2>1, <3>2
      <4>2. f[k] = IF k = 0 THEN first ELSE next[f[k - 1]]
        BY <2>3, <4>1 DEF Repeats
      <4>3. k # 0 => k - 1 \in 0..n /\ k - 1 # m
        BY <1>2, <2>1, <4>1
      <4> QED
        BY <2>5, <3>2, <4>1, <4>2, <4>3
    <3> QED
      BY <3>1, <3>2
  <2>7. Repeats(g, m, first, next)
    BY <2>6 DEF Repeats
  <2> QED
    BY <1>2, <2>5, <2>7
<1> QED
  BY <1>3, <1>4

\* The calls are as many as can be left to do.
LEMMA CanBeClosed ==
  ASSUME MaxScopes >= 3, "page_between" \in ClientRules, psdoc \in SoundDocs
  PROVE  AlwaysClosable
<1> SUFFICES ASSUME psdoc.doc_open
             PROVE  AlwaysClosable
  BY DEF AlwaysClosable
<1> DEFINE steps == MaxScopes + MaxGState + 2
           after == CHOOSE f : f = [n \in 0..steps |->
                      IF n = 0 THEN psdoc ELSE WindDown(f[n - 1])]
           V == OpenDocs \cup ClosedDocs
           next == [d \in V |-> WindDown(d)]
<1>1. steps \in Nat /\ psdoc \in OpenDocs /\ psdoc \in V
  BY MaxScopesAssumption, MaxGStateAssumption DEF OpenDocs
<1>2. AlwaysClosable <=> (psdoc.life = "live" => ~after[steps].doc_open /\ after[steps].phase = "trailer")
  BY Zenon DEF AlwaysClosable
<1>3. \A d \in V : WindDown(d) \in V
  BY WindsDown
<1>4. next \in [V -> V] /\ \A d \in V : next[d] = WindDown(d)
  BY <1>3
<1> HIDE DEF next, V, steps
<1>5. PICK f \in [0..steps -> V] : Repeats(f, steps, psdoc, next)
  BY <1>1, <1>4, RepetitionExists
<1>6. ASSUME NEW k \in 0..steps
      PROVE  f[k] = IF k = 0 THEN psdoc ELSE WindDown(f[k - 1])
  <2>1. f[k] = IF k = 0 THEN psdoc ELSE next[f[k - 1]]
    BY <1>5 DEF Repeats
  <2>2. k # 0 => f[k - 1] \in V
    BY <1>1
  <2> QED
    BY <1>4, <2>1, <2>2
<1>7. f = [n \in 0..steps |-> IF n = 0 THEN psdoc ELSE WindDown(f[n - 1])]
  BY <1>5, <1>6
<1>8. after = [n \in 0..steps |-> IF n = 0 THEN psdoc ELSE WindDown(after[n - 1])]
  BY <1>7
<1> HIDE DEF after
\* After n calls the document is closed, or n less are left to do.
<1> DEFINE Nearer(n) == \/ after[n] \in ClosedDocs
                        \/ after[n] \in OpenDocs /\ Left(after[n]) + n <= Left(psdoc)
<1>9. ASSUME NEW n \in 0..steps
      PROVE  Nearer(n)
  <2> DEFINE Wrong == {k \in 0..steps : ~Nearer(k)}
  <2> SUFFICES ASSUME Wrong # {} PROVE FALSE
    OBVIOUS
  <2> HIDE DEF Nearer
  <2>1. PICK m \in Wrong : \A k \in Wrong : m <= k
    <3> HIDE DEF Wrong
    <3>1. Wrong \in SUBSET Nat
      BY <1>1 DEF Wrong
    <3> QED
      BY <3>1, LeastNumber
  <2>2. m \in 0..steps /\ ~Nearer(m)
    OBVIOUS
  <2>3. m # 0
    <3>1. after[0] = psdoc
      BY <1>1, <1>8
    <3>2. Left(psdoc) \in Nat
      BY LeftIs, MaxScopesAssumption, MaxGStateAssumption
    <3>3. Nearer(0)
      BY <1>1, <3>1, <3>2 DEF Nearer
    <3> QED
      BY <2>2, <3>3
  <2>4. m - 1 \in 0..steps /\ m - 1 \notin Wrong /\ m \in Nat
    <3> HIDE DEF Wrong
    <3> QED
      BY <1>1, <2>1, <2>2, <2>3
  <2>5. PICK l \in 0..steps : l = m - 1 /\ m = l + 1 /\ Nearer(l) /\ l \in Nat
    BY <1>1, <2>3, <2>4
  <2> HIDE DEF Wrong
  <2>6. after[m] = WindDown(after[l])
    BY <1>8, <2>2, <2>3, <2>5
  <2>7. CASE after[l] \in ClosedDocs
    <3>1. after[m] \in ClosedDocs
      BY <2>6, <2>7, WindsDown
    <3>2. Nearer(m)
      BY <3>1 DEF Nearer
    <3> QED
      BY <2>2, <3>2
  <2>8. CASE after[l] \in OpenDocs /\ Left(after[l]) + l <= Left(psdoc)
    <3>1. after[m] \in ClosedDocs \/ (after[m] \in OpenDocs /\ Left(after[m]) < Left(after[l]))
      BY <2>6, <2>8, WindsDown
    <3>2. after[m] \in OpenDocs => Left(after[m]) \in Nat
      BY LeftIs, MaxScopesAssumption, MaxGStateAssumption DEF OpenDocs
    <3>3. Left(after[l]) \in Nat /\ Left(psdoc) \in Nat
      BY <2>8, LeftIs, MaxScopesAssumption, MaxGStateAssumption DEF OpenDocs
    <3>4. after[m] \in OpenDocs /\ Left(after[m]) < Left(after[l]) => Left(after[m]) + m <= Left(psdoc)
      BY <2>5, <2>8, <3>2, <3>3
    <3>5. Nearer(m)
      BY <3>1, <3>4 DEF Nearer
    <3> QED
      BY <2>2, <3>5
  <2> QED
    BY <2>5, <2>7, <2>8 DEF Nearer
<1>10. after[steps] \in ClosedDocs
  <2>1. Nearer(steps)
    BY <1>1, <1>9
  <2>2. Left(psdoc) \in 1..MaxScopes + MaxGState
    BY LeftIs
  <2>3. after[steps] \in OpenDocs => Left(after[steps]) \in 1..MaxScopes + MaxGState
    BY LeftIs DEF OpenDocs
  <2> QED
    BY <2>1, <2>2, <2>3, MaxScopesAssumption, MaxGStateAssumption DEF steps
<1> QED
  BY <1>2, <1>10 DEF ClosedDocs, Ended

\* A program that opens a document once and begins no page inside another page
\* or a definition can close it from wherever the calls so far have led.
THEOREM DocumentCanBeClosed ==
  ASSUME MaxScopes >= 3, "page_between" \in ClientRules, MaxOpens <= 1
  PROVE  Spec => []AlwaysClosable
<1>1. psdoc \in SoundDocs => AlwaysClosable
  BY CanBeClosed
<1> QED
  BY <1>1, StaysOnDocument, PTL

----------------------------------------------------------------------------
(***************************************************************************)
(* The output of a program that keeps all rules and opens a document once: *)
(* the levels of PS_save are counted right, and what is written is a       *)
(* document in the order of the Document Structuring Conventions, that is, *)
(* PSDocument implements DSCStream.                                        *)
(*                                                                         *)
(* The inductive invariant says what a reader of the output sees: the      *)
(* constructs that are open are those the scopes stand for, from the       *)
(* outside in, and on top of them one gsave for each level of agstate.     *)
(***************************************************************************)

\* The construct that a scope stands for in the output.
ConstructOf(s) ==
  CASE s = "PROLOG" -> "prolog"
    [] s = "PAGE" -> "page"
    [] s \in {"TEMPLATE", "PATTERN"} -> "proc"
    [] s = "FONT" -> "fontdict"
    [] s = "GLYPH" -> "charproc"
    [] OTHER -> "stray"

\* How many of the scopes above the document are constructs: a path is none.
Frames(s) == IF s[Len(s)] = "PATH" THEN Len(s) - 3 ELSE Len(s) - 2

Structured(s, nest, level) ==
  /\ Len(nest) = Frames(s) + level
  /\ \A i \in 1..Frames(s) : nest[i] = ConstructOf(s[i + 2])
  /\ \A i \in 1..Len(nest) : i > Frames(s) => nest[i] = "gsave"
  /\ level > 0 => Frames(s) > 0 /\ s[Frames(s) + 2] \in DrawingScope

\* How far the output has come.
Phased(d) ==
  /\ ~d.beginprologwritten => d.phase = "empty"
  /\ d.beginprologwritten /\ ~d.endprologwritten => d.phase = "prolog"
  /\ d.endprologwritten => d.beginprologwritten /\ d.phase = "script"
  /\ d.headerwritten <=> d.endprologwritten

\* What the first part of the proofs knows of an open document.
SteadyDocs == {d \in GoodDocs : Writable(d) /\ Deep(d, 1) /\ PageAgrees(d) /\ PrologAgrees(d)}

Ready(d) ==
  /\ d \in SteadyDocs
  /\ Structured(d.scopes, d.nest, d.agstate)
  /\ Phased(d)

\* A PSDoc that has not been opened yet.
Unopened(d) ==
  /\ ~d.beginprologwritten /\ ~d.endprologwritten /\ ~d.headerwritten /\ ~d.page_open
  /\ d.phase = "empty" /\ d.page = 0

\* One that is not open: nothing is left open in the output either.
Rests(d) == Idle(d) /\ d.nest = <<>> /\ d.agstate = 0

AllRules == {"open_first", "header_first", "page_between", "balance", "levels"}

\* The inductive invariant.
OutInv ==
  /\ IInv
  /\ Ready(psdoc) \/ Rests(psdoc)
  /\ opens = 0 => Rests(psdoc) /\ Unopened(psdoc)
  /\ LevelsAgree

----------------------------------------------------------------------------
(* Scopes and constructs that come and go together.                        *)

\* The stack and the constructs of an open document.
Stacks(s, nest, level) ==
  /\ s \in Seq(Scope) /\ Len(s) >= 2
  /\ nest \in Seq(Construct) /\ level \in Nat
  /\ Structured(s, nest, level)

LEMMA AppendOne ==
  ASSUME NEW S, NEW x \in S, NEW y \in S
  PROVE  Append(<<y>>, x) = <<y, x>>
<1> DEFINE p == <<y>>
           q == <<y, x>>
           a == Append(p, x)
<1>1. p \in Seq(S) /\ Len(p) = 1 /\ p[1] = y
  OBVIOUS
<1>2. q \in Seq(S) /\ Len(q) = 2 /\ q[1] = y /\ q[2] = x
  OBVIOUS
<1> HIDE DEF p, q
<1>3. /\ a \in Seq(S) /\ Len(a) = Len(p) + 1
      /\ \A i \in 1..Len(p) : a[i] = p[i]
      /\ a[Len(p) + 1] = x
  <2>1. p \in Seq(S)
    BY <1>1
  <2>2. a \in Seq(S) /\ Len(a) = Len(p) + 1
    BY <2>1, AppendProperties
  <2>3. \A i \in 1..Len(p) : a[i] = p[i]
    BY <2>1, AppendProperties
  <2>4. a[Len(p) + 1] = x
    BY <2>1, AppendProperties
  <2> QED
    BY <2>2, <2>3, <2>4
<1> HIDE DEF a
<1>4. Len(a) = 2 /\ a[1] = y /\ a[2] = x
  <2>1. Len(p) + 1 = 2 /\ 1 \in 1..Len(p)
    BY <1>1
  <2> QED
    BY <1>1, <1>3, <2>1
<1>5. \A i \in 1..2 : a[i] = q[i]
  <2>1. \A i \in 1..2 : i = 1 \/ i = 2
    OBVIOUS
  <2> QED
    BY <1>2, <1>4, <2>1
<1> QED
  BY <1>2, <1>3, <1>4, <1>5, SeqEqual DEF a, p, q

LEMMA ConstructPushed ==
  ASSUME NEW s, NEW nest, Stacks(s, nest, 0), s[Len(s)] # "PATH",
         NEW t \in Scope, t # "PATH", NEW c \in Construct, c = ConstructOf(t)
  PROVE  Stacks(Append(s, t), Append(nest, c), 0)
<1>1. PICK k \in Nat : k = Len(s)
  BY DEF Stacks
<1>2. k >= 2 /\ Frames(s) = k - 2 /\ Len(nest) = k - 2 /\ s \in Seq(Scope) /\ nest \in Seq(Construct)
  BY <1>1 DEF Stacks, Structured, Frames
<1> DEFINE S == Append(s, t)
           N == Append(nest, c)
<1>3. /\ S \in Seq(Scope) /\ Len(S) = k + 1 /\ S[k + 1] = t
      /\ \A i \in 1..k : S[i] = s[i]
  BY <1>1, <1>2
<1>4. /\ N \in Seq(Construct) /\ Len(N) = k - 1 /\ N[k - 1] = c
      /\ \A i \in 1..(k - 2) : N[i] = nest[i]
  BY <1>2
<1> HIDE DEF S, N
<1>5. Frames(S) = k - 1
  BY <1>3 DEF Frames
<1>6. \A i \in 1..(k - 2) : nest[i] = ConstructOf(s[i + 2])
  BY <1>2 DEF Stacks, Structured
<1>7. ASSUME NEW i \in 1..(k - 1)
      PROVE  N[i] = ConstructOf(S[i + 2])
  <2>1. CASE i = k - 1
    BY <1>1, <1>3, <1>4, <2>1
  <2>2. CASE i # k - 1
    <3>1. i \in 1..(k - 2) /\ i + 2 \in 1..k
      BY <1>1, <1>2, <2>2
    <3> QED
      BY <1>3, <1>4, <1>6, <3>1
  <2> QED
    BY <2>1, <2>2
<1>8. Structured(S, N, 0)
  BY <1>1, <1>4, <1>5, <1>7 DEF Structured
<1> QED
  BY <1>1, <1>2, <1>3, <1>4, <1>8 DEF Stacks, S, N

LEMMA ConstructPopped ==
  ASSUME NEW s, NEW nest, Stacks(s, nest, 0), Len(s) >= 3,
         s[Len(s)] # "PATH", s[Len(s) - 1] # "PATH"
  PROVE  /\ Stacks(SubSeq(s, 1, Len(s) - 1), SubSeq(nest, 1, Len(nest) - 1), 0)
         /\ nest # <<>> /\ nest[Len(nest)] = ConstructOf(s[Len(s)])
<1>1. PICK k \in Nat : k = Len(s)
  BY DEF Stacks
<1>2. k >= 3 /\ Frames(s) = k - 2 /\ Len(nest) = k - 2 /\ s \in Seq(Scope) /\ nest \in Seq(Construct)
  BY <1>1 DEF Stacks, Structured, Frames
<1> DEFINE S == SubSeq(s, 1, Len(s) - 1)
           N == SubSeq(nest, 1, Len(nest) - 1)
<1>3. S \in Seq(Scope) /\ Len(S) = k - 1 /\ \A i \in 1..(k - 1) : S[i] = s[i]
  BY <1>1, <1>2
<1>4. N \in Seq(Construct) /\ Len(N) = k - 3 /\ \A i \in 1..(k - 3) : N[i] = nest[i]
  BY <1>2
<1> HIDE DEF S, N
<1>5. Frames(S) = k - 3
  <2>1. S[k - 1] = s[k - 1]
    BY <1>2, <1>3
  <2> QED
    BY <1>1, <1>3, <2>1 DEF Frames
<1>6. \A i \in 1..(k - 2) : nest[i] = ConstructOf(s[i + 2])
  BY <1>2 DEF Stacks, Structured
<1>7. ASSUME NEW i \in 1..(k - 3)
      PROVE  N[i] = ConstructOf(S[i + 2])
  <2>1. i \in 1..(k - 2) /\ i + 2 \in 1..(k - 1)
    BY <1>1
  <2> QED
    BY <1>3, <1>4, <1>6, <2>1
<1>8. Structured(S, N, 0)
  BY <1>1, <1>4, <1>5, <1>7 DEF Structured
<1>9. nest # <<>> /\ nest[k - 2] = ConstructOf(s[k])
  <2>1. k - 2 \in 1..(k - 2) /\ (k - 2) + 2 = k
    BY <1>1, <1>2
  <2> QED
    BY <1>2, <1>6, <2>1
<1> QED
  BY <1>1, <1>2, <1>3, <1>4, <1>8, <1>9 DEF Stacks, S, N

LEMMA LevelPushed ==
  ASSUME NEW s, NEW nest, NEW level, Stacks(s, nest, level), s[Len(s)] \in DrawingScope,
         Len(s) >= 3
  PROVE  Stacks(s, Append(nest, "gsave"), level + 1)
<1>1. PICK k \in Nat : k = Len(s)
  BY DEF Stacks
<1>2. PICK n \in Nat : n = Len(nest)
  BY DEF Stacks
<1>3. k >= 3 /\ Frames(s) = k - 2 /\ n = k - 2 + level /\ level \in Nat
  BY <1>1, <1>2 DEF Stacks, Structured, Frames, DrawingScope
<1> DEFINE N == Append(nest, "gsave")
<1>4. /\ N \in Seq(Construct) /\ Len(N) = n + 1 /\ N[n + 1] = "gsave"
      /\ \A i \in 1..n : N[i] = nest[i]
  BY <1>2 DEF Stacks, Construct
<1> HIDE DEF N
<1>5. \A i \in 1..(k - 2) : N[i] = ConstructOf(s[i + 2])
  BY <1>1, <1>3, <1>4 DEF Stacks, Structured
<1>6. ASSUME NEW i \in 1..(n + 1), i > k - 2
      PROVE  N[i] = "gsave"
  <2>1. i # n + 1 => i \in 1..n
    BY <1>2
  <2> QED
    BY <1>2, <1>3, <1>4, <1>6, <2>1 DEF Stacks, Structured
<1>7. s[(k - 2) + 2] \in DrawingScope /\ k - 2 > 0
  BY <1>1, <1>3
<1>8. Structured(s, N, level + 1)
  BY <1>3, <1>4, <1>5, <1>6, <1>7 DEF Structured
<1> QED
  BY <1>3, <1>4, <1>8 DEF Stacks, N

LEMMA LevelPopped ==
  ASSUME NEW s, NEW nest, NEW level, Stacks(s, nest, level), s[Len(s)] # "PATH",
         level > 0
  PROVE  /\ Stacks(s, SubSeq(nest, 1, Len(nest) - 1), level - 1)
         /\ nest # <<>> /\ nest[Len(nest)] = "gsave"
<1>1. PICK k \in Nat : k = Len(s)
  BY DEF Stacks
<1>2. PICK n \in Nat : n = Len(nest)
  BY DEF Stacks
<1>3. /\ k >= 2 /\ Frames(s) = k - 2 /\ n = k - 2 + level /\ level \in Nat
      /\ k - 2 > 0 /\ s[(k - 2) + 2] \in DrawingScope
  BY <1>1, <1>2 DEF Stacks, Structured, Frames
<1> DEFINE N == SubSeq(nest, 1, Len(nest) - 1)
<1>4. N \in Seq(Construct) /\ Len(N) = n - 1 /\ \A i \in 1..(n - 1) : N[i] = nest[i]
  <2>1. nest \in Seq(Construct) /\ n >= 1
    BY <1>3 DEF Stacks
  <2> QED
    BY <1>2, <2>1
<1> HIDE DEF N
<1>5. ASSUME NEW i \in 1..(k - 2)
      PROVE  N[i] = ConstructOf(s[i + 2])
  <2>1. i \in 1..(n - 1)
    BY <1>1, <1>2, <1>3
  <2> QED
    BY <1>3, <1>4, <2>1 DEF Stacks, Structured
<1>6. ASSUME NEW i \in 1..(n - 1), i > k - 2
      PROVE  N[i] = "gsave"
  BY <1>2, <1>3, <1>4, <1>6 DEF Stacks, Structured
<1>7. nest # <<>> /\ nest[n] = "gsave"
  <2>1. n \in 1..n /\ n > k - 2
    BY <1>2, <1>3
  <2> QED
    BY <1>2, <1>3, <2>1 DEF Stacks, Structured
<1>8. Structured(s, N, level - 1)
  BY <1>1, <1>3, <1>4, <1>5, <1>6 DEF Structured
<1> QED
  BY <1>2, <1>3, <1>4, <1>7, <1>8 DEF Stacks, N

\* A path changes neither the constructs nor the levels.
LEMMA PathPushed ==
  ASSUME NEW s, NEW nest, NEW level, Stacks(s, nest, level), s[Len(s)] # "PATH",
         Len(s) >= 3
  PROVE  Stacks(Append(s, "PATH"), nest, level)
<1>1. PICK k \in Nat : k = Len(s)
  BY DEF Stacks
<1> DEFINE S == Append(s, "PATH")
<1>2. k >= 3 /\ Frames(s) = k - 2
  BY <1>1 DEF Frames
<1>3. /\ S \in Seq(Scope) /\ Len(S) = k + 1 /\ S[k + 1] = "PATH"
      /\ \A i \in 1..k : S[i] = s[i]
  BY <1>1 DEF Stacks, Scope
<1> HIDE DEF S
<1>4. Frames(S) = k - 2
  BY <1>1, <1>3 DEF Frames
<1>5. ASSUME NEW i \in 1..(k - 2)
      PROVE  S[i + 2] = s[i + 2]
  BY <1>1, <1>3
<1>6. k - 2 \in 1..(k - 2)
  BY <1>1, <1>2
<1>7. Structured(S, nest, level)
  BY <1>2, <1>4, <1>5, <1>6 DEF Stacks, Structured
<1> QED
  BY <1>1, <1>2, <1>3, <1>7 DEF Stacks, S

LEMMA PathPopped ==
  ASSUME NEW s, NEW nest, NEW level, Stacks(s, nest, level), s[Len(s)] = "PATH",
         Len(s) >= 4, s[Len(s) - 1] # "PATH"
  PROVE  Stacks(SubSeq(s, 1, Len(s) - 1), nest, level)
<1>1. PICK k \in Nat : k = Len(s)
  BY DEF Stacks
<1> DEFINE S == SubSeq(s, 1, Len(s) - 1)
<1>2. k >= 4 /\ Frames(s) = k - 3
  BY <1>1 DEF Frames
<1>3. S \in Seq(Scope) /\ Len(S) = k - 1 /\ \A i \in 1..(k - 1) : S[i] = s[i]
  BY <1>1, <1>2 DEF Stacks
<1> HIDE DEF S
<1>4. Frames(S) = k - 3
  <2>1. S[k - 1] = s[k - 1]
    BY <1>2, <1>3
  <2> QED
    BY <1>1, <1>3, <2>1 DEF Frames
<1>5. ASSUME NEW i \in 1..(k - 3)
      PROVE  S[i + 2] = s[i + 2]
  BY <1>1, <1>3
<1>6. k - 3 \in 1..(k - 3)
  BY <1>1, <1>2
<1>7. Structured(S, nest, level)
  BY <1>2, <1>4, <1>5, <1>6 DEF Stacks, Structured
<1> QED
  BY <1>1, <1>2, <1>3, <1>7 DEF Stacks, S

----------------------------------------------------------------------------
(* What is known of an open document.                                      *)

LEMMA SteadyIsStable ==
  ASSUME MaxScopes >= 6, "page_between" \in ClientRules
  PROVE  Stable(SteadyDocs)
<1>0. MaxScopes >= 3
  BY MaxScopesAssumption
<1>1. ASSUME NEW d \in SteadyDocs
      PROVE  /\ d \in GoodDocs /\ Good(d) /\ d \in WritableDocs
             /\ d \in DeepDocs(1) /\ d \in PageDocs /\ d \in PrologDocs
  BY DEF SteadyDocs, GoodDocs, WritableDocs, DeepDocs, PageDocs, PrologDocs
<1>2. ASSUME NEW d \in SteadyDocs, NEW e \in PSDoc, Step(d, e)
      PROVE  e \in SteadyDocs
  <2>1. e \in WritableDocs
    BY <1>1, <1>2, WritableIsStable DEF Stable
  <2>2. e \in DeepDocs(1)
    BY <1>1, <1>2, DeepIsStable DEF Stable
  <2>3. e \in PageDocs
    BY <1>0, <1>1, <1>2, PageIsStable DEF Stable
  <2>4. e \in PrologDocs
    BY <1>0, <1>1, <1>2, PrologIsStable DEF Stable
  <2> QED
    BY <2>1, <2>2, <2>3, <2>4 DEF SteadyDocs, WritableDocs, DeepDocs, PageDocs, PrologDocs
<1> QED
  BY <1>1, <1>2 DEF Stable

\* A scope is always entered where there is room for it.
LEMMA RoomToEnter ==
  ASSUME MaxScopes >= 6, NEW d \in SteadyDocs, NEW s \in Inner, ps_current_scope(d) \in Below(s)
  PROVE  Len(d.scopes) # MaxScopes
<1>1. Good(d) /\ Deep(d, 1) /\ d.life # "crashed"
  BY DEF SteadyDocs, GoodDocs, Writable
<1>2. PICK k \in Nat : k = Len(d.scopes) /\ k \in 1..k
  BY <1>1 DEF Good, PSDoc
<1>3. k + Slack(ps_current_scope(d)) <= Depth(d, 1)
  BY <1>1, <1>2 DEF Deep, ps_current_scope
<1>4. Depth(d, 1) <= 6
  BY DEF Depth
<1>5. ps_current_scope(d) \in Scope /\ s \in Scope
  BY <1>1, Current DEF Inner
<1>6. /\ Slack(ps_current_scope(d)) \in Nat /\ Slack(s) \in Nat
      /\ Slack(s) + 1 <= Slack(ps_current_scope(d))
  BY <1>5, SlackBelow
<1>7. Depth(d, 1) \in Nat
  BY DEF Depth
<1>8. k <= 5
  BY <1>2, <1>3, <1>4, <1>6, <1>7
<1> QED
  BY <1>2, <1>8, MaxScopesAssumption

LEMMA ReadyStacks ==
  ASSUME NEW d, Ready(d)
  PROVE  /\ Stacks(d.scopes, d.nest, d.agstate)
         /\ Good(d) /\ d \in PSDoc /\ HasSink(d)
         /\ ps_current_scope(d) \in Scope \ {"OBJECT"}
<1>1. /\ Good(d) /\ d \in PSDoc /\ HasSink(d) /\ Writable(d) /\ Len(d.scopes) >= 2
      /\ OneDocument(d)
  BY DEF Ready, SteadyDocs, GoodDocs, Writable, PageAgrees
<1>2. /\ d.scopes \in Seq(Scope) /\ d.nest \in Seq(Construct) /\ d.agstate \in Nat
  BY <1>1, MaxGStateAssumption DEF PSDoc
<1>3. ps_current_scope(d) \in Scope
  BY <1>1, Current
<1>4. ps_current_scope(d) # "OBJECT"
  <2>1. ASSUME NEW n \in Nat, n >= 2
        PROVE  n # 1
    BY <2>1
  <2>2. Len(d.scopes) \in Nat
    BY <1>2
  <2>3. Len(d.scopes) # 1
    BY <1>1, <2>1, <2>2
  <2> QED
    BY <1>1, <2>3, OneDocumentTop
<1> QED
  BY <1>1, <1>2, <1>3, <1>4 DEF Ready, Stacks

\* Nothing is saved but on a canvas.
LEMMA LevelOfScope ==
  ASSUME NEW d, Ready(d), ps_current_scope(d) \notin DrawingScope \cup {"PATH"}
  PROVE  d.agstate = 0
<1>1. PICK k \in Nat : k = Len(d.scopes) /\ k >= 2
  BY ReadyStacks DEF Stacks
<1>2. Frames(d.scopes) = k - 2
  BY <1>1 DEF Frames, ps_current_scope
<1>3. (k - 2) + 2 = k
  BY <1>1
<1>4. ~(d.agstate > 0)
  <2> SUFFICES ASSUME d.agstate > 0
               PROVE  FALSE
    OBVIOUS
  <2>1. d.scopes[(k - 2) + 2] \in DrawingScope
    BY <1>2 DEF Ready, Structured
  <2> QED
    BY <1>1, <1>3, <2>1 DEF ps_current_scope
<1> QED
  BY <1>4, ReadyStacks DEF Stacks

LEMMA AtDocument ==
  ASSUME NEW d, Ready(d), ps_current_scope(d) = "DOCUMENT"
  PROVE  Len(d.scopes) = 2 /\ d.nest = <<>> /\ d.agstate = 0
<1>1. Len(d.scopes) = 2
  BY OneDocumentTop, ReadyStacks DEF Ready, SteadyDocs, PageAgrees
<1>2. d.agstate = 0
  BY LevelOfScope DEF DrawingScope
<1>3. Frames(d.scopes) = 0
  BY <1>1 DEF Frames, ps_current_scope
<1>4. Len(d.nest) = 0
  BY <1>2, <1>3 DEF Ready, Structured
<1> QED
  BY <1>1, <1>2, <1>4, ReadyStacks DEF Stacks

\* The scopes that lie directly above the document.
LEMMA AboveDocument ==
  ASSUME NEW d, Ready(d), ps_current_scope(d) \in {"PROLOG", "PAGE"}
  PROVE  /\ Len(d.scopes) = 3 /\ d.scopes[3] = ps_current_scope(d)
         /\ d.agstate = 0 => d.nest = <<ConstructOf(ps_current_scope(d))>>
<1>1. PICK k \in Nat : k = Len(d.scopes) /\ k \in 1..k
  BY ReadyStacks DEF Good, PSDoc
<1>2. d.scopes[k] \in {"PROLOG", "PAGE"}
  BY <1>1 DEF ps_current_scope
<1>3. d.scopes[2] = "DOCUMENT" /\ OneDocument(d) /\ Good(d)
  BY ReadyStacks DEF Ready, SteadyDocs, Writable, PageAgrees
<1>4. k = 3
  BY <1>1, <1>2, <1>3, Places
<1>5. ASSUME d.agstate = 0
      PROVE  d.nest = <<ConstructOf(ps_current_scope(d))>>
  <2>1. Frames(d.scopes) = 1
    BY <1>1, <1>2, <1>4 DEF Frames
  <2>2. Len(d.nest) = 1 /\ d.nest[1] = ConstructOf(d.scopes[1 + 2])
    BY <1>5, <2>1 DEF Ready, Structured
  <2>3. d.nest[1] = ConstructOf(ps_current_scope(d))
    BY <1>1, <1>4, <2>2 DEF ps_current_scope
  <2>4. d.nest \in Seq(Construct)
    BY ReadyStacks DEF Stacks
  <2> QED
    BY <2>2, <2>3, <2>4
<1> QED
  BY <1>1, <1>4, <1>5 DEF ps_current_scope

\* What is open in the output is never taken for what has no structure.
LEMMA NotGarbled ==
  ASSUME NEW d, Ready(d)
  PROVE  d.nest # Garbled
<1> SUFFICES ASSUME d.nest = Garbled
             PROVE  FALSE
  OBVIOUS
<1>1. Len(d.nest) = 1 /\ d.nest[1] = "stray"
  BY DEF Garbled
<1>2. PICK k \in Nat : k = Len(d.scopes) /\ k >= 2
  BY ReadyStacks DEF Stacks
<1>3. Frames(d.scopes) \in {k - 2, k - 3} /\ d.agstate \in Nat
  BY <1>2, ReadyStacks DEF Frames, Stacks
<1>4. Frames(d.scopes) > 0
  <2> SUFFICES ASSUME ~(Frames(d.scopes) > 0)
               PROVE  FALSE
    OBVIOUS
  <2>1. \A i \in 1..Len(d.nest) : i > Frames(d.scopes) => d.nest[i] = "gsave"
    BY DEF Ready, Structured
  <2>2. 1 \in 1..1 /\ 1 > Frames(d.scopes)
    BY <1>2, <1>3
  <2> QED
    BY <1>1, <2>1, <2>2
<1>5. 1 \in 1..Frames(d.scopes) /\ k >= 3
  BY <1>2, <1>3, <1>4
<1>6. ConstructOf(d.scopes[1 + 2]) = "stray"
  BY <1>1, <1>5 DEF Ready, Structured
<1>7. d.scopes[3] \in {"OBJECT", "DOCUMENT", "PATH"}
  <2>1. d.scopes[3] \in Scope
    BY <1>2, <1>5, ReadyStacks DEF Stacks
  <2> QED
    BY <1>6, <2>1 DEF ConstructOf, Scope
<1>8. 3 \in 2..k /\ 3 \in 3..k /\ 3 \in 1..k
  BY <1>2, <1>5
<1>9. d.scopes[3 - 1] \in Below(d.scopes[3]) /\ d.scopes[2] = "DOCUMENT" /\ d.scopes[3] # "DOCUMENT"
  BY <1>2, <1>8, ReadyStacks DEF Good, Nested, Ready, SteadyDocs, Writable
<1> QED
  BY <1>7, <1>9 DEF Below, DrawingScope

\* Before the prolog nothing has happened.
LEMMA BeforeProlog ==
  ASSUME NEW d, Ready(d), ~d.beginprologwritten
  PROVE  ps_current_scope(d) = "DOCUMENT" /\ d.phase = "empty" /\ ~d.endprologwritten
<1>1. ps_current_scope(d) = "DOCUMENT"
  BY ReadyStacks, Current
<1> QED
  BY <1>1 DEF Ready, Phased

----------------------------------------------------------------------------
(* What the functions of the library do to an output that is there.        *)

\* What stays when scopes or constructs come and go.
Fixed(d, e) ==
  /\ e \in PSDoc
  /\ e.phase = d.phase /\ e.page = d.page /\ e.agstate = d.agstate
  /\ e.beginprologwritten = d.beginprologwritten
  /\ e.endprologwritten = d.endprologwritten /\ e.headerwritten = d.headerwritten
  /\ e.writeproc = d.writeproc /\ e.fp = d.fp

\* Documents the reader of the output cannot tell apart.
Alike(d, e) == Fixed(d, e) /\ e.scopes = d.scopes /\ e.nest = d.nest

LEMMA OpeningIs ==
  ASSUME NEW d \in PSDoc, HasSink(d), d.nest # Garbled, NEW c \in Construct
  PROVE  LET e == Opening(d, c)
         IN  Fixed(d, e) /\ e.scopes = d.scopes /\ e.nest = Append(d.nest, c)
<1>1. Append(d.nest, c) \in Seq(Construct)
  BY DEF PSDoc
<1>2. Opening(d, c) = [d EXCEPT !.nest = Append(d.nest, c)]
  BY DEF Opening, ps_printf
<1> QED
  BY <1>1, <1>2 DEF Fixed, PSDoc

LEMMA ClosingIs ==
  ASSUME NEW d \in PSDoc, HasSink(d), d.nest # <<>>, NEW c, d.nest[Len(d.nest)] = c
  PROVE  LET e == Closing(d, c)
         IN  /\ Fixed(d, e) /\ e.scopes = d.scopes
             /\ e.nest = SubSeq(d.nest, 1, Len(d.nest) - 1)
<1> DEFINE n == SubSeq(d.nest, 1, Len(d.nest) - 1)
<1>1. n \in Seq(Construct)
  BY DEF PSDoc
<1>2. Closing(d, c) = [d EXCEPT !.nest = n]
  BY DEF Closing, ps_printf, Innermost
<1> HIDE DEF n
<1>3. Fixed(d, Closing(d, c)) /\ Closing(d, c).scopes = d.scopes /\ Closing(d, c).nest = n
  BY <1>1, <1>2 DEF Fixed, PSDoc
<1> QED
  BY <1>3 DEF n

LEMMA EnterIs ==
  ASSUME NEW d \in PSDoc, Len(d.scopes) # MaxScopes, NEW s \in Scope
  PROVE  LET e == ps_enter_scope(d, s)
         IN  Fixed(d, e) /\ e.nest = d.nest /\ e.scopes = Append(d.scopes, s)
<1>1. Append(d.scopes, s) \in Seq(Scope)
  BY DEF PSDoc
<1>2. ps_enter_scope(d, s) = [d EXCEPT !.scopes = Append(d.scopes, s)]
  BY DEF ps_enter_scope
<1> QED
  BY <1>1, <1>2 DEF Fixed, PSDoc

LEMMA LeaveIs ==
  ASSUME NEW d \in PSDoc, Len(d.scopes) >= 1, NEW s, ps_current_scope(d) = s
  PROVE  LET e == ps_leave_scope(d, s)
         IN  /\ Fixed(d, e) /\ e.nest = d.nest
             /\ e.scopes = SubSeq(d.scopes, 1, Len(d.scopes) - 1)
<1> DEFINE S == SubSeq(d.scopes, 1, Len(d.scopes) - 1)
<1>1. S \in Seq(Scope)
  BY DEF PSDoc
<1>2. ps_leave_scope(d, s) = [d EXCEPT !.scopes = S]
  BY DEF ps_leave_scope
<1> HIDE DEF S
<1>3. /\ Fixed(d, ps_leave_scope(d, s)) /\ ps_leave_scope(d, s).nest = d.nest
      /\ ps_leave_scope(d, s).scopes = S
  BY <1>1, <1>2 DEF Fixed, PSDoc
<1> QED
  BY <1>3 DEF S

\* A part of the header that opens nothing leaves the document alike.
LEMMA PartsAlike ==
  ASSUME NEW d \in PSDoc, HasSink(d)
  PROVE  /\ ps_printf(d, d.nest) = d
         /\ Alike(d, ps_write_ps_comments(d)) /\ Alike(d, ps_write_ps_setup(d))
         /\ Alike(d, [d EXCEPT !.images = TRUE])
<1>1. ps_printf(d, d.nest) = d
  BY DEF ps_printf, PSDoc
<1>2. /\ Alike(d, [d EXCEPT !.commentswritten = TRUE])
      /\ Alike(d, [d EXCEPT !.setupwritten = TRUE])
      /\ Alike(d, [d EXCEPT !.images = TRUE])
  BY DEF Alike, Fixed, PSDoc
<1> QED
  BY <1>1, <1>2 DEF ps_write_ps_comments, ps_write_ps_setup

LEMMA AlikeIsReady ==
  ASSUME NEW d, Ready(d), NEW e \in SteadyDocs, Alike(d, e)
  PROVE  Ready(e)
  BY DEF Ready, Alike, Fixed, Phased

\* A document whose stacks are right is ready if it has come as far.
LEMMA StacksAreReady ==
  ASSUME NEW d, Ready(d), NEW e \in SteadyDocs, Fixed(d, e), Stacks(e.scopes, e.nest, e.agstate)
  PROVE  Ready(e)
  BY DEF Ready, Fixed, Phased, Stacks

----------------------------------------------------------------------------
(* The header.                                                             *)

\* A program that keeps all rules, and a stack that has room for what a
\* document opened once needs.
Orderly == MaxScopes >= 6 /\ AllRules \subseteq ClientRules

LEMMA SteadyCalls ==
  ASSUME Orderly
  PROVE  Stable(SteadyDocs)
  BY SteadyIsStable DEF Orderly, AllRules

LEMMA CommentsReady ==
  ASSUME Orderly, NEW d, Ready(d)
  PROVE  /\ Ready(ps_write_ps_comments(d)) /\ Alike(d, ps_write_ps_comments(d))
         /\ Alike(d, ps_write_ps_setup(d))
<1>1. Alike(d, ps_write_ps_comments(d)) /\ Alike(d, ps_write_ps_setup(d))
  BY ReadyStacks, PartsAlike
<1>2. Writes(d, ps_write_ps_comments(d)) /\ d \in SteadyDocs
  BY ReadyStacks, HeaderParts DEF Ready
<1>3. ps_write_ps_comments(d) \in SteadyDocs
  BY <1>2, SteadyCalls, WritesStays
<1> QED
  BY <1>1, <1>3, AlikeIsReady

\* Inside the prolog, with nothing in it open.
AtProlog(d) ==
  /\ ps_current_scope(d) = "PROLOG" /\ Len(d.scopes) = 3
  /\ d.phase = "prolog" /\ d.nest = <<"prolog">> /\ d.agstate = 0
  /\ d.beginprologwritten /\ ~d.endprologwritten

LEMMA InProlog ==
  ASSUME NEW d, Ready(d), ps_current_scope(d) = "PROLOG"
  PROVE  AtProlog(d)
<1>1. PICK k \in Nat : k = Len(d.scopes) /\ k \in 1..k
  BY ReadyStacks DEF Good, PSDoc
<1>2. Has(d, "PROLOG")
  BY <1>1 DEF Has, ps_current_scope
<1>3. d.beginprologwritten /\ ~d.endprologwritten /\ d.phase = "prolog"
  BY <1>2 DEF Ready, SteadyDocs, PrologAgrees, Phased
<1>4. d.agstate = 0
  BY LevelOfScope DEF DrawingScope
<1>5. Len(d.scopes) = 3 /\ d.nest = <<ConstructOf("PROLOG")>>
  BY <1>4, AboveDocument
<1>6. ConstructOf("PROLOG") = "prolog"
  BY DEF ConstructOf
<1> QED
  BY <1>3, <1>4, <1>5, <1>6 DEF AtProlog

LEMMA PrologBegins ==
  ASSUME Orderly, NEW d, Ready(d), ~d.beginprologwritten
  PROVE  LET e == ps_write_ps_beginprolog(d)
         IN  Ready(e) /\ AtProlog(e) /\ e.page = d.page /\ ~e.headerwritten
<1> DEFINE x == ps_enter_scope(d, "PROLOG")
           o == Opening(x, "prolog")
           e == [o EXCEPT !.beginprologwritten = TRUE, !.phase = "prolog"]
<1>1. /\ Stacks(d.scopes, d.nest, d.agstate) /\ d \in PSDoc /\ HasSink(d)
      /\ "PROLOG" \in Scope /\ "prolog" \in Construct
  BY ReadyStacks DEF Scope, Construct
<1>2. /\ Len(d.scopes) = 2 /\ d.nest = <<>> /\ d.agstate = 0
      /\ ps_current_scope(d) = "DOCUMENT" /\ ~d.endprologwritten /\ ~d.headerwritten
  BY BeforeProlog, AtDocument DEF Ready, Phased
<1>3. Len(d.scopes) # MaxScopes
  BY <1>2, MaxScopesAssumption DEF Orderly
<1>4. Fixed(d, x) /\ x.nest = d.nest /\ x.scopes = Append(d.scopes, "PROLOG")
  BY <1>1, <1>3, EnterIs
<1> HIDE DEF x
<1>5. x.nest # Garbled /\ HasSink(x) /\ x \in PSDoc
  BY <1>1, <1>2, <1>4 DEF Garbled, Fixed, HasSink
<1>6. Fixed(x, o) /\ o.scopes = x.scopes /\ o.nest = Append(x.nest, "prolog")
  BY <1>1, <1>5, OpeningIs
<1> HIDE DEF o
<1>7. /\ e.scopes = o.scopes /\ e.nest = o.nest /\ e.agstate = o.agstate
      /\ e.page = o.page /\ e.phase = "prolog" /\ e.beginprologwritten
      /\ e.endprologwritten = o.endprologwritten /\ e.headerwritten = o.headerwritten
  BY <1>6 DEF Fixed, PSDoc
<1>8. e = ps_write_ps_beginprolog(d)
  BY DEF ps_write_ps_beginprolog, o, x
<1>9. e \in SteadyDocs
  BY <1>8, SteadyCalls, BeginProlog DEF Ready
<1> HIDE DEF e
<1>10. /\ e.scopes = Append(d.scopes, "PROLOG") /\ e.nest = Append(d.nest, "prolog")
       /\ e.agstate = 0 /\ e.page = d.page
       /\ ~e.endprologwritten /\ ~e.headerwritten
  BY <1>2, <1>4, <1>6, <1>7 DEF Fixed
<1>11. Stacks(e.scopes, e.nest, e.agstate)
  <2>1. "prolog" = ConstructOf("PROLOG") /\ d.scopes[Len(d.scopes)] # "PATH"
    BY <1>2 DEF ConstructOf, ps_current_scope
  <2> QED
    BY <1>1, <1>2, <1>10, <2>1, ConstructPushed
<1>12. Ready(e)
  BY <1>7, <1>9, <1>10, <1>11 DEF Ready, Phased, Stacks
<1>13. ps_current_scope(e) = "PROLOG"
  <2>1. d.scopes \in Seq(Scope)
    BY <1>1 DEF PSDoc
  <2> QED
    BY <1>10, <2>1 DEF ps_current_scope
<1>14. AtProlog(e)
  BY <1>12, <1>13, InProlog
<1> QED
  BY <1>2, <1>8, <1>10, <1>12, <1>14

LEMMA PrologEnds ==
  ASSUME NEW d, Ready(d), AtProlog(d)
  PROVE  LET e == ps_write_ps_endprolog(d)
         IN  /\ e \in PSDoc /\ HasSink(e)
             /\ Len(e.scopes) = 2 /\ ps_current_scope(e) = "DOCUMENT"
             /\ e.nest = <<>> /\ e.agstate = 0 /\ e.page = d.page
             /\ e.beginprologwritten /\ e.endprologwritten
<1> DEFINE c == Closing(d, "prolog")
           l == ps_leave_scope(c, "PROLOG")
           e == [l EXCEPT !.endprologwritten = TRUE]
<1>1. d \in PSDoc /\ HasSink(d) /\ d.scopes \in Seq(Scope)
  BY ReadyStacks DEF Stacks
<1>2. /\ d.nest # <<>> /\ d.nest[Len(d.nest)] = "prolog"
      /\ SubSeq(d.nest, 1, Len(d.nest) - 1) = <<>>
  <2> DEFINE n == <<"prolog">>
  <2>1. n # <<>> /\ n[Len(n)] = "prolog" /\ Len(n) = 1
    OBVIOUS
  <2>2. SubSeq(n, 1, Len(n) - 1) = <<>>
    <3>1. n \in Seq({"prolog"}) /\ Len(n) - 1 = 0
      OBVIOUS
    <3> HIDE DEF n
    <3>2. SubSeq(n, 1, 0) = <<>>
      BY <3>1
    <3> QED
      BY <3>1, <3>2
  <2> QED
    BY <2>1, <2>2 DEF AtProlog
<1>3. Fixed(d, c) /\ c.scopes = d.scopes /\ c.nest = <<>>
  BY <1>1, <1>2, ClosingIs
<1> HIDE DEF c
<1>4. ps_current_scope(c) = "PROLOG" /\ c \in PSDoc /\ Len(c.scopes) = 3
  BY <1>3 DEF AtProlog, Fixed, ps_current_scope
<1>4a. Len(c.scopes) >= 1
  BY <1>4
<1>5. Fixed(c, l) /\ l.nest = c.nest /\ l.scopes = SubSeq(c.scopes, 1, Len(c.scopes) - 1)
  BY <1>4, <1>4a, LeaveIs
<1> HIDE DEF l
<1>6. /\ e \in PSDoc /\ e.scopes = l.scopes /\ e.nest = l.nest /\ e.agstate = l.agstate
      /\ e.page = l.page /\ e.writeproc = l.writeproc /\ e.fp = l.fp
      /\ e.beginprologwritten = l.beginprologwritten /\ e.endprologwritten
  BY <1>5 DEF Fixed, PSDoc
<1>7. e = ps_write_ps_endprolog(d)
  BY DEF ps_write_ps_endprolog, l, c
<1> HIDE DEF e
<1>8. e.scopes = SubSeq(d.scopes, 1, 2)
  BY <1>3, <1>4, <1>5, <1>6
<1>9. Len(e.scopes) = 2 /\ e.scopes[2] = d.scopes[2]
  <2>1. Len(d.scopes) = 3
    BY DEF AtProlog
  <2> QED
    BY <1>1, <1>8, <2>1
<1>10. d.scopes[2] = "DOCUMENT"
  BY DEF Ready, SteadyDocs, Writable
<1>11. HasSink(e)
  BY <1>1, <1>3, <1>5, <1>6 DEF HasSink, Fixed
<1> QED
  BY <1>3, <1>5, <1>6, <1>7, <1>9, <1>10, <1>11 DEF Fixed, AtProlog, ps_current_scope

\* What the header comes before: nothing is open, or the prolog only.
BetweenAll(d) ==
  \/ d.phase = "empty" /\ d.nest = <<>>
  \/ d.phase = "prolog" /\ d.nest = <<"prolog">>
  \/ d.phase = "script" /\ d.nest = <<>>

LEMMA HeaderEnds ==
  ASSUME Orderly, NEW d, Ready(d), ps_current_scope(d) \in {"DOCUMENT", "PROLOG"}
  PROVE  LET h == ps_write_ps_header(d)
         IN  /\ BetweenAll(d)
             /\ h \in SteadyDocs
             /\ Len(h.scopes) = 2 /\ ps_current_scope(h) = "DOCUMENT"
             /\ h.nest = <<>> /\ h.agstate = 0 /\ h.page = d.page
             /\ h.beginprologwritten /\ h.endprologwritten /\ h.headerwritten
<1> DEFINE h == ps_write_ps_header(d)
<1>0. /\ d \in SteadyDocs /\ BetweenPages(d) /\ "page_between" \in ClientRules
      /\ d \in PSDoc /\ HasSink(d)
  BY ReadyStacks DEF Ready, BetweenPages, Keeps, ps_check_scope, Orderly, AllRules
<1>1. h \in SteadyDocs
  BY <1>0, SteadyCalls, Header
<1>2. CASE d.headerwritten
  <2>1. d.endprologwritten /\ d.beginprologwritten /\ d.phase = "script"
    BY <1>2 DEF Ready, Phased
  <2>2. ps_current_scope(d) = "DOCUMENT"
    BY <2>1, InProlog DEF AtProlog
  <2>3. h = d
    BY <1>2 DEF ps_write_ps_header
  <2>4. Len(d.scopes) = 2 /\ d.nest = <<>> /\ d.agstate = 0
    BY <2>2, AtDocument
  <2> QED
    BY <1>0, <1>2, <2>1, <2>2, <2>3, <2>4 DEF BetweenAll
<1>3. CASE ~d.headerwritten
  <2> DEFINE d1 == IF d.commentswritten THEN d ELSE ps_write_ps_comments(d)
             d2 == IF d1.beginprologwritten THEN d1 ELSE ps_write_ps_beginprolog(d1)
             d3 == IF d2.endprologwritten THEN d2 ELSE ps_write_ps_endprolog(d2)
             d4 == IF d3.setupwritten THEN d3 ELSE ps_write_ps_setup(d3)
             d5 == [d4 EXCEPT !.headerwritten = TRUE]
  <2>1. /\ Ready(d1) /\ d1.scopes = d.scopes /\ d1.nest = d.nest /\ d1.phase = d.phase
        /\ d1.page = d.page /\ d1.beginprologwritten = d.beginprologwritten
    BY CommentsReady DEF Alike, Fixed
  <2>2. ~d.endprologwritten
    BY <1>3 DEF Ready, Phased
  <2>3. h = d5
    BY <1>3 DEF ps_write_ps_header
  <2> HIDE DEF d1
  <2>4. Ready(d2) /\ AtProlog(d2) /\ d2.page = d.page /\ BetweenAll(d)
    <3>1. CASE d1.beginprologwritten
      <4>1. d2 = d1 /\ d.beginprologwritten
        BY <2>1, <3>1
      <4>2. ps_current_scope(d) = "PROLOG"
        <5>1. PICK k \in Nat : k = Len(d.scopes)
          BY ReadyStacks DEF Stacks
        <5>2. PICK i \in 1..k : d.scopes[i] = "PROLOG"
          BY <2>2, <4>1, <5>1 DEF Ready, SteadyDocs, PrologAgrees, Has
        <5>3. ps_current_scope(d) # "DOCUMENT"
          <6> SUFFICES ASSUME ps_current_scope(d) = "DOCUMENT"
                       PROVE  FALSE
            OBVIOUS
          <6>1. k = 2 /\ d.scopes[2] = "DOCUMENT" /\ d.scopes[1] = "OBJECT"
            BY <5>1, AtDocument, ReadyStacks DEF ps_current_scope, Good
          <6>2. i = 1 \/ i = 2
            BY <6>1
          <6> QED
            BY <5>2, <6>1, <6>2
        <5> QED
          BY <5>3
      <4>3. AtProlog(d)
        BY <4>2, InProlog
      <4>4. AtProlog(d1)
        BY <2>1, <4>2, InProlog DEF ps_current_scope
      <4> QED
        BY <2>1, <4>1, <4>3, <4>4 DEF BetweenAll, AtProlog
    <3>2. CASE ~d1.beginprologwritten
      <4>1. d2 = ps_write_ps_beginprolog(d1)
        BY <3>2
      <4>2. Ready(d2) /\ AtProlog(d2) /\ d2.page = d1.page
        BY <2>1, <3>2, <4>1, PrologBegins
      <4>3. d.phase = "empty" /\ d.nest = <<>>
        BY <2>1, <3>2, BeforeProlog, AtDocument
      <4> QED
        BY <2>1, <4>2, <4>3 DEF BetweenAll
    <3> QED
      BY <3>1, <3>2
  <2> HIDE DEF d2
  <2>5. d3 = ps_write_ps_endprolog(d2)
    BY <2>4 DEF AtProlog
  <2>6. /\ d3 \in PSDoc /\ HasSink(d3)
        /\ Len(d3.scopes) = 2 /\ ps_current_scope(d3) = "DOCUMENT"
        /\ d3.nest = <<>> /\ d3.agstate = 0 /\ d3.page = d2.page
        /\ d3.beginprologwritten /\ d3.endprologwritten
    BY <2>4, <2>5, PrologEnds
  <2> HIDE DEF d3
  <2>7. Alike(d3, ps_write_ps_setup(d3)) /\ Alike(d3, d3)
    BY <2>6, PartsAlike DEF Alike, Fixed
  <2>8. Alike(d3, d4)
    BY <2>7
  <2> HIDE DEF d4
  <2>9. /\ d5.scopes = d4.scopes /\ d5.nest = d4.nest /\ d5.agstate = d4.agstate
        /\ d5.page = d4.page /\ d5.headerwritten
        /\ d5.beginprologwritten = d4.beginprologwritten
        /\ d5.endprologwritten = d4.endprologwritten
    BY <2>8 DEF Alike, Fixed, PSDoc
  <2> HIDE DEF d5
  <2> QED
    BY <1>1, <2>3, <2>4, <2>6, <2>8, <2>9 DEF Alike, Fixed, ps_current_scope
<1> QED
  BY <1>1, <1>2, <1>3

----------------------------------------------------------------------------
(* What each call writes.                                                  *)

HasCanvas(d) == \E i \in 1..Len(d.scopes) : d.scopes[i] \in DrawingScope

\* A call on an open document returns an open document, and what it appends
\* to the output is one step of the abstract specification or none.
Continues == Ready(psdoc') /\ [DSC!Next]_(DSC!vars)

\* It neither saves nor restores, nor enters a canvas.
SameCanvas ==
  psdoc'.agstate = psdoc.agstate /\ (HasCanvas(psdoc') => HasCanvas(psdoc))

LEMMA CanvasPushed ==
  ASSUME NEW d \in PSDoc, NEW s \in Scope \ DrawingScope, NEW e,
         e.scopes = Append(d.scopes, s)
  PROVE  HasCanvas(e) => HasCanvas(d)
<1>1. PICK k \in Nat : k = Len(d.scopes)
  BY DEF PSDoc
<1>2. d.scopes \in Seq(Scope)
  BY DEF PSDoc
<1>3. /\ Len(e.scopes) = k + 1 /\ e.scopes[k + 1] = s
      /\ \A i \in 1..k : e.scopes[i] = d.scopes[i]
  BY <1>1, <1>2
<1> SUFFICES ASSUME NEW i \in 1..(k + 1), e.scopes[i] \in DrawingScope
             PROVE  HasCanvas(d)
  BY <1>3 DEF HasCanvas
<1>4. i # k + 1
  BY <1>3
<1>5. i \in 1..k
  BY <1>4
<1> QED
  BY <1>1, <1>3, <1>5 DEF HasCanvas

LEMMA CanvasPopped ==
  ASSUME NEW d \in PSDoc, Len(d.scopes) >= 1, NEW e,
         e.scopes = SubSeq(d.scopes, 1, Len(d.scopes) - 1)
  PROVE  HasCanvas(e) => HasCanvas(d)
<1>1. PICK k \in Nat : k = Len(d.scopes) /\ k >= 1
  BY DEF PSDoc
<1>2. d.scopes \in Seq(Scope)
  BY DEF PSDoc
<1>3. Len(e.scopes) = k - 1 /\ \A i \in 1..(k - 1) : e.scopes[i] = d.scopes[i]
  BY <1>1, <1>2
<1> SUFFICES ASSUME NEW i \in 1..(k - 1), e.scopes[i] \in DrawingScope
             PROVE  HasCanvas(d)
  BY <1>3 DEF HasCanvas
<1> QED
  BY <1>1, <1>3 DEF HasCanvas

LEMMA NothingWritten ==
  ASSUME Ready(psdoc), Ready(psdoc'), psdoc'.phase = psdoc.phase, psdoc'.nest = psdoc.nest,
         psdoc'.page = psdoc.page
  PROVE  Continues
  BY DEF Continues, DSC!vars

LEMMA NothingDone ==
  ASSUME Ready(psdoc), psdoc' = psdoc
  PROVE  Continues /\ SameCanvas
  BY NothingWritten DEF SameCanvas

\* A page begins; what part of the header is missing comes before it.
LEMMA PageBegins ==
  ASSUME Orderly, Ready(psdoc), ps_current_scope(psdoc) \in {"DOCUMENT", "PROLOG"},
         psdoc' = PS_begin_page(psdoc)
  PROVE  Continues /\ psdoc'.agstate = 0 /\ ps_current_scope(psdoc') = "PAGE"
<1> DEFINE h == ps_write_ps_header(psdoc)
           n == [h EXCEPT !.page = @ + 1, !.phase = "script"]
           p == Opening(n, "page")
           o == [p EXCEPT !.page_open = TRUE]
           e == ps_enter_scope(o, "PAGE")
<1>1. /\ BetweenAll(psdoc) /\ h \in SteadyDocs
      /\ Len(h.scopes) = 2 /\ ps_current_scope(h) = "DOCUMENT"
      /\ h.nest = <<>> /\ h.agstate = 0 /\ h.page = psdoc.page
      /\ h.beginprologwritten /\ h.endprologwritten /\ h.headerwritten
  BY HeaderEnds
<1>2. psdoc' = e
  BY <1>1 DEF PS_begin_page, ps_check_scope
<1>3. psdoc' \in SteadyDocs
  <2>1. BetweenPages(psdoc) /\ psdoc \in SteadyDocs
    BY DEF BetweenPages, Keeps, ps_check_scope, Ready
  <2> QED
    BY <2>1, SteadyCalls, PageBegun
<1> HIDE DEF h
<1>4. h \in PSDoc /\ HasSink(h) /\ h.scopes \in Seq(Scope) /\ h.page \in Nat
  BY <1>1 DEF SteadyDocs, GoodDocs, Writable, PSDoc
<1>5. /\ n \in PSDoc /\ HasSink(n) /\ n.nest = <<>> /\ n.scopes = h.scopes
      /\ n.agstate = 0 /\ n.page = h.page + 1 /\ n.phase = "script"
      /\ n.beginprologwritten /\ n.endprologwritten /\ n.headerwritten
  <2>1. "script" \in {"empty", "prolog", "script", "trailer"} /\ h.page + 1 \in Nat
    BY <1>4
  <2>2. /\ n \in PSDoc /\ n.nest = h.nest /\ n.scopes = h.scopes
        /\ n.agstate = h.agstate /\ n.page = h.page + 1 /\ n.phase = "script"
        /\ n.beginprologwritten = h.beginprologwritten
        /\ n.endprologwritten = h.endprologwritten /\ n.headerwritten = h.headerwritten
        /\ n.writeproc = h.writeproc /\ n.fp = h.fp
    BY <1>4, <2>1 DEF PSDoc
  <2> HIDE DEF n
  <2> QED
    BY <1>1, <1>4, <2>2 DEF HasSink
<1> HIDE DEF n
<1>6. Fixed(n, p) /\ p.scopes = n.scopes /\ p.nest = Append(n.nest, "page")
  <2>1. n.nest # Garbled /\ "page" \in Construct
    BY <1>5 DEF Garbled, Construct
  <2> QED
    BY <1>5, <2>1, OpeningIs
<1> HIDE DEF p
<1>7. Fixed(p, o) /\ o.scopes = p.scopes /\ o.nest = p.nest
  BY <1>6 DEF Fixed, PSDoc
<1> HIDE DEF o
<1>8. Len(o.scopes) # MaxScopes
  <2>1. Len(o.scopes) = 2
    BY <1>1, <1>5, <1>6, <1>7
  <2> QED
    BY <2>1, MaxScopesAssumption DEF Orderly
<1>9. Fixed(o, e) /\ e.nest = o.nest /\ e.scopes = Append(o.scopes, "PAGE")
  BY <1>7, <1>8, EnterIs DEF Fixed, Scope
<1> HIDE DEF e
<1>10. /\ e.nest = Append(<<>>, "page") /\ e.scopes = Append(h.scopes, "PAGE") /\ e.agstate = 0
       /\ e.page = psdoc.page + 1 /\ e.phase = "script"
       /\ e.beginprologwritten /\ e.endprologwritten /\ e.headerwritten
  BY <1>1, <1>5, <1>6, <1>7, <1>9 DEF Fixed
<1>11. e.nest = <<"page">>
  BY <1>10
<1>12. Stacks(h.scopes, <<>>, 0)
  <2>1. Frames(h.scopes) = 0
    BY <1>1 DEF Frames, ps_current_scope
  <2>2. <<>> \in Seq(Construct) /\ Len(<<>>) = 0
    OBVIOUS
  <2>3. Structured(h.scopes, <<>>, 0)
    BY <2>1, <2>2 DEF Structured
  <2>4. Len(h.scopes) >= 2
    BY <1>1
  <2> QED
    BY <1>4, <2>2, <2>3, <2>4 DEF Stacks
<1>13. Stacks(e.scopes, e.nest, 0)
  <2>1. /\ h.scopes[Len(h.scopes)] # "PATH" /\ ConstructOf("PAGE") = "page"
        /\ "PAGE" \in Scope /\ "page" \in Construct
    BY <1>1 DEF ps_current_scope, ConstructOf, Scope, Construct
  <2>2. Stacks(Append(h.scopes, "PAGE"), Append(<<>>, "page"), 0)
    BY <1>12, <2>1, ConstructPushed
  <2> QED
    BY <1>10, <2>2
<1>14. Ready(psdoc')
  BY <1>2, <1>3, <1>10, <1>13 DEF Ready, Phased, Stacks
<1>15. DSC!BeginPage
  BY <1>1, <1>2, <1>10, <1>11 DEF DSC!BeginPage, BetweenAll
<1>16. ps_current_scope(e) = "PAGE"
  BY <1>4, <1>10 DEF ps_current_scope
<1> QED
  BY <1>2, <1>10, <1>14, <1>15, <1>16 DEF Continues, DSC!Next

LEMMA PageEnds ==
  ASSUME Orderly, NEW d, Ready(d)
  PROVE  LET e == PS_end_page(d)
         IN  /\ Ready(e)
             /\ \/ e = d
                \/ /\ Fixed(d, e) /\ d.agstate = 0 /\ d.nest = <<"page">> /\ e.nest = <<>>
                   /\ ps_current_scope(e) = "DOCUMENT"
                   /\ e.scopes = SubSeq(d.scopes, 1, Len(d.scopes) - 1)
             /\ ps_current_scope(d) = "PAGE" /\ d.agstate = 0 => ps_current_scope(e) = "DOCUMENT"
<1>1. CASE ps_current_scope(d) # "PAGE" \/ d.agstate > 0
  <2>1. PS_end_page(d) = d
    BY <1>1 DEF PS_end_page, ps_check_scope
  <2>2. d.agstate \in Nat
    BY ReadyStacks DEF Stacks
  <2> QED
    BY <1>1, <2>1, <2>2
<1>2. CASE ps_current_scope(d) = "PAGE" /\ ~(d.agstate > 0)
  <2> DEFINE c == Closing(d, "page")
             o == [c EXCEPT !.page_open = FALSE]
             e == ps_leave_scope(o, "PAGE")
  <2>1. /\ d \in PSDoc /\ HasSink(d) /\ d.scopes \in Seq(Scope) /\ d.agstate \in Nat
        /\ Stacks(d.scopes, d.nest, d.agstate)
    BY ReadyStacks DEF Stacks
  <2>2. /\ Len(d.scopes) = 3 /\ d.agstate = 0 /\ d.nest = <<"page">>
    <3>1. d.agstate = 0
      BY <1>2, <2>1
    <3>2. ConstructOf("PAGE") = "page"
      BY DEF ConstructOf
    <3> QED
      BY <1>2, <3>1, <3>2, AboveDocument
  <2>3. d.nest # <<>> /\ d.nest[Len(d.nest)] = "page"
    BY <2>2
  <2>4. Fixed(d, c) /\ c.scopes = d.scopes /\ c.nest = SubSeq(d.nest, 1, Len(d.nest) - 1)
    BY <2>1, <2>3, ClosingIs
  <2> HIDE DEF c
  <2>5. Fixed(c, o) /\ o.scopes = c.scopes /\ o.nest = c.nest
    BY <2>4 DEF Fixed, PSDoc
  <2> HIDE DEF o
  <2>6. ps_current_scope(o) = "PAGE" /\ o \in PSDoc /\ Len(o.scopes) >= 1
    <3>1. Len(o.scopes) = 3
      BY <2>2, <2>4, <2>5
    <3> QED
      BY <1>2, <2>4, <2>5, <3>1 DEF ps_current_scope, Fixed
  <2>7. Fixed(o, e) /\ e.nest = o.nest /\ e.scopes = SubSeq(o.scopes, 1, Len(o.scopes) - 1)
    BY <2>6, LeaveIs
  <2>8. e = PS_end_page(d)
    BY <1>2 DEF PS_end_page, ps_check_scope, o, c
  <2> HIDE DEF e
  <2>9. e \in SteadyDocs
    BY <2>8, SteadyCalls, EndedPages DEF Ready
  <2>10. /\ Fixed(d, e) /\ e.nest = SubSeq(d.nest, 1, Len(d.nest) - 1)
         /\ e.scopes = SubSeq(d.scopes, 1, Len(d.scopes) - 1)
    BY <2>4, <2>5, <2>7 DEF Fixed
  <2>11. Len(e.scopes) = 2 /\ e.scopes[2] = d.scopes[2] /\ d.scopes[2] = "DOCUMENT"
    <3>1. Len(d.scopes) - 1 = 2
      BY <2>2
    <3>2. e.scopes = SubSeq(d.scopes, 1, 2)
      BY <2>10, <3>1
    <3>3. d.scopes[2] = "DOCUMENT"
      BY DEF Ready, SteadyDocs, Writable
    <3> QED
      BY <2>1, <2>2, <3>2, <3>3
  <2>12. Stacks(e.scopes, e.nest, e.agstate)
    <3>1. d.scopes[Len(d.scopes)] # "PATH" /\ d.scopes[Len(d.scopes) - 1] # "PATH"
      BY <1>2, <2>2, <2>11 DEF ps_current_scope
    <3>2. Stacks(d.scopes, d.nest, 0) /\ Len(d.scopes) >= 3 /\ e.agstate = 0
      BY <2>1, <2>2, <2>10 DEF Fixed
    <3> QED
      BY <2>10, <3>1, <3>2, ConstructPopped
  <2>13. Ready(e)
    BY <2>9, <2>10, <2>12, StacksAreReady
  <2>14. ps_current_scope(e) = "DOCUMENT"
    BY <2>11 DEF ps_current_scope
  <2>15. e.nest = <<>>
    BY <2>13, <2>14, AtDocument
  <2> QED
    BY <2>2, <2>8, <2>10, <2>13, <2>14, <2>15
<1> QED
  BY <1>1, <1>2

\* The prelude of a definition.
LEMMA Started ==
  ASSUME Orderly, NEW d, Ready(d)
  PROVE  LET p == PrologStarted(d)
         IN  /\ Ready(p) /\ p.page = d.page /\ p.agstate = d.agstate /\ p.beginprologwritten
             /\ d.beginprologwritten => p = d
             /\ ~d.beginprologwritten =>
                  AtProlog(p) /\ d.phase = "empty" /\ ps_current_scope(d) = "DOCUMENT"
             /\ HasCanvas(p) => HasCanvas(d)
<1>1. CASE d.beginprologwritten
  BY <1>1 DEF PrologStarted
<1>2. CASE ~d.beginprologwritten
  <2> DEFINE c == ps_write_ps_comments(d)
             p == ps_write_ps_beginprolog(c)
  <2>1. Ready(c) /\ Alike(d, c)
    BY CommentsReady
  <2> HIDE DEF c
  <2>2. ~c.beginprologwritten /\ c.page = d.page
    BY <1>2, <2>1 DEF Alike, Fixed
  <2>3. Ready(p) /\ AtProlog(p) /\ p.page = c.page
    BY <2>1, <2>2, PrologBegins
  <2>4. PrologStarted(d) = p
    BY <1>2 DEF PrologStarted, c
  <2> HIDE DEF p
  <2>5. d.phase = "empty" /\ ps_current_scope(d) = "DOCUMENT" /\ d.agstate = 0
    BY <1>2, BeforeProlog, AtDocument
  <2>6. ~HasCanvas(p)
    <3>1. Len(p.scopes) = 3 /\ p.scopes[3] = "PROLOG" /\ p.scopes[2] = "DOCUMENT"
          /\ p.scopes[1] = "OBJECT"
      BY <2>3, ReadyStacks DEF AtProlog, ps_current_scope, Ready, SteadyDocs, Writable, Good
    <3>2. \A i \in 1..3 : i = 1 \/ i = 2 \/ i = 3
      OBVIOUS
    <3> QED
      BY <3>1, <3>2 DEF HasCanvas, DrawingScope
  <2> QED
    BY <1>2, <2>2, <2>3, <2>4, <2>5, <2>6 DEF AtProlog
<1> QED
  BY <1>1, <1>2

\* A call that writes the prelude at most.
LEMMA PreludeWritten ==
  ASSUME Orderly, Ready(psdoc), NEW d, d \in {psdoc, PrologStarted(psdoc)},
         Ready(psdoc'), Alike(d, psdoc')
  PROVE  Continues /\ SameCanvas
<1> DEFINE p == PrologStarted(psdoc)
<1>1. /\ Ready(p) /\ p.page = psdoc.page /\ p.agstate = psdoc.agstate
      /\ psdoc.beginprologwritten => p = psdoc
      /\ ~psdoc.beginprologwritten => AtProlog(p) /\ psdoc.phase = "empty"
      /\ HasCanvas(p) => HasCanvas(psdoc)
  BY Started
<1> HIDE DEF p
<1>2. /\ psdoc'.scopes = d.scopes /\ psdoc'.nest = d.nest /\ psdoc'.phase = d.phase
      /\ psdoc'.page = d.page /\ psdoc'.agstate = d.agstate
  BY DEF Alike, Fixed
<1>3. CASE d = psdoc
  <2>1. Continues
    BY <1>2, <1>3, NothingWritten
  <2> QED
    BY <1>2, <1>3, <2>1 DEF SameCanvas, HasCanvas
<1>4. CASE d = p /\ d # psdoc
  <2>1. AtProlog(d) /\ psdoc.phase = "empty" /\ d.page = psdoc.page
    BY <1>1, <1>4
  <2>2. DSC!BeginProlog
    BY <1>2, <2>1 DEF DSC!BeginProlog, AtProlog
  <2>3. SameCanvas
    BY <1>1, <1>2, <1>4 DEF SameCanvas, HasCanvas
  <2> QED
    BY <2>2, <2>3 DEF Continues, DSC!Next
<1> QED
  BY <1>3, <1>4 DEF p

Defined == {"TEMPLATE", "PATTERN", "FONT"}

\* A definition is opened inside the prolog or between pages.
LEMMA DefinitionOpens ==
  ASSUME Orderly, NEW d, Ready(d), NEW s \in Defined,
         ps_current_scope(PrologStarted(d)) \in {"DOCUMENT", "PROLOG"}
  PROVE  LET p == PrologStarted(d)
             e == BeginDefinition(d, s, ConstructOf(s))
         IN  /\ Fixed(p, e) /\ p.agstate = 0
             /\ e.scopes = Append(p.scopes, s) /\ e.nest = Append(p.nest, ConstructOf(s))
             /\ Stacks(e.scopes, e.nest, 0)
             /\ p.phase \in {"prolog", "script"}
             /\ p.nest \in {<<>>, <<"prolog">>}
<1> DEFINE p == PrologStarted(d)
           c == ConstructOf(s)
           o == Opening(p, c)
           e == ps_enter_scope(o, s)
<1>1. /\ s \in Scope /\ s \in Inner /\ s # "PATH" /\ c \in Construct
      /\ Below(s) = {"DOCUMENT", "PROLOG"}
  BY DEF Defined, Scope, Inner, ConstructOf, Construct, Below
<1>2. Ready(p) /\ p.beginprologwritten
  BY Started
<1>3. ps_current_scope(p) \in {"DOCUMENT", "PROLOG"}
  OBVIOUS
<1>4. BeginDefinition(d, s, c) = e
  BY DEF BeginDefinition, ps_check_scope
<1> HIDE DEF p, c
<1>5. /\ Stacks(p.scopes, p.nest, p.agstate) /\ p \in PSDoc /\ HasSink(p)
      /\ p.nest # Garbled /\ p \in SteadyDocs
  BY <1>2, ReadyStacks, NotGarbled DEF Ready
<1>6. p.agstate = 0 /\ p.nest \in {<<>>, <<"prolog">>}
  BY <1>2, <1>3, AtDocument, InProlog DEF AtProlog
<1>7. Len(p.scopes) # MaxScopes
  BY <1>1, <1>3, <1>5, RoomToEnter DEF Orderly
<1>8. Fixed(p, o) /\ o.scopes = p.scopes /\ o.nest = Append(p.nest, c)
  BY <1>1, <1>5, OpeningIs
<1> HIDE DEF o
<1>9. Fixed(o, e) /\ e.nest = o.nest /\ e.scopes = Append(o.scopes, s)
  BY <1>1, <1>7, <1>8, EnterIs DEF Fixed
<1> HIDE DEF e
<1>10. Fixed(p, e) /\ e.scopes = Append(p.scopes, s) /\ e.nest = Append(p.nest, c)
  BY <1>8, <1>9 DEF Fixed
<1>11. Stacks(e.scopes, e.nest, 0)
  <2>1. p.scopes[Len(p.scopes)] # "PATH" /\ Stacks(p.scopes, p.nest, 0)
    BY <1>3, <1>5, <1>6 DEF ps_current_scope
  <2>2. Stacks(Append(p.scopes, s), Append(p.nest, c), 0)
    BY <1>1, <2>1, ConstructPushed DEF c
  <2> QED
    BY <1>10, <2>2
<1>12. p.phase \in {"prolog", "script"}
  BY <1>2 DEF Ready, Phased
<1> QED
  BY <1>4, <1>6, <1>10, <1>11, <1>12 DEF p, c

\* What the call that begins a definition does: t is what BeginDefinition
\* leaves, where PS_begin_template registers the image.
LEMMA DefinitionBegins ==
  ASSUME Orderly, Ready(psdoc), NEW s \in Defined,
         NEW t, t = BeginDefinition(psdoc, s, ConstructOf(s)),
         psdoc' \in SteadyDocs, Alike(t, psdoc')
  PROVE  /\ Continues
         /\ \/ SameCanvas /\ ps_current_scope(psdoc') = ps_current_scope(PrologStarted(psdoc))
            \/ /\ psdoc'.agstate = 0 /\ ps_current_scope(psdoc') = s
               /\ ps_current_scope(psdoc) # s
               /\ s \notin DrawingScope => SameCanvas
<1> DEFINE p == PrologStarted(psdoc)
           c == ConstructOf(s)
<1>1. /\ Ready(p) /\ p.page = psdoc.page /\ p.beginprologwritten
      /\ p.agstate = psdoc.agstate /\ (HasCanvas(p) => HasCanvas(psdoc))
      /\ psdoc.beginprologwritten => p = psdoc
      /\ ~psdoc.beginprologwritten =>
           AtProlog(p) /\ psdoc.phase = "empty" /\ ps_current_scope(psdoc) = "DOCUMENT"
  BY Started
<1>2. CASE ps_current_scope(p) \notin {"DOCUMENT", "PROLOG"}
  <2>1. t = p
    BY <1>2 DEF BeginDefinition, ps_check_scope
  <2>2. Ready(psdoc')
    BY <1>1, <2>1, AlikeIsReady
  <2>3. Continues /\ SameCanvas
    BY <2>1, <2>2, PreludeWritten
  <2> QED
    BY <2>1, <2>3 DEF Alike, ps_current_scope
<1>3. CASE ps_current_scope(p) \in {"DOCUMENT", "PROLOG"}
  <2>1. /\ Fixed(p, t) /\ p.agstate = 0
        /\ t.scopes = Append(p.scopes, s) /\ t.nest = Append(p.nest, c)
        /\ Stacks(t.scopes, t.nest, 0)
        /\ p.phase \in {"prolog", "script"}
        /\ p.nest \in {<<>>, <<"prolog">>}
    BY <1>3, DefinitionOpens
  <2>2. /\ Fixed(p, psdoc') /\ psdoc'.agstate = 0 /\ psdoc'.nest = Append(p.nest, c)
        /\ psdoc'.scopes = Append(p.scopes, s) /\ Stacks(psdoc'.scopes, psdoc'.nest, psdoc'.agstate)
    BY <2>1 DEF Alike, Fixed
  <2>3. Ready(psdoc')
    BY <1>1, <2>2, StacksAreReady
  <2>4. ps_current_scope(psdoc') = s
    <3>1. p.scopes \in Seq(Scope)
      BY <1>1, ReadyStacks DEF Stacks
    <3> QED
      BY <2>2, <3>1 DEF ps_current_scope
  <2>5. ps_current_scope(psdoc) # s
    BY <1>1, <1>3 DEF Defined
  <2>5a. ASSUME s \notin DrawingScope
         PROVE  SameCanvas
    <3>1. s \in Scope \ DrawingScope /\ p \in PSDoc
      BY <1>1, <2>5a, ReadyStacks DEF Defined, Scope
    <3>2. HasCanvas(psdoc') => HasCanvas(p)
      BY <2>2, <3>1, CanvasPushed
    <3> QED
      BY <1>1, <2>1, <2>2, <3>2 DEF SameCanvas
  <2>6. c \in DSC!Definition
    BY DEF c, ConstructOf, Defined, DSC!Definition
  <2> HIDE DEF p, c
  <2>7. psdoc'.phase = p.phase /\ psdoc'.page = psdoc.page
    BY <1>1, <2>2 DEF Fixed
  <2>8. CASE psdoc.beginprologwritten
    <3>1. p = psdoc
      BY <1>1, <2>8
    <3>2. DSC!Innermost \in {"stream", "prolog"}
      <4>1. CASE psdoc.nest = <<>>
        BY <4>1 DEF DSC!Innermost
      <4>2. CASE psdoc.nest = <<"prolog">>
        BY <4>2 DEF DSC!Innermost
      <4> QED
        BY <2>1, <3>1, <4>1, <4>2
    <3>3. DSC!BeginDefinition(c)
      BY <2>1, <2>2, <2>7, <3>1, <3>2 DEF DSC!BeginDefinition, DSC!Push
    <3> QED
      BY <2>3, <2>2, <2>4, <2>5, <2>5a, <2>6, <3>3 DEF Continues, DSC!Next
  <2>9. CASE ~psdoc.beginprologwritten
    <3>1. psdoc.phase = "empty" /\ p.phase = "prolog" /\ p.nest = <<"prolog">>
      BY <1>1, <2>9 DEF AtProlog
    <3>2. psdoc'.nest = <<"prolog", c>>
      <4>1. c \in Construct /\ "prolog" \in Construct
        BY DEF c, Construct, ConstructOf, Defined
      <4> QED
        BY <2>2, <3>1, <4>1, AppendOne
    <3>3. DSC!BeginFirstDefinition(c)
      BY <2>7, <3>1, <3>2 DEF DSC!BeginFirstDefinition
    <3> QED
      BY <2>3, <2>2, <2>4, <2>5, <2>5a, <2>6, <3>3 DEF Continues, DSC!Next
  <2> QED
    BY <2>8, <2>9
<1> QED
  BY <1>2, <1>3

\* What lies above the document lies above no path.
LEMMA OverNoPath ==
  ASSUME NEW d, Ready(d), ps_current_scope(d) # "DOCUMENT"
  PROVE  Len(d.scopes) >= 3 /\ d.scopes[Len(d.scopes) - 1] # "PATH"
<1>1. PICK k \in Nat : k = Len(d.scopes) /\ k >= 2
  BY ReadyStacks DEF Stacks
<1>2. k # 2
  <2>1. d.scopes[2] = "DOCUMENT"
    BY DEF Ready, SteadyDocs, Writable
  <2>2. ps_current_scope(d) = d.scopes[k]
    BY <1>1 DEF ps_current_scope
  <2> QED
    BY <2>1, <2>2
<1>3. k \in 2..k /\ k >= 3
  <2>0. k >= 2
    BY <1>1
  <2>1. k = 2 \/ k >= 3
    BY <2>0
  <2> QED
    BY <1>1, <1>2, <2>1
<1>4. d.scopes[k - 1] \in Below(d.scopes[k])
  BY <1>1, <1>3, ReadyStacks DEF Good, Nested
<1>5. d.scopes[k] \in Scope \ {"DOCUMENT"}
  BY <1>1, ReadyStacks DEF ps_current_scope
<1>6. "PATH" \notin Below(d.scopes[k])
  BY <1>5 DEF Below, DrawingScope, Scope
<1> QED
  BY <1>1, <1>3, <1>4, <1>6

\* With nothing saved, the innermost construct is that of the current scope.
LEMMA TopConstruct ==
  ASSUME NEW d, Ready(d), ps_current_scope(d) \notin {"DOCUMENT", "PATH"}, d.agstate = 0
  PROVE  /\ d.nest # <<>> /\ d.nest[Len(d.nest)] = ConstructOf(ps_current_scope(d))
         /\ Stacks(SubSeq(d.scopes, 1, Len(d.scopes) - 1), SubSeq(d.nest, 1, Len(d.nest) - 1), 0)
<1>1. /\ Stacks(d.scopes, d.nest, 0) /\ Len(d.scopes) >= 3
      /\ d.scopes[Len(d.scopes)] # "PATH" /\ d.scopes[Len(d.scopes) - 1] # "PATH"
  BY ReadyStacks, OverNoPath DEF ps_current_scope
<1> QED
  BY <1>1, ConstructPopped DEF ps_current_scope

LEMMA GlyphBegins ==
  ASSUME Orderly, Ready(psdoc), psdoc' = PS_begin_glyph(psdoc)
  PROVE  Continues /\ SameCanvas
<1>1. CASE ps_current_scope(psdoc) # "FONT"
  BY <1>1, NothingDone DEF PS_begin_glyph, ps_check_scope
<1>2. CASE ps_current_scope(psdoc) = "FONT"
  <2> DEFINE o == Opening(psdoc, "charproc")
  <2>1. /\ Stacks(psdoc.scopes, psdoc.nest, psdoc.agstate) /\ psdoc \in PSDoc /\ HasSink(psdoc)
        /\ psdoc.nest # Garbled /\ psdoc \in SteadyDocs
    BY ReadyStacks, NotGarbled DEF Ready
  <2>2. psdoc.agstate = 0
    BY <1>2, LevelOfScope DEF DrawingScope
  <2>3. /\ "GLYPH" \in Scope \ DrawingScope /\ "GLYPH" \in Inner /\ Below("GLYPH") = {"FONT"}
        /\ "charproc" \in Construct /\ "charproc" = ConstructOf("GLYPH")
        /\ ConstructOf("FONT") = "fontdict"
    BY DEF Scope, DrawingScope, Inner, Below, Construct, ConstructOf
  <2>4. psdoc' = ps_enter_scope(o, "GLYPH")
    BY <1>2 DEF PS_begin_glyph, ps_check_scope
  <2>5. Fixed(psdoc, o) /\ o.scopes = psdoc.scopes /\ o.nest = Append(psdoc.nest, "charproc")
    BY <2>1, <2>3, OpeningIs
  <2> HIDE DEF o
  <2>6. Len(psdoc.scopes) # MaxScopes
    BY <1>2, <2>1, <2>3, RoomToEnter DEF Orderly
  <2>7. Fixed(o, psdoc') /\ psdoc'.nest = o.nest /\ psdoc'.scopes = Append(o.scopes, "GLYPH")
    BY <2>3, <2>4, <2>5, <2>6, EnterIs DEF Fixed
  <2>8. /\ Fixed(psdoc, psdoc') /\ psdoc'.nest = Append(psdoc.nest, "charproc")
        /\ psdoc'.scopes = Append(psdoc.scopes, "GLYPH")
    BY <2>5, <2>7 DEF Fixed
  <2>9. Stacks(psdoc'.scopes, psdoc'.nest, psdoc'.agstate)
    <3>1. psdoc.scopes[Len(psdoc.scopes)] # "PATH" /\ Stacks(psdoc.scopes, psdoc.nest, 0)
      BY <1>2, <2>1, <2>2 DEF ps_current_scope
    <3>2. Stacks(Append(psdoc.scopes, "GLYPH"), Append(psdoc.nest, "charproc"), 0)
      BY <2>3, <3>1, ConstructPushed
    <3>3. psdoc'.agstate = 0
      BY <2>2, <2>8 DEF Fixed
    <3> QED
      BY <2>8, <3>2, <3>3
  <2>10. psdoc' \in SteadyDocs
    BY <2>1, SteadyCalls, GlyphBegun
  <2>11. Ready(psdoc')
    BY <2>8, <2>9, <2>10, StacksAreReady
  <2>12. SameCanvas
    BY <2>1, <2>3, <2>8, CanvasPushed DEF SameCanvas, Fixed
  <2>13. DSC!Innermost = "fontdict"
    BY <1>2, <2>2, <2>3, TopConstruct DEF DSC!Innermost
  <2>14. DSC!BeginCharProc
    BY <2>8, <2>13 DEF DSC!BeginCharProc, DSC!Push, Fixed
  <2> QED
    BY <2>11, <2>12, <2>14 DEF Continues, DSC!Next
<1> QED
  BY <1>1, <1>2

\* A definition ends with nothing saved: in a font there never is anything, in
\* a template or a pattern the program has seen to it.
LEMMA DefinitionEnds ==
  ASSUME Orderly, Ready(psdoc), NEW s \in Defined \cup {"GLYPH"},
         psdoc' = EndDefinition(psdoc, s, ConstructOf(s)), psdoc' \in SteadyDocs,
         ps_current_scope(psdoc) = s /\ s \in DrawingScope => psdoc.agstate = 0
  PROVE  Continues /\ SameCanvas
<1>1. CASE ps_current_scope(psdoc) # s
  BY <1>1, NothingDone DEF EndDefinition, ps_check_scope
<1>2. CASE ps_current_scope(psdoc) = s
  <2> DEFINE c == ConstructOf(s)
             o == Closing(psdoc, c)
  <2>1. psdoc \in PSDoc /\ HasSink(psdoc) /\ Len(psdoc.scopes) >= 3
    BY <1>2, ReadyStacks, OverNoPath DEF Defined
  <2>2. psdoc.agstate = 0
    BY <1>2, LevelOfScope DEF DrawingScope, Defined
  <2>3. /\ psdoc.nest # <<>> /\ psdoc.nest[Len(psdoc.nest)] = c
        /\ Stacks(SubSeq(psdoc.scopes, 1, Len(psdoc.scopes) - 1),
                  SubSeq(psdoc.nest, 1, Len(psdoc.nest) - 1), 0)
    BY <1>2, <2>2, TopConstruct DEF Defined
  <2>4. psdoc' = ps_leave_scope(o, s)
    BY <1>2 DEF EndDefinition, ps_check_scope
  <2>5. c \in DSC!Definition \cup {"charproc"}
    BY DEF ConstructOf, Defined, DSC!Definition
  <2> HIDE DEF c
  <2>6. /\ Fixed(psdoc, o) /\ o.scopes = psdoc.scopes
        /\ o.nest = SubSeq(psdoc.nest, 1, Len(psdoc.nest) - 1)
    BY <2>1, <2>3, ClosingIs
  <2> HIDE DEF o
  <2>7. o \in PSDoc /\ Len(o.scopes) >= 1 /\ ps_current_scope(o) = s
    <3>1. PICK k \in Nat : k = Len(psdoc.scopes) /\ k >= 3
      BY <2>1 DEF PSDoc
    <3> QED
      BY <1>2, <2>6, <3>1 DEF Fixed, ps_current_scope
  <2>8. /\ Fixed(o, psdoc') /\ psdoc'.nest = o.nest
        /\ psdoc'.scopes = SubSeq(o.scopes, 1, Len(o.scopes) - 1)
    BY <2>4, <2>7, LeaveIs
  <2>9. /\ Fixed(psdoc, psdoc') /\ psdoc'.nest = SubSeq(psdoc.nest, 1, Len(psdoc.nest) - 1)
        /\ psdoc'.scopes = SubSeq(psdoc.scopes, 1, Len(psdoc.scopes) - 1)
    BY <2>6, <2>8 DEF Fixed
  <2>10. Stacks(psdoc'.scopes, psdoc'.nest, psdoc'.agstate)
    BY <2>2, <2>3, <2>9 DEF Fixed
  <2>11. Ready(psdoc')
    BY <2>9, <2>10, StacksAreReady
  <2>12. SameCanvas
    <3>1. PICK k \in Nat : k = Len(psdoc.scopes) /\ k >= 3
      BY <2>1 DEF PSDoc
    <3>2. Len(psdoc.scopes) >= 1
      BY <3>1
    <3> QED
      BY <2>1, <2>9, <3>2, CanvasPopped DEF SameCanvas, Fixed
  <2>13. DSC!Innermost = c
    BY <2>3 DEF DSC!Innermost
  <2>14. DSC!EndDefinition
    BY <2>5, <2>9, <2>13 DEF DSC!EndDefinition, DSC!Pop, Fixed
  <2> QED
    BY <2>11, <2>12, <2>14 DEF Continues, DSC!Next
<1> QED
  BY <1>1, <1>2

LEMMA PathStarts ==
  ASSUME Orderly, NEW d, Ready(d), NEW e, NEW allowed, allowed \subseteq PathStarter,
         e = StartPath(d, allowed), e \in SteadyDocs
  PROVE  /\ Ready(e) /\ Fixed(d, e) /\ e.nest = d.nest
         /\ HasCanvas(e) => HasCanvas(d)
         /\ IF ps_current_scope(d) \in allowed \ {"PATH"}
            THEN e.scopes = Append(d.scopes, "PATH")
            ELSE e = d
<1>1. CASE ps_current_scope(d) \notin allowed \ {"PATH"}
  <2>1. e = d
    BY <1>1 DEF StartPath, ps_check_scope
  <2> QED
    BY <1>1, <2>1, ReadyStacks DEF Fixed
<1>2. CASE ps_current_scope(d) \in allowed \ {"PATH"}
  <2>1. /\ Stacks(d.scopes, d.nest, d.agstate) /\ d \in PSDoc /\ d \in SteadyDocs
        /\ Len(d.scopes) >= 3
    BY <1>2, ReadyStacks, OverNoPath DEF Ready, PathStarter, DrawingScope
  <2>2. /\ "PATH" \in Scope \ DrawingScope /\ "PATH" \in Inner
        /\ ps_current_scope(d) \in Below("PATH")
    BY <1>2 DEF Scope, DrawingScope, Inner, Below, PathStarter
  <2>3. e = ps_enter_scope(d, "PATH")
    BY <1>2 DEF StartPath, ps_check_scope
  <2>4. Len(d.scopes) # MaxScopes
    BY <2>1, <2>2, RoomToEnter DEF Orderly
  <2>5. Fixed(d, e) /\ e.nest = d.nest /\ e.scopes = Append(d.scopes, "PATH")
    BY <2>1, <2>2, <2>3, <2>4, EnterIs
  <2>6. Stacks(e.scopes, e.nest, e.agstate)
    <3>1. d.scopes[Len(d.scopes)] # "PATH"
      BY <1>2 DEF ps_current_scope
    <3>2. Stacks(Append(d.scopes, "PATH"), d.nest, d.agstate)
      BY <2>1, <3>1, PathPushed
    <3> QED
      BY <2>5, <3>2 DEF Fixed
  <2> QED
    BY <1>2, <2>1, <2>2, <2>5, <2>6, StacksAreReady, CanvasPushed
<1> QED
  BY <1>1, <1>2

LEMMA PathPaints ==
  ASSUME NEW d, Ready(d), NEW e, e = PaintPath(d), e \in SteadyDocs
  PROVE  /\ Ready(e) /\ Fixed(d, e) /\ e.nest = d.nest
         /\ HasCanvas(e) => HasCanvas(d)
         /\ IF ps_current_scope(d) = "PATH"
            THEN e.scopes = SubSeq(d.scopes, 1, Len(d.scopes) - 1)
            ELSE e = d
<1>1. CASE ps_current_scope(d) # "PATH"
  <2>1. e = d
    BY <1>1 DEF PaintPath, ps_check_scope
  <2> QED
    BY <1>1, <2>1, ReadyStacks DEF Fixed
<1>2. CASE ps_current_scope(d) = "PATH"
  <2>1. /\ Stacks(d.scopes, d.nest, d.agstate) /\ d \in PSDoc
        /\ Len(d.scopes) >= 3 /\ d.scopes[Len(d.scopes) - 1] # "PATH"
    BY <1>2, ReadyStacks, OverNoPath
  <2>2. PICK k \in Nat : k = Len(d.scopes) /\ k >= 3
    BY <2>1 DEF PSDoc
  <2>3. e = ps_leave_scope(d, "PATH")
    BY <1>2 DEF PaintPath, ps_check_scope
  <2>4. Len(d.scopes) >= 1
    BY <2>2
  <2>5. /\ Fixed(d, e) /\ e.nest = d.nest
        /\ e.scopes = SubSeq(d.scopes, 1, Len(d.scopes) - 1)
    BY <1>2, <2>1, <2>3, <2>4, LeaveIs
  <2>6. Len(d.scopes) >= 4
    <3>1. k \in 2..k
      BY <2>2
    <3>2. d.scopes[k - 1] \in Below("PATH")
      BY <1>2, <2>2, <3>1, ReadyStacks DEF Good, Nested, ps_current_scope
    <3>3. d.scopes[2] = "DOCUMENT"
      BY DEF Ready, SteadyDocs, Writable
    <3>4. d.scopes[k - 1] # "DOCUMENT"
      BY <3>2 DEF Below, DrawingScope
    <3>5. k = 3 => k - 1 = 2
      OBVIOUS
    <3>6. k # 3
      BY <3>3, <3>4, <3>5
    <3>0. k >= 3
      BY <2>2
    <3>7. k = 3 \/ k >= 4
      BY <3>0
    <3> QED
      BY <2>2, <3>6, <3>7
  <2>7. Stacks(e.scopes, e.nest, e.agstate)
    <3>1. d.scopes[Len(d.scopes)] = "PATH"
      BY <1>2 DEF ps_current_scope
    <3>2. Stacks(SubSeq(d.scopes, 1, Len(d.scopes) - 1), d.nest, d.agstate)
      BY <2>1, <2>6, <3>1, PathPopped
    <3> QED
      BY <2>5, <3>2 DEF Fixed
  <2> QED
    BY <1>2, <2>1, <2>4, <2>5, <2>7, StacksAreReady, CanvasPopped
<1> QED
  BY <1>1, <1>2

\* What of a stream saving and restoring leave.
SameStream(d, e) ==
  /\ e.phase = d.phase /\ e.page = d.page /\ e.scopes = d.scopes

LEMMA Saves ==
  ASSUME Orderly, NEW d, Ready(d), ps_current_scope(d) \in DrawingScope,
         d.agstate < MaxGState - 1
  PROVE  LET e == PS_save(d)
         IN  /\ Ready(e) /\ SameStream(d, e)
             /\ e.nest = Append(d.nest, "gsave") /\ e.agstate = d.agstate + 1
<1> DEFINE o == Opening(d, "gsave")
           e == [o EXCEPT !.agstate = @ + 1]
<1>1. /\ Stacks(d.scopes, d.nest, d.agstate) /\ d \in PSDoc /\ HasSink(d)
      /\ d.nest # Garbled /\ d \in SteadyDocs /\ Len(d.scopes) >= 3
      /\ "gsave" \in Construct
  BY ReadyStacks, NotGarbled, OverNoPath DEF Ready, Construct, DrawingScope
<1>2. d.agstate \in Nat
  BY <1>1 DEF Stacks
<1>3. PS_save(d) = e
  <2>1. ~(d.agstate >= MaxGState - 1)
    BY <1>2, MaxGStateAssumption
  <2> QED
    BY <2>1 DEF PS_save, ps_check_scope
<1>4. e \in SteadyDocs
  BY <1>1, <1>3, SteadyCalls, Levels
<1>5. Fixed(d, o) /\ o.scopes = d.scopes /\ o.nest = Append(d.nest, "gsave")
  BY <1>1, OpeningIs
<1> HIDE DEF o
<1>6. /\ e.agstate = o.agstate + 1 /\ e.scopes = o.scopes /\ e.nest = o.nest
      /\ e.phase = o.phase /\ e.page = o.page
      /\ e.beginprologwritten = o.beginprologwritten
      /\ e.endprologwritten = o.endprologwritten /\ e.headerwritten = o.headerwritten
  BY <1>5 DEF Fixed, PSDoc
<1> HIDE DEF e
<1>7. Stacks(e.scopes, e.nest, e.agstate)
  <2>1. Stacks(d.scopes, Append(d.nest, "gsave"), d.agstate + 1)
    BY <1>1, LevelPushed DEF ps_current_scope
  <2> QED
    BY <1>5, <1>6, <2>1 DEF Fixed
<1>8. Ready(e)
  BY <1>4, <1>5, <1>6, <1>7 DEF Ready, Phased, Stacks, Fixed
<1> QED
  BY <1>3, <1>5, <1>6, <1>8 DEF Fixed, SameStream

LEMMA Restores ==
  ASSUME Orderly, NEW d, Ready(d), ps_current_scope(d) \in DrawingScope, d.agstate > 0
  PROVE  LET e == PS_restore(d)
         IN  /\ Ready(e) /\ SameStream(d, e)
             /\ d.nest # <<>> /\ d.nest[Len(d.nest)] = "gsave"
             /\ e.nest = SubSeq(d.nest, 1, Len(d.nest) - 1) /\ e.agstate = d.agstate - 1
<1> DEFINE c == Closing(d, "gsave")
           e == [c EXCEPT !.agstate = @ - 1]
<1>1. /\ Stacks(d.scopes, d.nest, d.agstate) /\ d \in PSDoc /\ HasSink(d) /\ d \in SteadyDocs
  BY ReadyStacks DEF Ready
<1>2. d.agstate \in Nat
  BY <1>1 DEF Stacks
<1>3. PS_restore(d) = e
  <2>1. ~(d.agstate <= 0)
    BY <1>2
  <2> QED
    BY <2>1 DEF PS_restore, ps_check_scope
<1>4. e \in SteadyDocs
  BY <1>1, <1>3, SteadyCalls, Levels
<1>5. /\ Stacks(d.scopes, SubSeq(d.nest, 1, Len(d.nest) - 1), d.agstate - 1)
      /\ d.nest # <<>> /\ d.nest[Len(d.nest)] = "gsave"
  <2>1. d.scopes[Len(d.scopes)] # "PATH"
    BY DEF DrawingScope, ps_current_scope
  <2> QED
    BY <1>1, <2>1, LevelPopped
<1>6. Fixed(d, c) /\ c.scopes = d.scopes /\ c.nest = SubSeq(d.nest, 1, Len(d.nest) - 1)
  BY <1>1, <1>5, ClosingIs
<1> HIDE DEF c
<1>7. /\ e.agstate = c.agstate - 1 /\ e.scopes = c.scopes /\ e.nest = c.nest
      /\ e.phase = c.phase /\ e.page = c.page
      /\ e.beginprologwritten = c.beginprologwritten
      /\ e.endprologwritten = c.endprologwritten /\ e.headerwritten = c.headerwritten
  BY <1>6 DEF Fixed, PSDoc
<1> HIDE DEF e
<1>8. Stacks(e.scopes, e.nest, e.agstate)
  BY <1>5, <1>6, <1>7 DEF Fixed
<1>9. Ready(e)
  BY <1>4, <1>6, <1>7, <1>8 DEF Ready, Phased, Stacks, Fixed
<1> QED
  BY <1>3, <1>5, <1>6, <1>7, <1>9 DEF Fixed, SameStream

LEMMA AppendedPopped ==
  ASSUME NEW S, NEW s \in Seq(S), NEW x \in S
  PROVE  SubSeq(Append(s, x), 1, Len(Append(s, x)) - 1) = s
<1> DEFINE a == Append(s, x)
<1>1. a \in Seq(S) /\ Len(a) = Len(s) + 1
  BY AppendProperties
<1>2. \A i \in 1..Len(s) : a[i] = s[i]
  BY AppendProperties
<1> HIDE DEF a
<1>3. PICK k \in Nat : k = Len(s)
  OBVIOUS
<1>4. Len(a) - 1 = k /\ Len(a) = k + 1
  BY <1>1, <1>3
<1> DEFINE t == SubSeq(a, 1, k)
<1>5. t \in Seq(S) /\ Len(t) = k /\ \A i \in 1..k : t[i] = a[i]
  BY <1>1, <1>4
<1> HIDE DEF t
<1>6. t = s
  BY <1>2, <1>3, <1>5, SeqEqual
<1> QED
  BY <1>4, <1>6 DEF t, a

\* A line that decorates a text, drawn where there is a level to spare, leaves
\* no trace.
LEMMA LineDrawn ==
  ASSUME Orderly, NEW d, Ready(d), ps_current_scope(d) \in DrawingScope,
         d.agstate < MaxGState - 1
  PROVE  LET e == DrawLine(d)
         IN  Ready(e) /\ SameStream(d, e) /\ e.nest = d.nest /\ e.agstate = d.agstate
<1> DEFINE u == PS_save(d)
           m == PS_moveto(u)
           f == PaintPath(m)
           e == PS_restore(f)
<1>1. /\ Ready(u) /\ SameStream(d, u)
      /\ u.nest = Append(d.nest, "gsave") /\ u.agstate = d.agstate + 1
  BY Saves
<1> HIDE DEF u
<1>2. ps_current_scope(u) = ps_current_scope(d) /\ u \in SteadyDocs
  BY <1>1 DEF SameStream, ps_current_scope, Ready
<1>3. ps_current_scope(u) \in PathStarter \ {"PATH"}
  BY <1>2 DEF PathStarter, DrawingScope
<1>4. /\ Ready(m) /\ Fixed(u, m) /\ m.nest = u.nest
      /\ m.scopes = Append(u.scopes, "PATH")
  <2>1. m \in SteadyDocs
    BY <1>2, SteadyCalls, Paths
  <2>2. m = StartPath(u, PathStarter)
    BY DEF PS_moveto
  <2> HIDE DEF m
  <2> QED
    BY <1>1, <1>3, <2>1, <2>2, PathStarts
<1> HIDE DEF m
<1>5. u.scopes \in Seq(Scope) /\ "PATH" \in Scope
  BY <1>1, ReadyStacks DEF Stacks, Scope
<1>6. ps_current_scope(m) = "PATH"
  BY <1>4, <1>5 DEF ps_current_scope
<1>7. /\ Ready(f) /\ Fixed(m, f) /\ f.nest = m.nest
      /\ f.scopes = SubSeq(m.scopes, 1, Len(m.scopes) - 1)
  <2>1. f \in SteadyDocs
    BY <1>4, SteadyCalls, Paths DEF Ready
  <2> QED
    BY <1>4, <1>6, <2>1, PathPaints
<1> HIDE DEF f
<1>8. f.scopes = u.scopes
  <2>1. SubSeq(Append(u.scopes, "PATH"), 1, Len(Append(u.scopes, "PATH")) - 1) = u.scopes
    BY <1>5, AppendedPopped
  <2> QED
    BY <1>4, <1>7, <2>1
<1>9. /\ f.scopes = d.scopes /\ f.phase = d.phase /\ f.page = d.page
      /\ f.nest = Append(d.nest, "gsave") /\ f.agstate = d.agstate + 1
  BY <1>1, <1>4, <1>7, <1>8 DEF Fixed, SameStream
<1>10. d.agstate \in Nat /\ d.nest \in Seq(Construct) /\ "gsave" \in Construct
  BY ReadyStacks DEF Stacks, Construct
<1>11. ps_current_scope(f) \in DrawingScope /\ f.agstate > 0
  BY <1>9, <1>10 DEF ps_current_scope
<1>12. /\ Ready(e) /\ SameStream(f, e)
       /\ e.nest = SubSeq(f.nest, 1, Len(f.nest) - 1) /\ e.agstate = f.agstate - 1
  BY <1>7, <1>11, Restores
<1> HIDE DEF e
<1>13. e.nest = d.nest
  <2>1. SubSeq(Append(d.nest, "gsave"), 1, Len(Append(d.nest, "gsave")) - 1) = d.nest
    BY <1>10, AppendedPopped
  <2> QED
    BY <1>9, <1>12, <2>1
<1>14. e.agstate = d.agstate
  BY <1>9, <1>10, <1>12
<1>15. DrawLine(d) = e
  BY DEF DrawLine, e, f, m, u
<1> QED
  BY <1>9, <1>12, <1>13, <1>14, <1>15 DEF SameStream

\* A text with its lines, an image with what surrounds it: nothing is left of
\* what they save.
LEMMA TextsLeaveNothing ==
  ASSUME Orderly, NEW d, Ready(d), NEW lines, NEW e,
         ps_current_scope(d) \in DrawingScope => d.agstate < MaxGState - 1,
         e = PS_show2(d, lines) \/ e = PS_place_image(d)
  PROVE  Ready(e) /\ SameStream(d, e) /\ e.nest = d.nest /\ e.agstate = d.agstate
<1> DEFINE Same(a, b) == /\ Ready(b) /\ SameStream(a, b)
                         /\ b.nest = a.nest /\ b.agstate = a.agstate
<1>1. CASE e = PS_show2(d, lines) /\ ps_current_scope(d) \in DrawingScope
  <2> DEFINE u == IF "underline" \in lines THEN DrawLine(d) ELSE d
             o == IF "overline" \in lines THEN DrawLine(u) ELSE u
             t == IF "strikeout" \in lines THEN DrawLine(o) ELSE o
  <2>1. ASSUME NEW a, Same(d, a)
        PROVE  Same(d, DrawLine(a))
    <3>1. /\ ps_current_scope(a) \in DrawingScope /\ a.agstate < MaxGState - 1
          /\ Ready(a)
      BY <1>1, <2>1 DEF SameStream, ps_current_scope
    <3>2. Same(a, DrawLine(a))
      BY <3>1, LineDrawn
    <3> QED
      BY <2>1, <3>2 DEF SameStream
  <2>2. Same(d, d)
    BY DEF SameStream
  <2> HIDE DEF Same
  <2>3. Same(d, u)
    BY <2>1, <2>2
  <2> HIDE DEF u
  <2>4. Same(d, o)
    BY <2>1, <2>3
  <2> HIDE DEF o
  <2>5. Same(d, t)
    BY <2>1, <2>4
  <2>6. e = t
    BY <1>1 DEF PS_show2, ps_check_scope, t, o, u
  <2> QED
    BY <2>5, <2>6 DEF Same
<1>2. CASE e = PS_place_image(d) /\ ps_current_scope(d) \in {"PAGE", "TEMPLATE"} /\ d.images
  <2> DEFINE u == PS_save(d)
  <2>1. /\ Ready(u) /\ SameStream(d, u)
        /\ u.nest = Append(d.nest, "gsave") /\ u.agstate = d.agstate + 1
    BY <1>2, Saves DEF DrawingScope
  <2>2. e = PS_restore(u)
    BY <1>2 DEF PS_place_image, ps_check_scope
  <2> HIDE DEF u
  <2>3. d.agstate \in Nat /\ d.nest \in Seq(Construct) /\ "gsave" \in Construct
    BY ReadyStacks DEF Stacks, Construct
  <2>4. ps_current_scope(u) \in DrawingScope /\ u.agstate > 0
    BY <1>2, <2>1, <2>3 DEF ps_current_scope, SameStream, DrawingScope
  <2>5. /\ Ready(e) /\ SameStream(u, e)
        /\ e.nest = SubSeq(u.nest, 1, Len(u.nest) - 1) /\ e.agstate = u.agstate - 1
    BY <2>1, <2>2, <2>4, Restores
  <2>6. SubSeq(Append(d.nest, "gsave"), 1, Len(Append(d.nest, "gsave")) - 1) = d.nest
    BY <2>3, AppendedPopped
  <2>7. e.agstate = d.agstate
    BY <2>1, <2>3, <2>5
  <2> QED
    BY <2>1, <2>5, <2>6, <2>7 DEF SameStream
<1>3. CASE /\ e = PS_show2(d, lines) => ps_current_scope(d) \notin DrawingScope
           /\ e = PS_place_image(d) =>
                ~(ps_current_scope(d) \in {"PAGE", "TEMPLATE"} /\ d.images)
  <2>1. e = d
    BY <1>3 DEF PS_show2, PS_place_image, ps_check_scope
  <2> QED
    BY <2>1 DEF SameStream
<1> QED
  BY <1>1, <1>2, <1>3

----------------------------------------------------------------------------
(* The calls of a program that keeps the rules.                            *)

\* A call that returns an open document returns what its function leaves.
LEMMA Returned ==
  ASSUME NEW d \in SteadyDocs, Returns(d)
  PROVE  psdoc' = d /\ psdoc' \in SteadyDocs
  BY DEF Returns, SteadyDocs, Writable

LEMMA ResourceCalls ==
  ASSUME Orderly, Ready(psdoc), FindFont \/ OpenImage \/ IncludeFile \/ ShadingPattern
  PROVE  Continues /\ SameCanvas
<1> DEFINE p == PrologStarted(psdoc)
<1>1. psdoc \in SteadyDocs /\ Stable(SteadyDocs)
  BY SteadyCalls DEF Ready
<1>2. \A d \in {psdoc, p} : Ready(d) /\ Alike(d, d) /\ d \in PSDoc /\ HasSink(d)
  BY Started, ReadyStacks DEF Alike, Fixed
<1>3. CASE FindFont
  <2>1. PICK writes \in BOOLEAN : Returns(PS_findfont(psdoc, writes))
    BY <1>3 DEF FindFont
  <2>2. psdoc' = PS_findfont(psdoc, writes)
    BY <1>1, <2>1, Resources, Returned
  <2>3. psdoc' \in {psdoc, p}
    BY <2>2 DEF PS_findfont
  <2> QED
    BY <1>2, <2>3, PreludeWritten
<1>4. CASE IncludeFile
  <2>1. psdoc' = p
    BY <1>1, <1>4, Resources, Returned DEF IncludeFile, PS_include_file
  <2> QED
    BY <1>2, <2>1, PreludeWritten
<1>5. CASE OpenImage
  <2>1. PICK reuse \in BOOLEAN : Returns(PS_open_image(psdoc, reuse))
    BY <1>5 DEF OpenImage
  <2>2. psdoc' = PS_open_image(psdoc, reuse) /\ psdoc' \in SteadyDocs
    BY <1>1, <2>1, Resources, Returned
  <2>3. PICK d \in {psdoc, p} : psdoc' = d \/ psdoc' = [d EXCEPT !.images = TRUE]
    BY <2>2 DEF PS_open_image
  <2> HIDE DEF p
  <2>4. Alike(d, psdoc')
    BY <1>2, <2>3, PartsAlike
  <2>5. Ready(psdoc')
    BY <1>2, <2>2, <2>4, AlikeIsReady
  <2> QED
    BY <2>4, <2>5, PreludeWritten DEF p
<1>6. CASE ShadingPattern
  <2>1. PICK found \in BOOLEAN : Returns(PS_shading_pattern(psdoc, found))
    BY <1>6 DEF ShadingPattern
  <2>2. psdoc' = PS_shading_pattern(psdoc, found)
    BY <1>1, <2>1, Resources, Returned
  <2>3. psdoc.beginprologwritten
    BY <1>6 DEF ShadingPattern, Keeps, Orderly, AllRules
  <2>4. psdoc.phase # "empty"
    BY <2>3 DEF Ready, Phased
  <2>5. psdoc' = psdoc
    BY <1>2, <2>2, <2>4, PartsAlike DEF PS_shading_pattern
  <2> QED
    BY <2>5, NothingDone
<1> QED
  BY <1>3, <1>4, <1>5, <1>6

LEMMA PageEndCall ==
  ASSUME Orderly, Ready(psdoc), psdoc' = PS_end_page(psdoc)
  PROVE  Continues /\ SameCanvas
<1>1. Ready(psdoc') /\ psdoc \in PSDoc
  BY PageEnds, ReadyStacks
<1>2. CASE psdoc' = psdoc
  BY <1>2, NothingDone
<1>3. CASE psdoc' # psdoc
  <2>1. /\ Fixed(psdoc, psdoc') /\ psdoc.nest = <<"page">> /\ psdoc'.nest = <<>>
        /\ psdoc'.scopes = SubSeq(psdoc.scopes, 1, Len(psdoc.scopes) - 1)
    BY <1>3, PageEnds
  <2>2. DSC!EndPage
    BY <2>1 DEF DSC!EndPage, Fixed
  <2>3. Len(psdoc.scopes) >= 1
    BY <1>1 DEF IInv, Ready, SteadyDocs, GoodDocs, Good
  <2>4. SameCanvas
    BY <1>1, <2>1, <2>3, CanvasPopped DEF SameCanvas, Fixed
  <2> QED
    BY <1>1, <2>2, <2>4 DEF Continues, DSC!Next
<1> QED
  BY <1>2, <1>3

LEMMA EndCalls ==
  ASSUME Orderly, Ready(psdoc), EndTemplate \/ EndPattern \/ EndFont \/ EndGlyph,
         ps_current_scope(psdoc) \in DrawingScope => psdoc.agstate = pending
  PROVE  Continues /\ SameCanvas
<1>1. psdoc \in SteadyDocs /\ Stable(SteadyDocs) /\ "balance" \in ClientRules
  BY SteadyCalls DEF Ready, Orderly, AllRules
<1>2. /\ ConstructOf("TEMPLATE") = "proc" /\ ConstructOf("PATTERN") = "proc"
      /\ ConstructOf("FONT") = "fontdict" /\ ConstructOf("GLYPH") = "charproc"
      /\ {"TEMPLATE", "PATTERN", "FONT", "GLYPH"} = Defined \cup {"GLYPH"}
  BY DEF ConstructOf, Defined
<1>3. CASE EndTemplate
  <2>1. pending = 0 /\ psdoc' = PS_end_template(psdoc) /\ psdoc' \in SteadyDocs
    BY <1>1, <1>3, EndedDefinitions, Returned DEF EndTemplate, Keeps
  <2> QED
    BY <1>2, <2>1, DefinitionEnds DEF PS_end_template
<1>4. CASE EndPattern
  <2>1. pending = 0 /\ psdoc' = PS_end_pattern(psdoc) /\ psdoc' \in SteadyDocs
    BY <1>1, <1>4, EndedDefinitions, Returned DEF EndPattern, Keeps
  <2> QED
    BY <1>2, <2>1, DefinitionEnds DEF PS_end_pattern
<1>5. CASE EndFont
  <2>1. psdoc' = PS_end_font(psdoc) /\ psdoc' \in SteadyDocs
    BY <1>1, <1>5, EndedDefinitions, Returned DEF EndFont
  <2> QED
    BY <1>2, <2>1, DefinitionEnds DEF PS_end_font, DrawingScope
<1>6. CASE EndGlyph
  <2>1. psdoc' = PS_end_glyph(psdoc) /\ psdoc' \in SteadyDocs
    BY <1>1, <1>6, EndedDefinitions, Returned DEF EndGlyph
  <2> QED
    BY <1>2, <2>1, DefinitionEnds DEF PS_end_glyph, DrawingScope
<1> QED
  BY <1>3, <1>4, <1>5, <1>6

LEMMA PathCalls ==
  ASSUME Orderly, Ready(psdoc), ConstructPath \/ EndPath
  PROVE  Continues /\ SameCanvas
<1>1. psdoc \in SteadyDocs /\ Stable(SteadyDocs)
  BY SteadyCalls DEF Ready
<1>2. PICK d \in SteadyDocs :
        /\ psdoc' = d
        /\ \/ d = PaintPath(psdoc)
           \/ \E allowed \in SUBSET PathStarter : d = StartPath(psdoc, allowed)
  <2>1. CASE Returns(PS_moveto(psdoc))
    BY <1>1, <2>1, Paths, Returned DEF PS_moveto
  <2>2. CASE Returns(PS_arc(psdoc))
    BY <1>1, <2>2, Paths, Returned DEF PS_arc
  <2>3. CASE Returns(PaintPath(psdoc))
    BY <1>1, <2>3, Paths, Returned
  <2> QED
    BY <2>1, <2>2, <2>3 DEF ConstructPath, EndPath
<1>3. /\ Ready(psdoc') /\ Fixed(psdoc, psdoc') /\ psdoc'.nest = psdoc.nest
      /\ HasCanvas(psdoc') => HasCanvas(psdoc)
  BY <1>2, PathStarts, PathPaints
<1>4. Continues
  BY <1>3, NothingWritten DEF Fixed
<1> QED
  BY <1>3, <1>4 DEF SameCanvas, Fixed

LEMMA TextCalls ==
  ASSUME Orderly, Ready(psdoc), ShowText \/ PlaceImage,
         ps_current_scope(psdoc) \in DrawingScope => psdoc.agstate = pending
  PROVE  Continues /\ SameCanvas
<1>1. /\ psdoc \in SteadyDocs /\ Stable(SteadyDocs)
      /\ ps_current_scope(psdoc) \in DrawingScope => psdoc.agstate < MaxGState - 1
  BY SteadyCalls DEF Ready, Orderly, AllRules, ShowText, PlaceImage, NeedsLevel, Keeps
<1>2. PICK lines : psdoc' = PS_show2(psdoc, lines) \/ psdoc' = PS_place_image(psdoc)
  <2>1. CASE ShowText
    BY <1>1, <2>1, Texts, Returned DEF ShowText
  <2>2. CASE PlaceImage
    BY <1>1, <2>2, Texts, Returned DEF PlaceImage
  <2> QED
    BY <2>1, <2>2
<1>3. /\ Ready(psdoc') /\ SameStream(psdoc, psdoc')
      /\ psdoc'.nest = psdoc.nest /\ psdoc'.agstate = psdoc.agstate
  BY <1>1, <1>2, TextsLeaveNothing
<1>4. Continues
  BY <1>3, NothingWritten DEF SameStream
<1> QED
  BY <1>3, <1>4 DEF SameCanvas, SameStream, HasCanvas

\* What is saved is saved on a canvas.
LEMMA CanvasOfLevel ==
  ASSUME NEW d, Ready(d), ~HasCanvas(d)
  PROVE  d.agstate = 0
<1>1. PICK k \in Nat : k = Len(d.scopes) /\ k >= 2
  BY ReadyStacks DEF Stacks
<1>2. Frames(d.scopes) \in {k - 2, k - 3} /\ d.agstate \in Nat
  BY <1>1, ReadyStacks DEF Frames, Stacks
<1>3. ~(d.agstate > 0)
  <2> SUFFICES ASSUME d.agstate > 0
               PROVE  FALSE
    OBVIOUS
  <2>1. Frames(d.scopes) > 0 /\ d.scopes[Frames(d.scopes) + 2] \in DrawingScope
    BY DEF Ready, Structured
  <2>2. Frames(d.scopes) + 2 \in 1..k
    BY <1>1, <1>2, <2>1
  <2> QED
    BY <1>1, <2>1, <2>2 DEF HasCanvas
<1> QED
  BY <1>2, <1>3

LEMMA TopIsOn ==
  ASSUME NEW d, Ready(d), ps_current_scope(d) \in DrawingScope
  PROVE  HasCanvas(d)
<1>1. PICK k \in Nat : k = Len(d.scopes) /\ k \in 1..k
  BY ReadyStacks DEF Good, PSDoc
<1> QED
  BY <1>1 DEF HasCanvas, ps_current_scope

\* The caller's account is that of the canvas it is on.
Accounted(d, n) == HasCanvas(d) => d.agstate = n

LEMMA LevelsAccounted ==
  ASSUME Ready(psdoc)
  PROVE  LevelsAgree <=> Accounted(psdoc, pending)
  BY CanvasOfLevel DEF LevelsAgree, Accounted, HasCanvas

LEMMA LevelsStay ==
  ASSUME SameCanvas, Accounted(psdoc, pending), pending' = pending
  PROVE  Accounted(psdoc', pending')
  BY DEF SameCanvas, Accounted

LEMMA SaveCall ==
  ASSUME Orderly, Ready(psdoc), Accounted(psdoc, pending), pending \in Int, Save
  PROVE  Continues /\ Accounted(psdoc', pending')
<1>1. psdoc \in SteadyDocs /\ psdoc' = PS_save(psdoc) /\ pending < MaxGState - 1
  <2>1. psdoc \in SteadyDocs /\ "levels" \in ClientRules
    BY DEF Ready, Orderly, AllRules
  <2>2. PS_save(psdoc) \in SteadyDocs
    BY <2>1, SteadyCalls, Levels
  <2> QED
    BY <2>1, <2>2, Returned DEF Save, NeedsLevel, Keeps
<1>2. CASE ps_current_scope(psdoc) \notin DrawingScope
  <2>1. psdoc' = psdoc /\ pending' = pending
    BY <1>1, <1>2 DEF PS_save, Save, ps_check_scope
  <2> QED
    BY <2>1, NothingDone, LevelsStay
<1>3. CASE ps_current_scope(psdoc) \in DrawingScope
  <2>1. psdoc.agstate = pending /\ pending' = pending + 1
    BY <1>3, TopIsOn DEF Accounted, Save, ps_check_scope
  <2>2. /\ Ready(psdoc') /\ SameStream(psdoc, psdoc')
        /\ psdoc'.nest = Append(psdoc.nest, "gsave") /\ psdoc'.agstate = psdoc.agstate + 1
    BY <1>1, <1>3, <2>1, Saves
  <2>3. DSC!Innermost \in DSC!Canvas
    <3>1. CASE psdoc.agstate > 0
      <4>1. psdoc.nest # <<>> /\ psdoc.nest[Len(psdoc.nest)] = "gsave"
        BY <1>3, <3>1, Restores
      <4> QED
        BY <4>1 DEF DSC!Innermost, DSC!Canvas
    <3>2. CASE ~(psdoc.agstate > 0)
      <4>1. psdoc.agstate = 0
        BY <3>2, ReadyStacks DEF Stacks
      <4>2. ps_current_scope(psdoc) \notin {"DOCUMENT", "PATH"}
        BY <1>3 DEF DrawingScope
      <4>3. /\ psdoc.nest # <<>>
            /\ psdoc.nest[Len(psdoc.nest)] = ConstructOf(ps_current_scope(psdoc))
        BY <4>1, <4>2, TopConstruct
      <4>4. ConstructOf(ps_current_scope(psdoc)) \in {"page", "proc"}
        BY <1>3 DEF ConstructOf, DrawingScope
      <4> QED
        BY <4>3, <4>4 DEF DSC!Innermost, DSC!Canvas
    <3> QED
      BY <3>1, <3>2
  <2>4. DSC!Gsave
    BY <2>2, <2>3 DEF DSC!Gsave, DSC!Push, SameStream
  <2> QED
    BY <2>1, <2>2, <2>4 DEF Continues, DSC!Next, Accounted
<1> QED
  BY <1>2, <1>3

LEMMA RestoreCall ==
  ASSUME Orderly, Ready(psdoc), Accounted(psdoc, pending), pending \in Int, Restore
  PROVE  Continues /\ Accounted(psdoc', pending')
<1>1. psdoc \in SteadyDocs /\ psdoc' = PS_restore(psdoc) /\ pending > 0
  <2>1. psdoc \in SteadyDocs /\ "balance" \in ClientRules
    BY DEF Ready, Orderly, AllRules
  <2>2. PS_restore(psdoc) \in SteadyDocs
    BY <2>1, SteadyCalls, Levels
  <2> QED
    BY <2>1, <2>2, Returned DEF Restore, Keeps
<1>2. CASE ps_current_scope(psdoc) \notin DrawingScope
  <2>1. psdoc' = psdoc /\ pending' = pending
    BY <1>1, <1>2 DEF PS_restore, Restore, ps_check_scope
  <2> QED
    BY <2>1, NothingDone, LevelsStay
<1>3. CASE ps_current_scope(psdoc) \in DrawingScope
  <2>1. psdoc.agstate = pending /\ pending' = pending - 1
    BY <1>3, TopIsOn DEF Accounted, Restore, ps_check_scope
  <2>2. /\ Ready(psdoc') /\ SameStream(psdoc, psdoc')
        /\ psdoc.nest # <<>> /\ psdoc.nest[Len(psdoc.nest)] = "gsave"
        /\ psdoc'.nest = SubSeq(psdoc.nest, 1, Len(psdoc.nest) - 1)
        /\ psdoc'.agstate = psdoc.agstate - 1
    BY <1>1, <1>3, <2>1, Restores
  <2>3. DSC!Grestore
    BY <2>2 DEF DSC!Grestore, DSC!Innermost, DSC!Pop, SameStream
  <2> QED
    BY <2>1, <2>2, <2>3 DEF Continues, DSC!Next, Accounted
<1> QED
  BY <1>2, <1>3

LEMMA BeginPageCall ==
  ASSUME Orderly, Ready(psdoc), BeginPage
  PROVE  Continues /\ Accounted(psdoc', pending')
<1>1. /\ ps_current_scope(psdoc) \in {"DOCUMENT", "PROLOG"}
      /\ psdoc \in SteadyDocs /\ BetweenPages(psdoc)
  BY DEF BeginPage, Keeps, ps_check_scope, Orderly, AllRules, Ready, BetweenPages
<1>2. psdoc' = PS_begin_page(psdoc)
  BY <1>1, SteadyCalls, PageBegun, Returned DEF BeginPage
<1>3. Continues /\ psdoc'.agstate = 0 /\ ps_current_scope(psdoc') = "PAGE"
  BY <1>1, <1>2, PageBegins
<1>4. pending' = 0
  BY <1>1, <1>3 DEF BeginPage, Enters, ps_check_scope
<1> QED
  BY <1>3, <1>4 DEF Accounted

LEMMA BeginCalls ==
  ASSUME Orderly, Ready(psdoc), Accounted(psdoc, pending),
         BeginTemplate \/ BeginPattern \/ BeginFont
  PROVE  Continues /\ Accounted(psdoc', pending')
<1> DEFINE p == PrologStarted(psdoc)
<1>1. psdoc \in SteadyDocs /\ Stable(SteadyDocs)
  BY SteadyCalls DEF Ready
<1>2. /\ ConstructOf("TEMPLATE") = "proc" /\ ConstructOf("PATTERN") = "proc"
      /\ ConstructOf("FONT") = "fontdict"
      /\ "TEMPLATE" \in Defined /\ "PATTERN" \in Defined /\ "FONT" \in Defined
  BY DEF ConstructOf, Defined
<1>3. ps_current_scope(p) \in {ps_current_scope(psdoc), "PROLOG"}
  BY Started DEF AtProlog
<1>4. PICK s \in Defined :
        /\ \E t : /\ t = BeginDefinition(psdoc, s, ConstructOf(s))
                /\ psdoc' \in SteadyDocs /\ Alike(t, psdoc')
        /\ IF s = "FONT" THEN pending' = pending ELSE Enters(s)
  <2>1. CASE BeginTemplate
    <3> DEFINE t == BeginDefinition(psdoc, "TEMPLATE", "proc")
    <3>1. psdoc' = PS_begin_template(psdoc) /\ psdoc' \in SteadyDocs
      BY <1>1, <2>1, Definitions, Returned DEF BeginTemplate
    <3>2. t \in PSDoc /\ HasSink(t)
      <4>1. CASE ps_current_scope(p) \in {"DOCUMENT", "PROLOG"}
        <5>1. Fixed(p, t)
          BY <1>2, <4>1, DefinitionOpens
        <5>2. HasSink(p)
          BY Started, ReadyStacks
        <5> QED
          BY <5>1, <5>2 DEF Fixed, HasSink
      <4>2. CASE ps_current_scope(p) \notin {"DOCUMENT", "PROLOG"}
        <5>1. t = p
          BY <4>2 DEF BeginDefinition, ps_check_scope
        <5> QED
          BY <5>1, Started, ReadyStacks
      <4> QED
        BY <4>1, <4>2
    <3>3. psdoc' \in {t, [t EXCEPT !.images = TRUE]}
      BY <3>1 DEF PS_begin_template
    <3> HIDE DEF t
    <3>4. Alike(t, psdoc')
      <4>1. Alike(t, t)
        BY <3>2 DEF Alike, Fixed
      <4>2. Alike(t, [t EXCEPT !.images = TRUE])
        BY <3>2, PartsAlike
      <4> QED
        BY <3>3, <4>1, <4>2
    <3> QED
      BY <1>2, <2>1, <3>1, <3>4 DEF t, BeginTemplate
  <2>2. CASE BeginPattern
    <3>1. psdoc' = PS_begin_pattern(psdoc) /\ psdoc' \in SteadyDocs
      BY <1>1, <2>2, Definitions, Returned DEF BeginPattern
    <3>2. Alike(psdoc', psdoc')
      BY <3>1 DEF Alike, Fixed, SteadyDocs, GoodDocs
    <3> QED
      BY <1>2, <2>2, <3>1, <3>2 DEF PS_begin_pattern, BeginPattern
  <2>3. CASE BeginFont
    <3>1. psdoc' = PS_begin_font(psdoc) /\ psdoc' \in SteadyDocs
      BY <1>1, <2>3, Definitions, Returned DEF BeginFont
    <3>2. Alike(psdoc', psdoc')
      BY <3>1 DEF Alike, Fixed, SteadyDocs, GoodDocs
    <3> QED
      BY <1>2, <2>3, <3>1, <3>2 DEF PS_begin_font, BeginFont
  <2> QED
    BY <2>1, <2>2, <2>3
<1>5. /\ Continues
      /\ \/ SameCanvas /\ ps_current_scope(psdoc') = ps_current_scope(p)
         \/ /\ psdoc'.agstate = 0 /\ ps_current_scope(psdoc') = s
            /\ ps_current_scope(psdoc) # s
            /\ s \notin DrawingScope => SameCanvas
  BY <1>4, DefinitionBegins
<1> HIDE DEF p
<1>6. CASE SameCanvas /\ ps_current_scope(psdoc') = ps_current_scope(p)
  <2>1. ps_current_scope(psdoc') # s \/ ps_current_scope(psdoc) = s
    BY <1>3, <1>6 DEF Defined
  <2>2. pending' = pending
    BY <1>4, <2>1 DEF Enters, ps_check_scope
  <2> QED
    BY <1>5, <1>6, <2>2, LevelsStay
<1>7. CASE /\ psdoc'.agstate = 0 /\ ps_current_scope(psdoc') = s
           /\ ps_current_scope(psdoc) # s
           /\ s \notin DrawingScope => SameCanvas
  <2>1. CASE s # "FONT"
    BY <1>4, <1>5, <1>7, <2>1 DEF Enters, ps_check_scope, Accounted
  <2>2. CASE s = "FONT"
    <3>1. SameCanvas /\ pending' = pending
      BY <1>4, <1>7, <2>2 DEF DrawingScope
    <3> QED
      BY <1>5, <3>1, LevelsStay
  <2> QED
    BY <2>1, <2>2
<1> QED
  BY <1>5, <1>6, <1>7

\* Every call of an open document, but those that end its life.
LEMMA ReadyCall ==
  ASSUME Orderly, Ready(psdoc), Accounted(psdoc, pending), pending \in Int, Call
  PROVE  Continues /\ Accounted(psdoc', pending')
<1>1. ps_current_scope(psdoc) \in DrawingScope => psdoc.agstate = pending
  BY TopIsOn DEF Accounted
<1>2. psdoc \in SteadyDocs /\ Stable(SteadyDocs)
  BY SteadyCalls DEF Ready
<1>3. CASE EndPage
  <2>1. psdoc' = PS_end_page(psdoc) /\ pending' = pending
    BY <1>2, <1>3, EndedPages, Returned DEF EndPage
  <2> QED
    BY <2>1, PageEndCall, LevelsStay
<1>4. CASE BeginGlyph
  <2>1. psdoc' = PS_begin_glyph(psdoc) /\ pending' = pending
    BY <1>2, <1>4, GlyphBegun, Returned DEF BeginGlyph
  <2> QED
    BY <2>1, GlyphBegins, LevelsStay
<1>5. CASE FindFont \/ OpenImage \/ IncludeFile \/ ShadingPattern
  <2>1. pending' = pending
    BY <1>5 DEF FindFont, OpenImage, IncludeFile, ShadingPattern
  <2> QED
    BY <1>5, <2>1, ResourceCalls, LevelsStay
<1>6. CASE EndTemplate \/ EndPattern \/ EndFont \/ EndGlyph
  <2>1. pending' = pending
    BY <1>6 DEF EndTemplate, EndPattern, EndFont, EndGlyph
  <2> QED
    BY <1>1, <1>6, <2>1, EndCalls, LevelsStay
<1>7. CASE ConstructPath \/ EndPath
  <2>1. pending' = pending
    BY <1>7 DEF ConstructPath, EndPath
  <2> QED
    BY <1>7, <2>1, PathCalls, LevelsStay
<1>8. CASE ShowText \/ PlaceImage
  <2>1. pending' = pending
    BY <1>8 DEF ShowText, PlaceImage
  <2> QED
    BY <1>1, <1>8, <2>1, TextCalls, LevelsStay
<1> QED
  BY <1>3, <1>4, <1>5, <1>6, <1>7, <1>8,
     SaveCall, RestoreCall, BeginPageCall, BeginCalls DEF Call

----------------------------------------------------------------------------
(* The life of the document.                                               *)

\* Nothing can be closed before it is opened, nor twice.
LEMMA IdleClose ==
  ASSUME NEW d, Idle(d)
  PROVE  PS_close(d) = d
<1>1. ps_current_scope(d) = "OBJECT"
  BY DEF Idle, ps_current_scope
<1>2. PS_end_page(d) = d
  BY <1>1 DEF PS_end_page, ps_check_scope
<1>3. PICK e \in {d, PS_end_page(d)} : ~ps_check_scope(e, {"DOCUMENT"}) => PS_close(d) = e
  BY DEF PS_close
<1> QED
  BY <1>1, <1>2, <1>3 DEF ps_check_scope

\* PS_close ends the page if it can, and writes the trailer if nothing else is
\* open then.
LEMMA DocumentCloses ==
  ASSUME Orderly, NEW d, Ready(d)
  PROVE  LET c == PS_close(d)
         IN  \/ c \in {d, PS_end_page(d)}
             \/ /\ c \in PSDoc /\ Rests(c)
                /\ d.phase # "trailer" /\ d.nest \in {<<>>, <<"page">>}
                /\ c.phase = "trailer" /\ c.page = d.page
<1> DEFINE e == IF d.page_open THEN PS_end_page(d) ELSE d
           w == Trailer(e)
           l == ps_leave_scope(w, "DOCUMENT")
           c == IF l.closefp /\ l.fp # "null" THEN [l EXCEPT !.fp = "null"] ELSE l
           f == [c EXCEPT !.doc_open = FALSE]
<1>1. /\ e \in {d, PS_end_page(d)} /\ Ready(e) /\ e.phase = d.phase /\ e.page = d.page
      /\ e = d \/ d.nest = <<"page">>
  BY PageEnds DEF Fixed
<1>2. e.doc_open
  BY <1>1 DEF Ready, SteadyDocs, Writable
<1>3. PS_close(d) = IF ~ps_check_scope(e, {"DOCUMENT"}) THEN e ELSE f
  BY <1>2 DEF PS_close
<1> HIDE DEF e
<1>4. CASE ps_current_scope(e) # "DOCUMENT"
  BY <1>1, <1>3, <1>4 DEF ps_check_scope
<1>5. CASE ps_current_scope(e) = "DOCUMENT"
  <2>1. /\ e.nest = <<>> /\ e.agstate = 0 /\ Len(e.scopes) = 2
        /\ e \in PSDoc /\ HasSink(e)
    BY <1>1, <1>5, AtDocument, ReadyStacks
  <2>2. /\ w \in PSDoc /\ w.nest = <<>> /\ w.agstate = 0 /\ w.page = e.page
        /\ w.phase = "trailer" /\ w.scopes = e.scopes
    <3>1. w = [e EXCEPT !.phase = "trailer"]
      <4>1. ps_printf(e, <<>>) = e
        BY <2>1, PartsAlike
      <4> QED
        BY <2>1, <4>1 DEF Trailer
    <3> HIDE DEF w
    <3> QED
      BY <2>1, <3>1 DEF PSDoc
  <2> HIDE DEF w
  <2>3. Fixed(w, l) /\ l.nest = w.nest
    <3>1. ps_current_scope(w) = "DOCUMENT" /\ Len(w.scopes) >= 1
      BY <1>5, <2>1, <2>2 DEF ps_current_scope
    <3> QED
      BY <2>2, <3>1, LeaveIs
  <2> HIDE DEF l
  <2>4. /\ c \in PSDoc /\ c.nest = l.nest /\ c.agstate = l.agstate /\ c.page = l.page
        /\ c.phase = l.phase
    BY <2>3 DEF Fixed, PSDoc
  <2> HIDE DEF c
  <2>5. /\ f \in PSDoc /\ f.nest = c.nest /\ f.agstate = c.agstate /\ f.page = c.page
        /\ f.phase = c.phase /\ ~f.doc_open
    BY <2>4 DEF PSDoc
  <2> HIDE DEF f
  <2>6. f = PS_close(d)
    BY <1>3, <1>5 DEF ps_check_scope
  <2>7. Idle(f)
    <3>1. d \in SteadyDocs
      BY DEF Ready
    <3>2. PICK x \in SteadyDocs : f = x \/ Finished(x, f)
      BY <2>6, <3>1, Closes, SteadyCalls
    <3>3. Good(x) /\ Writable(x)
      BY <3>2 DEF SteadyDocs, GoodDocs
    <3>4. f # x
      BY <2>5, <3>3 DEF Writable
    <3> QED
      BY <3>2, <3>3, <3>4, FinishedIsIdle
  <2>8. Rests(f) /\ f.phase = "trailer" /\ f.page = d.page
    BY <1>1, <2>2, <2>3, <2>4, <2>5, <2>7 DEF Rests, Fixed
  <2>9. d.phase # "trailer" /\ d.nest \in {<<>>, <<"page">>}
    <3>1. d.phase # "trailer"
      BY DEF Ready, Phased
    <3> QED
      BY <1>1, <2>1, <3>1
  <2> QED
    BY <2>5, <2>6, <2>8, <2>9
<1> QED
  BY <1>4, <1>5

\* Freeing the PSDoc writes nothing.
LEMMA FreedIs ==
  ASSUME NEW d, Good(d)
  PROVE  /\ Ready(d) => Ready(Freed(d))
         /\ Rests(d) => Rests(Freed(d))
         /\ Unopened(d) => Unopened(Freed(d))
         /\ Freed(d).phase = d.phase /\ Freed(d).nest = d.nest /\ Freed(d).page = d.page
<1> DEFINE e == Freed(d)
<1>1. Good(e)
  BY LifeIsGood DEF Freed
<1>2. /\ e.scopes = d.scopes /\ e.nest = d.nest /\ e.agstate = d.agstate
      /\ e.phase = d.phase /\ e.page = d.page /\ e.page_open = d.page_open
      /\ e.beginprologwritten = d.beginprologwritten
      /\ e.endprologwritten = d.endprologwritten /\ e.headerwritten = d.headerwritten
      /\ e.writeproc = d.writeproc /\ e.fp = d.fp /\ e.doc_open = d.doc_open
      /\ e.life = "freed"
  BY DEF Freed, Good, PSDoc
<1> HIDE DEF e
<1>3. ASSUME Ready(d)
      PROVE  Ready(e)
  <2>1. Writable(e)
    BY <1>2, <1>3 DEF Ready, SteadyDocs, Writable, HasSink
  <2>2. Deep(e, 1)
    BY <1>2, <1>3 DEF Ready, SteadyDocs, Writable, Deep, Depth
  <2>3. PageAgrees(e) /\ PrologAgrees(e)
    BY <1>2, <1>3 DEF Ready, SteadyDocs, PageAgrees, PrologAgrees, OneDocument, Has
  <2>4. e \in GoodDocs
    BY <1>1 DEF GoodDocs, Good
  <2>5. Phased(e)
    BY <1>2, <1>3 DEF Ready, Phased
  <2> QED
    BY <1>2, <1>3, <2>1, <2>2, <2>3, <2>4, <2>5 DEF Ready, SteadyDocs
<1>4. Rests(d) => Rests(e)
  BY <1>2 DEF Rests, Idle
<1>5. Unopened(d) => Unopened(e)
  BY <1>2 DEF Unopened
<1> QED
  BY <1>2, <1>3, <1>4, <1>5 DEF e

\* What PS_close and PS_delete return of an open document: an open document, or
\* one whose output is complete.
LEMMA ClosingCall ==
  ASSUME Orderly, Ready(psdoc), Accounted(psdoc, pending), CloseDocument \/ DeleteDocument
  PROVE  \/ Continues /\ Accounted(psdoc', pending')
         \/ Rests(psdoc') /\ DSC!Trailer
<1> DEFINE c == PS_close(psdoc)
<1>1. \/ c \in {psdoc, PS_end_page(psdoc)}
      \/ /\ c \in PSDoc /\ Rests(c)
         /\ psdoc.phase # "trailer" /\ psdoc.nest \in {<<>>, <<"page">>}
         /\ c.phase = "trailer" /\ c.page = psdoc.page
  BY DocumentCloses
<1>2. /\ Good(psdoc) /\ Ready(PS_end_page(psdoc)) /\ psdoc.doc_open
      /\ \A d : Ready(d) => Good(d) /\ d.life # "crashed"
      /\ \A d : Rests(d) => d.life # "crashed"
  BY PageEnds, ReadyStacks DEF Ready, SteadyDocs, Writable, Rests, Idle
<1>3. pending' = pending
  BY DEF CloseDocument, DeleteDocument
<1> HIDE DEF c
<1>4. PICK x \in {c, Freed(c)} : psdoc' = x
  <2>1. c.life # "crashed" /\ Freed(c).life # "crashed"
    <3>1. c.life # "crashed"
      BY <1>1, <1>2
    <3>2. c \in PSDoc
      BY <1>1, <1>2 DEF Good
    <3>3. Freed(c).life = "freed"
      BY <3>2 DEF Freed, PSDoc
    <3> QED
      BY <3>1, <3>3
  <2>2. CASE CloseDocument
    <3>1. Returns(c)
      BY <2>2 DEF CloseDocument, c
    <3> QED
      BY <2>1, <3>1 DEF Returns
  <2>3. CASE DeleteDocument
    <3>1. PS_delete(psdoc) = Freed(c)
      BY <1>2, <2>1 DEF PS_delete, Freed, c
    <3>2. Returns(Freed(c))
      BY <2>3, <3>1 DEF DeleteDocument
    <3> QED
      BY <2>1, <3>2 DEF Returns
  <2> QED
    BY <2>2, <2>3
<1>5. CASE c \in {psdoc, PS_end_page(psdoc)}
  <2>1. Good(c) /\ Ready(c)
    BY <1>2, <1>5
  <2>2. /\ Ready(x) /\ x.phase = c.phase /\ x.nest = c.nest /\ x.page = c.page
        /\ x.agstate = c.agstate /\ x.scopes = c.scopes
    <3>1. Freed(c).agstate = c.agstate /\ Freed(c).scopes = c.scopes
      BY <2>1 DEF Freed, Good, PSDoc
    <3> QED
      BY <2>1, <3>1, FreedIs
  <2>3. \/ c.phase = psdoc.phase /\ c.nest = psdoc.nest /\ c.page = psdoc.page
           /\ c.agstate = psdoc.agstate /\ c.scopes = psdoc.scopes
        \/ /\ Fixed(psdoc, c) /\ psdoc.nest = <<"page">> /\ c.nest = <<>>
           /\ c.scopes = SubSeq(psdoc.scopes, 1, Len(psdoc.scopes) - 1)
    BY <1>5, PageEnds
  <2>4. CASE c.phase = psdoc.phase /\ c.nest = psdoc.nest /\ c.page = psdoc.page
             /\ c.agstate = psdoc.agstate /\ c.scopes = psdoc.scopes
    <3>1. Continues
      BY <1>4, <2>2, <2>4, NothingWritten
    <3>2. SameCanvas
      BY <1>4, <2>2, <2>4 DEF SameCanvas, HasCanvas
    <3> QED
      BY <1>3, <3>1, <3>2, LevelsStay
  <2>5. CASE /\ Fixed(psdoc, c) /\ psdoc.nest = <<"page">> /\ c.nest = <<>>
             /\ c.scopes = SubSeq(psdoc.scopes, 1, Len(psdoc.scopes) - 1)
    <3>1. DSC!EndPage
      BY <1>4, <2>2, <2>5 DEF DSC!EndPage, Fixed
    <3>2. psdoc \in PSDoc /\ Len(psdoc.scopes) >= 1
      BY <1>2 DEF Good
    <3>3. SameCanvas
      BY <1>4, <2>2, <2>5, <3>2, CanvasPopped DEF SameCanvas, Fixed
    <3>4. Continues
      BY <1>4, <2>2, <3>1 DEF Continues, DSC!Next
    <3> QED
      BY <1>3, <3>3, <3>4, LevelsStay
  <2> QED
    BY <2>3, <2>4, <2>5
<1>6. CASE /\ c \in PSDoc /\ Rests(c)
           /\ psdoc.phase # "trailer" /\ psdoc.nest \in {<<>>, <<"page">>}
           /\ c.phase = "trailer" /\ c.page = psdoc.page
  <2>1. Rests(x) /\ x.phase = "trailer" /\ x.page = psdoc.page
    <3>1. Freed(c).phase = c.phase /\ Freed(c).page = c.page /\ Rests(Freed(c))
      <4>1. /\ Freed(c).scopes = c.scopes /\ Freed(c).doc_open = c.doc_open
            /\ Freed(c).life = "freed" /\ Freed(c).nest = c.nest
            /\ Freed(c).agstate = c.agstate /\ Freed(c).phase = c.phase
            /\ Freed(c).page = c.page
        BY <1>6 DEF Freed, PSDoc
      <4> QED
        BY <1>6, <4>1 DEF Rests, Idle
    <3> QED
      BY <1>6, <3>1
  <2>2. x.nest = <<>>
    BY <2>1 DEF Rests
  <2> QED
    BY <1>4, <1>6, <2>1, <2>2 DEF DSC!Trailer
<1> QED
  BY <1>1, <1>5, <1>6

\* A PSDoc that is not open is left as it is by all calls but PS_open_*, unless
\* it is freed.
LEMMA RestingCall ==
  ASSUME Orderly, Good(psdoc), Rests(psdoc), Next, ~OpenDocument
  PROVE  psdoc' \in {psdoc, Freed(psdoc)}
<1>1. Idle(psdoc) /\ psdoc.life # "crashed" /\ ~psdoc.doc_open
  BY DEF Rests, Idle
<1>2. CASE CloseDocument
  BY <1>1, <1>2, IdleClose DEF CloseDocument, Returns
<1>3. CASE DeleteDocument
  <2>1. PS_delete(psdoc) = Freed(psdoc)
    BY <1>1 DEF PS_delete, Freed
  <2>2. Freed(psdoc).life # "crashed"
    BY DEF Freed, Good, PSDoc
  <2> QED
    BY <1>3, <2>1, <2>2 DEF DeleteDocument, Returns
<1>4. CASE Call
  <2>1. "open_first" \in ClientRules
    BY DEF Orderly, AllRules
  <2> QED
    BY <1>1, <1>4, <2>1, IdleCall DEF Returns
<1> QED
  BY <1>2, <1>3, <1>4 DEF Next, Call

LEMMA StreamBegins ==
  ASSUME NEW d \in PSDoc
  PROVE  LET e == OpenStream(d)
         IN  /\ e \in PSDoc
             /\ e.nest = <<>> /\ e.phase = "empty" /\ e.page = 0 /\ e.agstate = d.agstate
             /\ e.page_open = d.page_open /\ e.beginprologwritten = d.beginprologwritten
             /\ e.endprologwritten = d.endprologwritten
             /\ e.headerwritten = d.headerwritten
<1> DEFINE o == [d EXCEPT !.page = 0, !.doc_open = TRUE, !.phase = "empty", !.nest = <<>>]
           e == ps_enter_scope(o, "DOCUMENT")
<1>1. <<>> \in Seq(Construct) /\ 0 \in Nat
  OBVIOUS
<1>2. /\ o \in PSDoc
      /\ o.nest = <<>> /\ o.phase = "empty" /\ o.page = 0 /\ o.agstate = d.agstate
      /\ o.page_open = d.page_open /\ o.beginprologwritten = d.beginprologwritten
      /\ o.endprologwritten = d.endprologwritten
      /\ o.headerwritten = d.headerwritten
  BY <1>1 DEF PSDoc
<1> HIDE DEF o
<1>3. PICK S \in Seq(Scope) : e = [o EXCEPT !.scopes = S]
  <2>1. o.scopes \in Seq(Scope) /\ Append(o.scopes, "DOCUMENT") \in Seq(Scope)
    BY <1>2 DEF PSDoc, Scope
  <2>2. o = [o EXCEPT !.scopes = o.scopes]
    BY <1>2 DEF PSDoc
  <2> QED
    BY <2>1, <2>2 DEF ps_enter_scope
<1>4. OpenStream(d) = e
  BY DEF OpenStream, o
<1> HIDE DEF e
<1>5. /\ e \in PSDoc
      /\ e.nest = o.nest /\ e.phase = o.phase /\ e.page = o.page /\ e.agstate = o.agstate
      /\ e.page_open = o.page_open /\ e.beginprologwritten = o.beginprologwritten
      /\ e.endprologwritten = o.endprologwritten
      /\ e.headerwritten = o.headerwritten
  BY <1>2, <1>3 DEF PSDoc
<1> QED
  BY <1>2, <1>4, <1>5

\* The document a PSDoc is opened as for the first time.
LEMMA OpeningCall ==
  ASSUME Orderly, IInv, Deep(psdoc, 0), opens = 0, Rests(psdoc), Unopened(psdoc), OpenDocument
  PROVE  Ready(psdoc') /\ ~HasCanvas(psdoc') /\ UNCHANGED DSC!vars
<1> DEFINE Begun(d) ==
             /\ d \in PSDoc
             /\ d.nest = <<>> /\ d.phase = "empty" /\ d.page = 0 /\ d.agstate = psdoc.agstate
             /\ d.page_open = psdoc.page_open
             /\ d.beginprologwritten = psdoc.beginprologwritten
             /\ d.endprologwritten = psdoc.endprologwritten
             /\ d.headerwritten = psdoc.headerwritten
<1>1. Good(psdoc) /\ psdoc \in PSDoc
  BY DEF IInv, Good
<1>2. /\ Opened(psdoc, PS_open_fp(psdoc, "caller"))
      /\ Opened(psdoc, PS_open_file(psdoc))
      /\ \A w \in {"buffer", "user"} : Opened(psdoc, PS_open_mem(psdoc, w))
  BY <1>1, Opens
<1>3. ASSUME NEW file \in {"caller", "lib"}
      PROVE  Begun(PS_open_fp(psdoc, file))
  <2> DEFINE o == [psdoc EXCEPT !.fp = file, !.closefp = FALSE, !.writeproc = "file"]
  <2>1. /\ o \in PSDoc /\ o.agstate = psdoc.agstate /\ o.page_open = psdoc.page_open
        /\ o.beginprologwritten = psdoc.beginprologwritten
        /\ o.endprologwritten = psdoc.endprologwritten
        /\ o.headerwritten = psdoc.headerwritten
    BY <1>1 DEF PSDoc
  <2>2. PS_open_fp(psdoc, file) = OpenStream(o)
    BY DEF PS_open_fp
  <2> HIDE DEF o
  <2> QED
    BY <2>1, <2>2, StreamBegins
<1>4. Begun(PS_open_file(psdoc))
  <2> DEFINE l == PS_open_fp(psdoc, "lib")
  <2>1. Begun(l)
    BY <1>3
  <2>2. PS_open_file(psdoc) = [l EXCEPT !.closefp = TRUE]
    BY DEF PS_open_file
  <2>3. l \in PSDoc
    BY <2>1
  <2> HIDE DEF l
  <2>4. /\ [l EXCEPT !.closefp = TRUE] \in PSDoc
        /\ [l EXCEPT !.closefp = TRUE].nest = l.nest
        /\ [l EXCEPT !.closefp = TRUE].phase = l.phase
        /\ [l EXCEPT !.closefp = TRUE].page = l.page
        /\ [l EXCEPT !.closefp = TRUE].agstate = l.agstate
        /\ [l EXCEPT !.closefp = TRUE].page_open = l.page_open
        /\ [l EXCEPT !.closefp = TRUE].beginprologwritten = l.beginprologwritten
        /\ [l EXCEPT !.closefp = TRUE].endprologwritten = l.endprologwritten
        /\ [l EXCEPT !.closefp = TRUE].headerwritten = l.headerwritten
    BY <2>3 DEF PSDoc
  <2> QED
    BY <2>1, <2>2, <2>4
<1>5. ASSUME NEW w \in {"buffer", "user"}
      PROVE  Begun(PS_open_mem(psdoc, w))
  <2> DEFINE o == [psdoc EXCEPT !.writeproc = w, !.fp = "null"]
  <2>1. /\ o \in PSDoc /\ o.agstate = psdoc.agstate /\ o.page_open = psdoc.page_open
        /\ o.beginprologwritten = psdoc.beginprologwritten
        /\ o.endprologwritten = psdoc.endprologwritten
        /\ o.headerwritten = psdoc.headerwritten
    BY <1>1 DEF PSDoc
  <2>2. PS_open_mem(psdoc, w) = OpenStream(o)
    BY DEF PS_open_mem
  <2> HIDE DEF o
  <2> QED
    BY <2>1, <2>2, StreamBegins
<1>6. PICK d : Begun(d) /\ Opened(psdoc, d) /\ Returns(d)
  <2>1. CASE Returns(PS_open_fp(psdoc, "caller"))
    BY <1>2, <1>3, <2>1
  <2>2. CASE Returns(PS_open_file(psdoc))
    BY <1>2, <1>4, <2>2
  <2>3. CASE \E w \in Outputs \cap {"buffer", "user"} : Returns(PS_open_mem(psdoc, w))
    BY <1>2, <1>5, <2>3
  <2> QED
    BY <2>1, <2>2, <2>3 DEF OpenDocument
<1>7. /\ Opened(psdoc, d)
      /\ d.nest = <<>> /\ d.phase = "empty" /\ d.page = 0 /\ d.agstate = 0
      /\ ~d.page_open /\ ~d.beginprologwritten /\ ~d.endprologwritten /\ ~d.headerwritten
  BY <1>6 DEF Rests, Unopened
<1> HIDE DEF Begun
<1>8. psdoc' = d
  BY <1>6, <1>7 DEF Returns, Opened, Rests, Idle
<1>9. Idle(psdoc) /\ Len(psdoc.scopes) = 1
  BY DEF Rests, Idle
<1>10. Good(d) /\ Writable(d)
  BY <1>1, <1>7, <1>9, OpenedIsGood, OpenedIsWritable
<1>11. Deep(d, 1)
  <2>1. Deep(d, 0 + 1) /\ 0 + 1 = 1
    BY <1>1, <1>7, OpenedIsDeep
  <2> QED
    BY <2>1
<1>12. Len(d.scopes) = 2 /\ d.scopes[1] = "OBJECT" /\ d.scopes[2] = "DOCUMENT"
  <2> DEFINE p == Pushed(psdoc.scopes, "DOCUMENT")
  <2>1. Len(psdoc.scopes) # MaxScopes /\ "DOCUMENT" \in Scope
    BY <1>9, MaxScopesAssumption DEF Scope
  <2>2. Len(p) = Len(psdoc.scopes) + 1
    BY <1>1, <2>1, PushedIs
  <2> HIDE DEF p
  <2>3. d.scopes = p
    BY <1>7 DEF Opened, p
  <2>4. Len(d.scopes) = 2
    BY <1>9, <2>2, <2>3
  <2> QED
    BY <1>10, <2>4 DEF Good, Writable
<1>13. \A i \in 1..2 : i = 1 \/ i = 2
  OBVIOUS
<1>14. PageAgrees(d) /\ PrologAgrees(d) /\ ~HasCanvas(d)
  BY <1>7, <1>12, <1>13 DEF PageAgrees, PrologAgrees, OneDocument, Has, HasCanvas, DrawingScope
<1>15. Structured(d.scopes, <<>>, 0)
  <2>1. Frames(d.scopes) = 0
    BY <1>12 DEF Frames
  <2>2. Len(<<>>) = 0
    OBVIOUS
  <2> QED
    BY <2>1, <2>2 DEF Structured
<1>16. Ready(d)
  <2>1. d \in SteadyDocs
    BY <1>10, <1>11, <1>14 DEF SteadyDocs, GoodDocs, Good
  <2>2. Phased(d)
    BY <1>7 DEF Phased
  <2> QED
    BY <1>7, <1>15, <2>1, <2>2 DEF Ready
<1>17. UNCHANGED DSC!vars
  BY <1>7, <1>8 DEF DSC!vars, Rests, Unopened
<1> QED
  BY <1>8, <1>14, <1>16, <1>17

----------------------------------------------------------------------------
(* The theorems.                                                           *)

LEMMA OutputCall ==
  ASSUME Orderly, MaxOpens <= 1, OutInv, Deep(psdoc, opens), [Next]_vars
  PROVE  /\ Ready(psdoc') \/ Rests(psdoc')
         /\ opens' = 0 => Rests(psdoc') /\ Unopened(psdoc')
         /\ LevelsAgree'
         /\ [DSC!Next]_(DSC!vars)
<1>1. /\ Good(psdoc) /\ opens \in Nat /\ pending \in Int
      /\ opens' = IF OpenDocument THEN opens + 1 ELSE opens
  BY CountedStep, BoundsAssumption DEF OutInv, IInv, Counted
<1>2. ASSUME NEW d, Rests(d)
      PROVE  ~Ready(d) /\ ~HasCanvas(d)
  <2>1. d.scopes = <<"OBJECT">> /\ ~d.doc_open
    BY <1>2 DEF Rests, Idle
  <2>2. Len(d.scopes) = 1 /\ d.scopes[1] = "OBJECT"
    BY <2>1
  <2> QED
    BY <2>1, <2>2 DEF Ready, SteadyDocs, Writable, HasCanvas, DrawingScope
<1>3. ASSUME Rests(psdoc')
      PROVE  LevelsAgree'
  BY <1>2, <1>3 DEF LevelsAgree, HasCanvas, Rests
<1>4. ASSUME Ready(psdoc'), Accounted(psdoc', pending')
      PROVE  LevelsAgree'
  BY <1>4, CanvasOfLevel DEF LevelsAgree, Accounted, HasCanvas
<1>5. CASE OpenDocument
  <2>1. opens = 0 /\ opens' = 1
    BY <1>1, <1>5, BoundsAssumption DEF OpenDocument
  <2>2. Ready(psdoc') /\ ~HasCanvas(psdoc') /\ UNCHANGED DSC!vars
    BY <1>5, <2>1, OpeningCall DEF OutInv
  <2> QED
    BY <1>4, <2>1, <2>2 DEF Accounted
<1>6. CASE Ready(psdoc) /\ Next /\ ~OpenDocument
  <2>1. opens' # 0
    BY <1>1, <1>2, <1>6 DEF OutInv
  <2>2. Accounted(psdoc, pending)
    BY <1>6, LevelsAccounted DEF OutInv
  <2>3. \/ Continues /\ Accounted(psdoc', pending')
        \/ Rests(psdoc') /\ DSC!Trailer
    <3>1. CASE CloseDocument \/ DeleteDocument
      BY <1>6, <2>2, <3>1, ClosingCall
    <3>2. CASE Call
      BY <1>1, <1>6, <2>2, <3>2, ReadyCall
    <3> QED
      BY <1>6, <3>1, <3>2 DEF Next, Call
  <2> QED
    BY <1>3, <1>4, <2>1, <2>3 DEF Continues, DSC!Next
<1>7. CASE Rests(psdoc) /\ Next /\ ~OpenDocument
  <2>1. psdoc' \in {psdoc, Freed(psdoc)}
    BY <1>1, <1>7, RestingCall
  <2>2. /\ Rests(psdoc') /\ (Unopened(psdoc) => Unopened(psdoc'))
        /\ psdoc'.phase = psdoc.phase /\ psdoc'.nest = psdoc.nest
        /\ psdoc'.page = psdoc.page
    BY <1>1, <1>7, <2>1, FreedIs
  <2>3. opens' = 0 => Unopened(psdoc')
    BY <1>1, <1>7, <2>2 DEF OutInv
  <2> QED
    BY <1>3, <2>2, <2>3 DEF DSC!vars
<1>8. CASE UNCHANGED vars
  BY <1>8 DEF vars, OutInv, LevelsAgree, DSC!vars
<1> QED
  BY <1>5, <1>6, <1>7, <1>8 DEF OutInv

LEMMA OutputStarts ==
  ASSUME Init
  PROVE  Rests(psdoc) /\ Unopened(psdoc) /\ LevelsAgree /\ DSC!Init
<1>1. /\ psdoc.scopes = <<"OBJECT">> /\ ~psdoc.doc_open /\ psdoc.life = "live"
      /\ psdoc.nest = <<>> /\ psdoc.agstate = 0 /\ psdoc.phase = "empty" /\ psdoc.page = 0
      /\ ~psdoc.beginprologwritten /\ ~psdoc.endprologwritten /\ ~psdoc.headerwritten
      /\ ~psdoc.page_open
  BY DEF Init, PS_new2
<1>2. Len(psdoc.scopes) = 1 /\ psdoc.scopes[1] = "OBJECT"
  BY <1>1
<1>3. Rests(psdoc) /\ Unopened(psdoc) /\ DSC!Init
  BY <1>1 DEF Rests, Idle, Unopened, DSC!Init
<1> QED
  BY <1>1, <1>2, <1>3 DEF LevelsAgree, DrawingScope

\* The invariant: the constructs that are open in the output are at all times
\* those the scopes and the levels of agstate stand for.
THEOREM OutputAgrees ==
  ASSUME Orderly, MaxOpens <= 1
  PROVE  Spec => []OutInv
<1> DEFINE Agrees == /\ Ready(psdoc) \/ Rests(psdoc)
                     /\ opens = 0 => Rests(psdoc) /\ Unopened(psdoc)
                     /\ LevelsAgree
<1>1. Init => Agrees
  BY OutputStarts
<1>2. IInv /\ StackDepth /\ Deep(psdoc, opens) /\ Agrees /\ [Next]_vars => Agrees'
  BY OutputCall DEF OutInv
<1>3. IInv /\ Agrees => OutInv
  BY DEF OutInv
<1> QED
  BY <1>1, <1>2, <1>3, Invariance, StackIsDeepEnough, PTL DEF Spec

\* In a program that keeps all rules and opens a document once, agstate is what
\* the caller has saved on the canvas it is on and has not restored yet, and
\* zero wherever it is on none: no page, template or pattern is begun with a
\* level left over, none is refused its end because of one.
THEOREM LevelsAreRight ==
  ASSUME Orderly, MaxOpens <= 1
  PROVE  Spec => []LevelsAgree
<1>1. OutInv => LevelsAgree
  BY DEF OutInv
<1> QED
  BY <1>1, OutputAgrees, PTL

\* What such a program gets written is a document in the order of the Document
\* Structuring Conventions in which every construct that is opened is closed,
\* innermost first: every call appends what one step of DSCStream allows.
THEOREM OutputIsInOrder ==
  ASSUME Orderly, MaxOpens <= 1
  PROVE  Spec => ImplementsDSC
<1>1. Init => DSC!Init
  BY OutputStarts
<1>2. OutInv /\ StackDepth /\ Deep(psdoc, opens) /\ [Next]_vars => [DSC!Next]_(DSC!vars)
  BY OutputCall
<1> QED
  BY <1>1, <1>2, OutputAgrees, StackIsDeepEnough, PTL DEF Spec, ImplementsDSC, DSC!Spec
=============================================================================
