------------------------------ MODULE DSCStream ------------------------------
(***************************************************************************)
(* What a PostScript document written by pslib promises to the program     *)
(* that reads it: a stream in the order of the Document Structuring        *)
(* Conventions (prolog, script, trailer) in which every construct that is  *)
(* opened is closed again, innermost first.                                *)
(*                                                                         *)
(* Only the structure of the stream is kept.  One step is what one call of *)
(* the library appends to it.                                              *)
(***************************************************************************)
EXTENDS Naturals, Sequences

VARIABLES
  phase,   \* how far the stream has come: "empty", "prolog", "script", "trailer"
  nest,    \* the constructs open at the end of the stream, the innermost last
  pages    \* the number of %%Page comments written

vars == <<phase, nest, pages>>

\* A procedure body (template or pattern) or a font dictionary.
Definition == {"proc", "fontdict"}

\* Where drawing happens, and so where the graphics state may be saved.
Canvas == {"page", "proc", "gsave"}

Innermost == IF nest = <<>> THEN "stream" ELSE nest[Len(nest)]

Push(c) == nest' = Append(nest, c)
Pop == nest' = SubSeq(nest, 1, Len(nest) - 1)

Init == /\ phase = "empty"
        /\ nest = <<>>
        /\ pages = 0

----------------------------------------------------------------------------
\* The comments and the opening of the prolog.
BeginProlog ==
  /\ phase = "empty"
  /\ phase' = "prolog"
  /\ nest' = <<"prolog">>
  /\ UNCHANGED pages

\* A definition inside the prolog or between two pages.
BeginDefinition(c) ==
  /\ phase \in {"prolog", "script"}
  /\ Innermost \in {"stream", "prolog"}
  /\ Push(c)
  /\ UNCHANGED <<phase, pages>>

\* The first definition of a document opens the prolog it belongs to.
BeginFirstDefinition(c) ==
  /\ phase = "empty"
  /\ phase' = "prolog"
  /\ nest' = <<"prolog", c>>
  /\ UNCHANGED pages

BeginCharProc ==
  /\ Innermost = "fontdict"
  /\ Push("charproc")
  /\ UNCHANGED <<phase, pages>>

EndDefinition ==
  /\ Innermost \in Definition \cup {"charproc"}
  /\ Pop
  /\ UNCHANGED <<phase, pages>>

Gsave ==
  /\ Innermost \in Canvas
  /\ Push("gsave")
  /\ UNCHANGED <<phase, pages>>

Grestore ==
  /\ Innermost = "gsave"
  /\ Pop
  /\ UNCHANGED <<phase, pages>>

\* A page starts between pages, or ends the prolog if it is the first one.
BeginPage ==
  /\ \/ phase = "empty" /\ nest = <<>>
     \/ phase = "prolog" /\ nest = <<"prolog">>
     \/ phase = "script" /\ nest = <<>>
  /\ phase' = "script"
  /\ nest' = <<"page">>
  /\ pages' = pages + 1

EndPage ==
  /\ nest = <<"page">>
  /\ nest' = <<>>
  /\ UNCHANGED <<phase, pages>>

\* The trailer follows the last page; a page still open is ended first.
Trailer ==
  /\ phase # "trailer"
  /\ nest \in {<<>>, <<"page">>}
  /\ phase' = "trailer"
  /\ nest' = <<>>
  /\ UNCHANGED pages

Next ==
  \/ BeginProlog \/ BeginCharProc \/ EndDefinition
  \/ \E c \in Definition : BeginDefinition(c) \/ BeginFirstDefinition(c)
  \/ Gsave \/ Grestore
  \/ BeginPage \/ EndPage \/ Trailer

Spec == Init /\ [][Next]_vars
=============================================================================
