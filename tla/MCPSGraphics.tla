---------------------------- MODULE MCPSGraphics ----------------------------
(***************************************************************************)
(* PSGraphics for TLC.  With levels of PS_save: black and a pattern, of    *)
(* either PaintType.  Without: two colours, a spot colour and a pattern,   *)
(* so that what a pattern is painted over matters.  One font is enough,    *)
(* since it is only ever compared with no font; the combinations of        *)
(* decorations are one, none and two lines per text.                       *)
(***************************************************************************)
EXTENDS PSGraphics

TwoColours == {"black", "red"}
OneColour == {"black"}
OneSpot == {"spot"}
OnePattern == {"pattern1"}
OneFont == {"font"}
SomeDecorations == {{}, {"underline"}, {"overline", "strikeout"}}
=============================================================================
