SPECIFICATION GSpec
CONSTANTS
  MaxScopes = 20
  MaxGState = 1
  MaxPages = 2
  MaxOpens = 1
  Outputs = {"buffer"}
  ClientRules = {"open_first", "header_first", "page_between", "balance", "levels"}
  Colours <- TwoColours
  Black = "black"
  SpotNames <- OneSpot
  Patterns <- OnePattern
  Fonts <- OneFont
  Decorations <- SomeDecorations
  GraphicsRules = {"setgray_recoloured", "colourspaces", "defined_here", "over_device"}
INVARIANTS
  PaintAsAsked
CHECK_DEADLOCK FALSE
