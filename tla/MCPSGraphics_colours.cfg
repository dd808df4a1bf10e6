SPECIFICATION GSpec
CONSTANTS
  MaxScopes = 20
  MaxGState = 2
  MaxPages = 1
  MaxOpens = 1
  Outputs = {"buffer"}
  ClientRules = {"open_first", "header_first", "page_between", "balance", "levels"}
  Colours <- OneColour
  Black = "black"
  SpotNames = {}
  Patterns <- OnePattern
  Fonts <- OneFont
  Decorations <- SomeDecorations
  GraphicsRules = {"setgray_recoloured", "colourspaces", "defined_here", "over_device"}
INVARIANTS
  PaintAsAsked
  FlagsAgree
CHECK_DEADLOCK FALSE
